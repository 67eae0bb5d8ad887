------------------------------- MODULE Slots --------------------------------
(***************************************************************************)
(* The seats of one subscription (services/subscriptions/slots.rs,         *)
(* repositories/subscriptions/slots.rs, query/slot_transactions.rs).       *)
(*                                                                         *)
(* Seats are counted from the latest transaction: the seats there were     *)
(* when it was written, plus the changes in effect since.  A request reads *)
(* the count and inserts its own transaction later; the lock it takes on   *)
(* the latest transaction does not renew what it has read.                 *)
(*                                                                         *)
(* Each request and each payment has a moment of its own.                  *)
(***************************************************************************)
EXTENDS Integers, FiniteSets, FiniteSetsExt, Functions

CONSTANTS
    Clients,        \* requests that may be open at once
    InitialSeats, MinSeats, MaxSeats,
    Changes,        \* the numbers of seats a request adds or removes
    PeriodLength,   \* moments in a billing period
    LastMoment,     \* bound: the last moment
    MaxSeatRows     \* bound: transactions ever written

SeatRowIds == 0 .. MaxSeatRows
Moments == 0 .. LastMoment + PeriodLength
SeatStatuses == {"absent", "Pending", "Active", "deleted"}
SeatModes == {"optimistic", "on_paid"}

ASSUME SlotsAssumption ==
    /\ Changes \subseteq Int \ {0}
    /\ MinSeats \in Nat /\ MaxSeats \in Nat /\ InitialSeats \in MinSeats .. MaxSeats
    /\ PeriodLength \in Nat \ {0} /\ LastMoment \in Nat /\ MaxSeatRows \in Nat

VARIABLES
    moment,     \* the clock
    periodEnd,  \* current_period_end
    seatRow,    \* slot_transaction
    seatReq,    \* client -> its open request
    irregular   \* history: what happened that the count is not made for

slotVars == <<moment, periodEnd, seatRow, seatReq, irregular>>

\* A request wrote after another had written what it did not read; a change was
\* asked for or written after the end of its period; a reduction was asked for
\* while another was waiting for the end of the period.
Irregularities == {"raced", "late", "stacked"}

NoSeatReq == [open |-> FALSE, delta |-> 0, mode |-> "optimistic", at |-> 0,
              effective |-> 0, prev |-> 0, seen |-> {}]

Unwritten == [status |-> "absent", delta |-> 0, prev |-> 0, effective |-> 0, at |-> 0]

\* The row a subscription starts with.
SlotsInit ==
    /\ moment = 0
    /\ periodEnd = PeriodLength
    /\ seatRow = [i \in SeatRowIds |->
                    IF i = 0 THEN [Unwritten EXCEPT !.status = "Active", !.prev = InitialSeats]
                    ELSE Unwritten]
    /\ seatReq = [c \in Clients |-> NoSeatReq]
    /\ irregular = {}

WrittenSeats == {<<i, seatRow[i].status>> : i \in {j \in SeatRowIds : seatRow[j].status # "absent"}}
ActiveSeats == {i \in SeatRowIds : seatRow[i].status = "Active"}
FreeSeatRows == {i \in SeatRowIds : seatRow[i].status = "absent"}
Reductions == {i \in ActiveSeats : seatRow[i].delta < 0 /\ seatRow[i].effective > moment}

SumOfChanges(ids) == SumFunctionOnSet([i \in SeatRowIds |-> seatRow[i].delta], ids)

\* The latest transaction of a set.
LatestOf(ids) == CHOOSE i \in ids : \A j \in ids : seatRow[j].at <= seatRow[i].at

\* Mutant: changes from before the latest transaction are added again.
SeatsCountedTwice(t) ==
    LET written == {i \in ActiveSeats : seatRow[i].at <= t}
    IN  IF written = {} THEN 0
        ELSE seatRow[LatestOf(written)].prev
             + SumOfChanges({i \in ActiveSeats : seatRow[i].effective <= t})

\* fetch_by_subscription_id_and_unit_locked, at a moment.
SeatsAt(t) ==
    LET written == {i \in ActiveSeats : seatRow[i].at <= t}
        row == seatRow[LatestOf(written)]
    IN  IF written = {} THEN 0
        ELSE row.prev + SumOfChanges({i \in ActiveSeats : seatRow[i].effective \in row.at .. t})

\* validate_slot_limits.
WithinLimits(seats) == seats \in MinSeats .. MaxSeats

Tick == moment < LastMoment /\ moment' = moment + 1

\* Mutant: a reduction takes effect at once.
EffectiveNow(delta, t) == IF t < periodEnd THEN t ELSE periodEnd

\* Seats are added at once, and removed at the end of the period.
EffectiveAt(delta, t) == IF delta > 0 /\ t < periodEnd THEN t ELSE periodEnd

\* add_slot_transaction_tx reads the seats there will be when the change takes
\* effect, as they are committed, and checks the limits.
AskSeats(c, delta, mode) ==
    LET effective == EffectiveAt(delta, moment + 1)
        seats == SeatsAt(effective)
    IN
    /\ ~seatReq[c].open /\ Tick
    /\ delta < 0 => mode = "optimistic"
    /\ WithinLimits(seats + delta)
    /\ seatReq' = [seatReq EXCEPT ![c] =
          [open |-> TRUE, delta |-> delta, mode |-> mode, at |-> moment + 1,
           effective |-> effective, prev |-> seats, seen |-> WrittenSeats]]
    /\ irregular' = irregular
          \cup (IF moment + 1 >= periodEnd THEN {"late"} ELSE {})
          \cup (IF delta < 0 /\ Reductions # {} THEN {"stacked"} ELSE {})
    /\ UNCHANGED <<periodEnd, seatRow>>

CloseSeatReq(c) == seatReq' = [seatReq EXCEPT ![c] = NoSeatReq]

\* The transaction is inserted, pending until its invoice is paid in mode
\* on_paid.
WriteSeats(c) ==
    LET r == seatReq[c] IN
    /\ r.open /\ FreeSeatRows # {}
    /\ seatRow' = [seatRow EXCEPT ![Min(FreeSeatRows)] =
          [status |-> IF r.mode = "on_paid" THEN "Pending" ELSE "Active",
           delta |-> r.delta, prev |-> r.prev, effective |-> r.effective, at |-> r.at]]
    /\ irregular' = irregular \cup (IF WrittenSeats # r.seen THEN {"raced"} ELSE {})
                              \cup (IF moment >= periodEnd \/ r.at <= periodEnd - PeriodLength
                                      THEN {"late"} ELSE {})
    /\ CloseSeatReq(c)
    /\ UNCHANGED <<moment, periodEnd>>

DropSeats(c) ==
    /\ seatReq[c].open
    /\ CloseSeatReq(c)
    /\ UNCHANGED <<moment, periodEnd, seatRow, irregular>>

\* activate_pending_for_invoice, when the invoice is paid.
SeatsPaid(i) ==
    /\ seatRow[i].status = "Pending" /\ Tick
    /\ seatRow' = [seatRow EXCEPT ![i].status = "Active", ![i].effective = moment + 1]
    /\ UNCHANGED <<periodEnd, seatReq, irregular>>

\* cancel_slot_transaction, of a change that is not in effect yet.
CancelSeats(i) ==
    /\ i \in ActiveSeats /\ seatRow[i].effective > moment
    /\ seatRow' = [seatRow EXCEPT ![i] = [Unwritten EXCEPT !.status = "deleted"]]
    /\ UNCHANGED <<moment, periodEnd, seatReq, irregular>>

\* The next period begins, in time or not.
RenewSeats ==
    /\ moment >= periodEnd
    /\ periodEnd' = periodEnd + PeriodLength
    /\ UNCHANGED <<moment, seatRow, seatReq, irregular>>

PassTime == Tick /\ UNCHANGED <<periodEnd, seatRow, seatReq, irregular>>

SlotsNext ==
    \/ \E c \in Clients :
        \/ \E delta \in Changes, mode \in SeatModes : AskSeats(c, delta, mode)
        \/ WriteSeats(c) \/ DropSeats(c)
    \/ \E i \in SeatRowIds : SeatsPaid(i) \/ CancelSeats(i)
    \/ RenewSeats \/ PassTime

SlotsSpec == SlotsInit /\ [][SlotsNext]_slotVars

-----------------------------------------------------------------------------
(* Properties.                                                             *)

\* Every variable has its type.
SlotsTypeOK ==
    /\ moment \in 0 .. LastMoment
    /\ periodEnd \in Moments
    /\ seatRow \in [SeatRowIds -> [status : SeatStatuses,
                                   delta : Changes \cup {0}, prev : Int,
                                   effective : Moments, at : Moments]]
    /\ seatReq \in [Clients -> [open : BOOLEAN, delta : Changes \cup {0}, mode : SeatModes,
                                at : Moments, effective : Moments, prev : Int,
                                seen : SUBSET (SeatRowIds \X SeatStatuses)]]
    /\ irregular \subseteq Irregularities

\* What has been bought and is in effect.
SeatsBought ==
    InitialSeats + SumOfChanges({i \in ActiveSeats : seatRow[i].effective <= moment})

\* The count from the latest transaction is the sum of all changes in effect,
\* across payments that come late, reductions and their cancellation, and the
\* end of the period, as long as nothing irregular happened.  However requests
\* race, nobody has more seats than were bought.
SeatsAddUp ==
    LET seats == SeatsAt(moment)
        bought == SeatsBought
    IN  /\ irregular = {} => seats = bought
        /\ "late" \notin irregular => seats <= bought

\* The step by which a reduction of c is written, in a history with no more
\* irregularities than those given.
WritesReduction(c, irregularities) ==
    seatReq[c].delta < 0 /\ WriteSeats(c) /\ irregular' \subseteq irregularities

\* Asking for fewer seats takes none away until the period ends, as long as
\* nothing irregular happened.
ReductionWaits ==
    [][\A c \in Clients : WritesReduction(c, {}) => SeatsAt(moment)' >= SeatsAt(moment)]_slotVars

\* The same with other reductions waiting (update_subscription_slots:
\* "Downgrades (delta < 0): Always deferred to next billing period").
DowngradesDeferred ==
    [][\A c \in Clients :
        WritesReduction(c, {"stacked"}) => SeatsAt(moment)' >= SeatsAt(moment)]_slotVars

=============================================================================
