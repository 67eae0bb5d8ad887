------------------------- MODULE SubscriptionProofs -------------------------
(***************************************************************************)
(* Proofs about one subscription: its life (Lifecycle) and its seats       *)
(* (Slots), which share no state.                                          *)
(***************************************************************************)
EXTENDS Lifecycle, Slots, Sums, WellFoundedInduction, TLAPS

-----------------------------------------------------------------------------
(***************************************************************************)
(* The life of the subscription.                                           *)
(***************************************************************************)

\* The rows, with dates and counters that may be any integer.
IntRow == [status : SubStatus, action : CycleActions, start : Int, end : Int,
           until : Int, plan : Plans, trial : Int, trialEnd : TrialEnds,
           errors : Int, backoff : BOOLEAN, claimed : BOOLEAN]
IntEvent == [status : EventStatus, type : EventTypes, date : Int, from : Plans,
             plan : Plans, retries : Int]
IntEvents == [EventIds -> IntEvent]

Shapes ==
    /\ today \in Int /\ today <= Horizon
    /\ sub \in IntRow
    /\ event \in IntEvents
    /\ work \in [EventWorkers -> [step : {"idle", "run", "patch"},
                                  event : EventIds \cup {0}]]
    /\ \A v \in EventWorkers : work[v].step # "idle" => work[v].event \in EventIds
    /\ request \in [Users -> [op : {"none", "cancel", "undo"}, date : Int,
                              events : SUBSET EventIds]]

\* A subscription that has ended has no period that a worker could wait for.
EndedOpen == Ended(sub) => sub.end = NoDate

LInv == Shapes /\ EndedOpen

LEMMA PlanExists == AnyPlan \in Plans
BY LifecycleAssumption DEF AnyPlan

LEMMA NewEventTyped ==
    \A type \in EventTypes, date \in Int, p, q \in Plans :
        NewEvent(type, date, p, q) \in IntEvent
BY DEF NewEvent, IntEvent, EventStatus

LEMMA OverTyped ==
    \A row \in IntEvent, status \in EventStatus : Over(row, status) \in IntEvent
BY PlanExists DEF Over, NewEvent, IntEvent, EventStatus

LEMMA CancelPendingTyped ==
    \A ev \in IntEvents : \A types : CancelPending(ev, types) \in IntEvents
BY OverTyped DEF CancelPending, IntEvents, EventStatus

LEMMA CompletedTyped ==
    \A ev \in IntEvents, i \in EventIds : Completed(ev, i) \in IntEvents
BY OverTyped DEF Completed, IntEvents, EventStatus

LEMMA FailedTyped ==
    \A ev \in IntEvents, i \in EventIds : today \in Int => Failed(ev, i) \in IntEvents
<1> SUFFICES ASSUME NEW ev \in IntEvents, NEW i \in EventIds, today \in Int
             PROVE  Failed(ev, i) \in IntEvents
    OBVIOUS
<1>1. ev[i] \in IntEvent
    BY DEF IntEvents
<1>2. Over(ev[i], "Failed") \in IntEvent
    BY <1>1, OverTyped DEF EventStatus
<1>3. [ev[i] EXCEPT !.status = "Pending", !.date = today, !.retries = @ + 1] \in IntEvent
    <2>1. ev[i].retries + 1 \in Int /\ "Pending" \in EventStatus
        BY <1>1 DEF IntEvent, EventStatus
    <2> QED
        BY <1>1, <2>1 DEF IntEvent
<1>4. AfterFailure(ev[i]) \in IntEvent
    BY <1>2, <1>3 DEF AfterFailure
<1> QED
    BY <1>4 DEF Failed, IntEvents

LEMMA ScheduleTyped ==
    \A ev \in IntEvents, row \in IntEvent : Schedule(ev, row) \in IntEvents
BY DEF Schedule, IntEvents

LEMMA Members ==
    /\ {"PendingActivation", "TrialActive", "Active", "TrialExpired", "Cancelled",
        "Completed", "Errored"} = SubStatus
    /\ "Active" \in SubStatus /\ "TrialActive" \in SubStatus
    /\ "TrialExpired" \in SubStatus /\ "Cancelled" \in SubStatus
    /\ "Completed" \in SubStatus /\ "Errored" \in SubStatus
    /\ "None" \in CycleActions /\ "RenewSubscription" \in CycleActions
    /\ "EndTrial" \in CycleActions /\ "EndSubscription" \in CycleActions
    /\ NoDate \in Int /\ NoDate > Horizon
BY LifecycleAssumption DEF SubStatus, CycleActions, NoDate

LEMMA RowFields ==
    \A s \in IntRow : s.start \in Int /\ s.end \in Int /\ s.plan \in Plans
                      /\ s.status \in SubStatus /\ s.action \in CycleActions
                      /\ s.trial \in Int /\ s.errors \in Int /\ s.until \in Int
                      /\ Length[s.plan] \in Int
BY LifecycleAssumption DEF IntRow

\* The row with its period, its next action and its status replaced.
WithPeriod(s, st, a, d, e) ==
    [s EXCEPT !.status = st, !.action = a, !.start = d, !.end = e]

LEMMA RowPeriod ==
    \A s \in IntRow, st \in SubStatus, a \in CycleActions, d, e \in Int :
        WithPeriod(s, st, a, d, e) \in IntRow
BY DEF IntRow, WithPeriod

LEMMA RowPeriodFields ==
    \A s \in IntRow : \A st, a, d, e :
        /\ WithPeriod(s, st, a, d, e).status = st
        /\ WithPeriod(s, st, a, d, e).end = e
BY DEF IntRow, WithPeriod

LEMMA RowSettled ==
    \A s \in IntRow :
        Settled(s) \in IntRow /\ Settled(s).status = s.status /\ Settled(s).end = s.end
<1> SUFFICES ASSUME NEW s \in IntRow
             PROVE  Settled(s) \in IntRow /\ Settled(s).status = s.status /\ Settled(s).end = s.end
    OBVIOUS
<1>1. Settled(s) \in IntRow
    <2>1. s.errors \in Int /\ 0 \in Int /\ FALSE \in BOOLEAN
        BY DEF IntRow
    <2> QED
        BY <2>1 DEF IntRow, Settled
<1>2. Settled(s).status = s.status /\ Settled(s).end = s.end
    BY DEF IntRow, Settled
<1> QED
    BY <1>1, <1>2

LEMMA TerminatedRow ==
    \A s \in IntRow, d \in Int :
        /\ Terminated(s, d) \in IntRow
        /\ Terminated(s, d).status = "Cancelled" /\ Terminated(s, d).end = NoDate
<1>1. \A s, d : Terminated(s, d) = WithPeriod(s, "Cancelled", "None", d, NoDate)
    BY DEF Terminated, WithPeriod
<1> QED
    BY <1>1, RowPeriod, RowPeriodFields, Members

LEMMA RenewedRow ==
    \A s \in IntRow : Renewed(s) \in IntRow /\ Renewed(s).status = "Active"
<1> SUFFICES ASSUME NEW s \in IntRow
             PROVE  Renewed(s) \in IntRow /\ Renewed(s).status = "Active"
    OBVIOUS
<1>1. Renewed(s) = WithPeriod(s, "Active", "RenewSubscription", s.end, s.end + Length[s.plan])
    BY DEF Renewed, WithPeriod
<1>2. s.end \in Int /\ s.end + Length[s.plan] \in Int
    BY RowFields
<1> QED
    BY <1>1, <1>2, RowPeriod, RowPeriodFields, Members

\* The period after this one is either the end, left open, or a status that is
\* not an end.
LEMMA NextCycleRow ==
    \A s \in IntRow : s.action # "None" =>
        /\ NextCycle(s) \in IntRow
        /\ Ended(NextCycle(s)) => NextCycle(s).end = NoDate
<1> SUFFICES ASSUME NEW s \in IntRow, s.action # "None"
             PROVE  /\ NextCycle(s) \in IntRow
                    /\ Ended(NextCycle(s)) => NextCycle(s).end = NoDate
    OBVIOUS
<1> DEFINE r == Renewed(s)
<1>0. r \in IntRow /\ r.status = "Active"
    BY RenewedRow
<1>1. CASE NextCycle(s) = r
    BY <1>1, <1>0 DEF Ended
<1>2. CASE s.action = "ActivateSubscription" /\ s.trial # 0
    <2>1. s.end + s.trial \in Int
        BY RowFields
    <2>2. NextCycle(s) = [r EXCEPT !.status = "TrialActive", !.action = "EndTrial",
                                   !.end = s.end + s.trial]
        BY <1>2 DEF NextCycle
    <2> HIDE DEF r
    <2>3. NextCycle(s) \in IntRow
        BY <2>1, <2>2, <1>0, Members DEF IntRow
    <2>4. NextCycle(s).status = "TrialActive"
        BY <2>2, <1>0 DEF IntRow
    <2> QED
        BY <2>3, <2>4 DEF Ended
<1>3. CASE s.action = "EndTrial" /\ s.trialEnd \notin {"free", "bill"}
    <2>1. NextCycle(s) = [r EXCEPT !.status = "TrialExpired", !.action = "None"]
        BY <1>3 DEF NextCycle
    <2> HIDE DEF r
    <2>2. NextCycle(s) \in IntRow
        BY <2>1, <1>0, Members DEF IntRow
    <2>3. NextCycle(s).status = "TrialExpired"
        BY <2>1, <1>0 DEF IntRow
    <2> QED
        BY <2>2, <2>3 DEF Ended
<1>4. CASE s.action = "EndSubscription"
    <2>1. NextCycle(s) = WithPeriod(s, "Completed", "None", s.end, NoDate)
        BY <1>4 DEF NextCycle, WithPeriod
    <2> QED
        BY <2>1, RowFields, Members, RowPeriod, RowPeriodFields
<1>5. s.action \in {"RenewSubscription", "ActivateSubscription", "EndTrial", "EndSubscription"}
    BY RowFields DEF CycleActions
<1>6. CASE s.action = "RenewSubscription"
    BY <1>6, <1>1 DEF NextCycle
<1>7. CASE s.action = "ActivateSubscription" /\ s.trial = 0
    BY <1>7, <1>1 DEF NextCycle
<1>8. CASE s.action = "EndTrial" /\ s.trialEnd \in {"free", "bill"}
    BY <1>8, <1>1 DEF NextCycle
<1> QED
    BY <1>2, <1>3, <1>4, <1>5, <1>6, <1>7, <1>8

LEMMA NextPeriodRow ==
    \A s \in IntRow : s.action # "None" =>
        /\ NextPeriod(s) \in IntRow
        /\ Ended(NextPeriod(s)) => NextPeriod(s).end = NoDate
<1> SUFFICES ASSUME NEW s \in IntRow, s.action # "None"
             PROVE  /\ NextPeriod(s) \in IntRow
                    /\ Ended(NextPeriod(s)) => NextPeriod(s).end = NoDate
    OBVIOUS
<1> DEFINE n == NextCycle(s)
<1>1. n \in IntRow /\ (Ended(n) => n.end = NoDate)
    BY NextCycleRow
<1>2. NextPeriod(s) = Clamped(n)
    BY DEF NextPeriod
<1> HIDE DEF n
<1>3. CASE n.end # NoDate /\ n.until <= n.end
    <2>1. Clamped(n) = [n EXCEPT !.action = "EndSubscription", !.end = n.until]
        BY <1>3 DEF Clamped
    <2>2. n.until \in Int
        BY <1>1, RowFields
    <2>3. Clamped(n) \in IntRow
        BY <1>1, <2>1, <2>2, Members DEF IntRow
    <2>4. Clamped(n).status = n.status
        BY <1>1, <2>1 DEF IntRow
    <2> QED
        BY <1>1, <1>2, <1>3, <2>3, <2>4 DEF Ended
<1>4. CASE ~(n.end # NoDate /\ n.until <= n.end)
    BY <1>1, <1>2, <1>4 DEF Clamped
<1> QED
    BY <1>3, <1>4

(***************************************************************************)
(* The invariant, action by action.                                        *)
(***************************************************************************)
LEMMA InitLInv == LifeInit => LInv
<1> SUFFICES ASSUME LifeInit PROVE LInv
    OBVIOUS
<1>1. sub \in SubRow /\ ~Ended(sub)
    BY LifecycleAssumption DEF LifeInit, Ended, Inserted
<1>2. sub \in IntRow
    <2>1. Days \subseteq Int /\ 0 .. 50 \subseteq Int /\ Nat \subseteq Int
        BY LifecycleAssumption DEF Days, NoDate
    <2> QED
        BY <1>1, <2>1 DEF SubRow, IntRow
<1>3. event \in IntEvents
    <2>1. Over([type |-> "EndTrial"], "absent") \in IntEvent
        BY PlanExists DEF Over, NewEvent, IntEvent, EventStatus, EventTypes
    <2>2. NewEvent("EndTrial", sub.start + sub.trial, AnyPlan, AnyPlan) \in IntEvent
        BY <1>2, RowFields, PlanExists, NewEventTyped DEF EventTypes
    <2> QED
        BY <2>1, <2>2 DEF LifeInit, IntEvents
<1>4. today \in Int /\ today <= Horizon
    BY LifecycleAssumption DEF LifeInit
<1>5. /\ work \in [EventWorkers -> [step : {"idle", "run", "patch"},
                                    event : EventIds \cup {0}]]
      /\ \A v \in EventWorkers : work[v].step # "idle" => work[v].event \in EventIds
      /\ request \in [Users -> [op : {"none", "cancel", "undo"}, date : Int,
                                events : SUBSET EventIds]]
    BY DEF LifeInit, NoWork, NoRequest
<1> QED
    BY <1>1, <1>2, <1>3, <1>4, <1>5 DEF LInv, Shapes, EndedOpen

LEMMA CyclePreserves ==
    ASSUME LInv, NEW w \in CycleWorkers,
           \/ ClaimDue(w) \/ CycleSkips(w) \/ CycleAdvances(w) \/ CycleCancels(w)
           \/ CycleChanges(w) \/ CycleFails(w) \/ CycleGone(w)
    PROVE  LInv'
<1> USE DEF LInv
<1>1. sub \in IntRow /\ event \in IntEvents /\ (Ended(sub) => sub.end = NoDate)
    BY DEF Shapes, EndedOpen
<1>2. UNCHANGED <<today, work, request>>
    BY DEF ClaimDue, CycleSkips, CycleAdvances, CycleCancels, CycleChanges,
           CycleFails, CycleGone
<1>3. SUFFICES /\ sub' \in IntRow /\ event' \in IntEvents
               /\ Ended(sub') => sub'.end = NoDate
    BY <1>2 DEF Shapes, EndedOpen, Ended
<1>4. CASE ClaimDue(w)
    <2>1. sub' = [sub EXCEPT !.claimed = TRUE] /\ event' = event
        BY <1>4 DEF ClaimDue
    <2>2. sub' \in IntRow
        BY <1>1, <2>1 DEF IntRow
    <2>3. sub'.status = sub.status /\ sub'.end = sub.end
        BY <1>1, <2>1 DEF IntRow
    <2> QED
        BY <1>1, <2>1, <2>2, <2>3 DEF Ended
<1>5. CASE CycleSkips(w)
    BY <1>1, <1>5 DEF CycleSkips
<1>6. CASE CycleAdvances(w)
    <2>1. sub.action # "None" /\ sub' = Settled(NextPeriod(sub)) /\ event' = event
        BY <1>6 DEF CycleAdvances, Transition
    <2>2. NextPeriod(sub) \in IntRow /\ (Ended(NextPeriod(sub)) => NextPeriod(sub).end = NoDate)
        BY <1>1, <2>1, NextPeriodRow
    <2> QED
        BY <1>1, <2>1, <2>2, RowSettled DEF Ended
<1>7. CASE CycleCancels(w)
    <2>1. sub.action # "None" /\ sub' = Settled(Terminated(sub, NextPeriod(sub).start))
        BY <1>7 DEF CycleCancels, Transition
    <2>2. NextPeriod(sub).start \in Int
        BY <1>1, <2>1, NextPeriodRow, RowFields
    <2>3. sub' \in IntRow /\ sub'.end = NoDate
        BY <1>1, <2>1, <2>2, TerminatedRow, RowSettled
    <2>4. event' \in IntEvents
        <3>1. PICK i \in EventIds : event' = CancelPending(Completed(event, i), SubscriptionTypes)
            BY <1>7 DEF CycleCancels, EventOf, Pending
        <3> QED
            BY <3>1, <1>1, CompletedTyped, CancelPendingTyped
    <2> QED
        BY <2>3, <2>4
<1>8. CASE CycleChanges(w)
    <2> DEFINE n == NextPeriod(sub)
    <2>1. sub.action # "None"
        BY <1>8 DEF CycleChanges, Transition
    <2>2. n \in IntRow /\ (Ended(n) => n.end = NoDate)
        BY <1>1, <2>1, NextPeriodRow
    <2>3. PICK i \in EventIds :
            /\ event' \in {CancelPending(Completed(event, i), SubscriptionTypes),
                           Completed(event, i)}
            /\ \E p \in {event[i].plan, n.plan} : sub' = Settled([n EXCEPT !.plan = p])
        <3> HIDE DEF n
        <3> QED
            BY <1>8 DEF CycleChanges, EventOf, Pending, n
    <2>4. event' \in IntEvents
        BY <2>3, <1>1, CompletedTyped, CancelPendingTyped
    <2>5. PICK p \in Plans : sub' = Settled([n EXCEPT !.plan = p])
        <3>1. event[i].plan \in Plans /\ n.plan \in Plans
            BY <1>1, <2>2, RowFields DEF IntEvents, IntEvent
        <3> QED
            BY <2>3, <3>1
    <2> HIDE DEF n
    <2> DEFINE m == [n EXCEPT !.plan = p]
    <2>6. m \in IntRow
        BY <2>2 DEF IntRow
    <2>7. m.status = n.status /\ m.end = n.end
        BY <2>2 DEF IntRow
    <2>8. sub' = Settled(m)
        BY <2>5
    <2> HIDE DEF m
    <2> QED
        BY <2>2, <2>4, <2>6, <2>7, <2>8, RowSettled DEF Ended
<1>9. CASE CycleFails(w)
    <2> DEFINE e == sub.errors + 1
    <2>1. e \in Int /\ sub.status \in SubStatus /\ ~Ended(sub) /\ event' = event
        BY <1>1, <1>9, RowFields DEF CycleFails, Transition, Due, Ended
    <2>2. \/ sub' = [sub EXCEPT !.errors = e, !.status = "Errored"]
          \/ sub' = [sub EXCEPT !.errors = e, !.backoff = TRUE]
        BY <1>9 DEF CycleFails
    <2> HIDE DEF e
    <2>3. CASE sub' = [sub EXCEPT !.errors = e, !.status = "Errored"]
        <3>1. sub' \in IntRow
            BY <2>1, <2>3, <1>1, Members DEF IntRow
        <3>2. sub'.status = "Errored"
            BY <2>3, <1>1 DEF IntRow
        <3> QED
            BY <1>1, <2>1, <3>1, <3>2 DEF Ended
    <2>4. CASE sub' = [sub EXCEPT !.errors = e, !.backoff = TRUE]
        <3>1. sub' \in IntRow
            BY <2>1, <2>4, <1>1 DEF IntRow
        <3>2. sub'.status = sub.status
            BY <2>4, <1>1 DEF IntRow
        <3> QED
            BY <1>1, <2>1, <3>1, <3>2 DEF Ended
    <2> QED
        BY <2>2, <2>3, <2>4
<1>10. CASE CycleGone(w)
    BY <1>1, <1>10 DEF CycleGone
<1> QED
    BY <1>4, <1>5, <1>6, <1>7, <1>8, <1>9, <1>10

LEMMA WorkPreserves ==
    ASSUME LInv, NEW v \in EventWorkers,
           \/ \E i \in EventIds : ClaimEvent(v, i)
           \/ RunCancel(v) \/ RunPlanChange(v) \/ RunAmendment(v)
           \/ ReadTrial(v) \/ EndTrial(v) \/ WorkerGone(v)
    PROVE  LInv'
<1> USE DEF LInv
<1> DEFINE i == work[v].event
<1>1. /\ sub \in IntRow /\ event \in IntEvents /\ (Ended(sub) => sub.end = NoDate)
      /\ today \in Int
    BY DEF Shapes, EndedOpen
<1>2. UNCHANGED <<today, request>>
    BY DEF ClaimEvent, RunCancel, RunPlanChange, RunAmendment, ReadTrial, EndTrial,
           WorkerGone
<1>3. /\ work' \in [EventWorkers -> [step : {"idle", "run", "patch"},
                                     event : EventIds \cup {0}]]
      /\ \A x \in EventWorkers : work'[x].step # "idle" => work'[x].event \in EventIds
    <2>1. CASE \E j \in EventIds : ClaimEvent(v, j)
        <3>1. PICK j \in EventIds : work' = [work EXCEPT ![v] = [step |-> "run", event |-> j]]
            BY <2>1 DEF ClaimEvent
        <3> QED
            BY <3>1 DEF Shapes
    <2>2. CASE work' = [work EXCEPT ![v] = NoWork]
        BY <2>2 DEF Shapes, NoWork
    <2>3. CASE ReadTrial(v) /\ work' = [work EXCEPT ![v].step = "patch"]
        BY <2>3 DEF Shapes, ReadTrial, Runs
    <2> QED
        BY <2>1, <2>2, <2>3 DEF RunCancel, RunPlanChange, RunAmendment, ReadTrial, EndTrial,
                                WorkerGone, Done
<1>4. SUFFICES /\ sub' \in IntRow /\ event' \in IntEvents
               /\ Ended(sub') => sub'.end = NoDate
    BY <1>2, <1>3 DEF Shapes, EndedOpen, Ended
<1>5. CASE work[v].step = "idle"
    <2>1. PICK j \in EventIds : ClaimEvent(v, j)
        BY <1>5 DEF RunCancel, RunPlanChange, RunAmendment, ReadTrial, EndTrial,
                    WorkerGone, Runs
    <2>2. event' = [event EXCEPT ![j].status = "Processing"] /\ sub' = sub
        BY <2>1 DEF ClaimEvent
    <2>3. [event[j] EXCEPT !.status = "Processing"] \in IntEvent
        BY <1>1 DEF IntEvents, IntEvent, EventStatus
    <2> QED
        BY <1>1, <2>2, <2>3 DEF IntEvents
<1>6. CASE work[v].step # "idle"
    <2>1. i \in EventIds
        BY <1>6 DEF Shapes
    <2>2. event[i] \in IntEvent /\ event[i].date \in Int /\ event[i].plan \in Plans
        BY <1>1, <2>1 DEF IntEvents, IntEvent
    <2>3. /\ Completed(event, i) \in IntEvents /\ Failed(event, i) \in IntEvents
          /\ CancelPending(event, SubscriptionTypes) \in IntEvents
          /\ CancelPending(Completed(event, i), SubscriptionTypes) \in IntEvents
        BY <1>1, <2>1, CompletedTyped, FailedTyped, CancelPendingTyped
    <2>4. CASE RunCancel(v)
        <3>1. sub' = Terminated(sub, event[i].date)
            BY <2>4 DEF RunCancel
        <3>2. \/ event' = Completed(CancelPending(event, SubscriptionTypes), i)
              \/ event' = Failed(CancelPending(event, SubscriptionTypes), i)
            BY <2>4 DEF RunCancel
        <3>3. event' \in IntEvents
            BY <1>1, <2>1, <2>3, <3>2, CompletedTyped, FailedTyped
        <3> QED
            BY <1>1, <2>2, <3>1, <3>3, TerminatedRow
    <2>5. CASE RunPlanChange(v)
        <3> DEFINE p == event[i].plan
        <3>1. event' \in IntEvents
            BY <2>3, <2>5 DEF RunPlanChange
        <3>2. \/ sub' = sub
              \/ sub' = [sub EXCEPT !.plan = p, !.status = "Active"]
              \/ ~Ended(sub) /\ sub' = [sub EXCEPT !.plan = p]
            BY <2>5 DEF RunPlanChange, Applies, Running, Ended
        <3> HIDE DEF p
        <3>3. p \in Plans
            BY <2>2 DEF p
        <3>4. CASE sub' = [sub EXCEPT !.plan = p, !.status = "Active"]
            <4>1. sub' \in IntRow
                BY <1>1, <3>3, <3>4, Members DEF IntRow
            <4>2. sub'.status = "Active"
                BY <1>1, <3>4 DEF IntRow
            <4> QED
                BY <3>1, <4>1, <4>2 DEF Ended
        <3>5. CASE ~Ended(sub) /\ sub' = [sub EXCEPT !.plan = p]
            <4>1. sub' \in IntRow
                BY <1>1, <3>3, <3>5 DEF IntRow
            <4>2. sub'.status = sub.status
                BY <1>1, <3>5 DEF IntRow
            <4> QED
                BY <3>1, <3>5, <4>1, <4>2 DEF Ended
        <3> QED
            BY <1>1, <3>1, <3>2, <3>4, <3>5
    <2>6. CASE RunAmendment(v) \/ ReadTrial(v) \/ WorkerGone(v)
        <3>1. sub' = sub /\ event' \in {event, Completed(event, i), Failed(event, i)}
            BY <2>6 DEF RunAmendment, ReadTrial, WorkerGone
        <3> QED
            BY <1>1, <2>3, <3>1
    <2>7. CASE EndTrial(v)
        <3>1. sub' = [sub EXCEPT !.status = "Active"] /\ event' = Completed(event, i)
            BY <2>7 DEF EndTrial
        <3>2. sub' \in IntRow
            BY <1>1, <3>1, Members DEF IntRow
        <3>3. sub'.status = "Active"
            BY <1>1, <3>1 DEF IntRow
        <3> QED
            BY <2>3, <3>1, <3>2, <3>3 DEF Ended
    <2> QED
        BY <1>6, <2>4, <2>5, <2>6, <2>7 DEF ClaimEvent
<1> QED
    BY <1>5, <1>6

\* The end of the period that holds today is a date.
LEMMA PeriodEndTyped == sub \in IntRow /\ today \in Int => PeriodEnd \in Int
<1> SUFFICES ASSUME sub \in IntRow, today \in Int PROVE PeriodEnd \in Int
    OBVIOUS
<1>1. Length[sub.plan] \in Int /\ Length[sub.plan] > 0 /\ sub.start \in Int
    BY LifecycleAssumption DEF IntRow
<1> DEFINE l == Length[sub.plan]  q == (today - sub.start) \div l
<1>2. q \in Int
    BY <1>1
<1>3. PeriodEnd = sub.start + l * (q + 1)
    BY DEF PeriodEnd
<1> HIDE DEF l, q
<1>4. l \in Int
    BY <1>1 DEF l
<1>5. l * (q + 1) \in Int
    BY <1>2, <1>4
<1> QED
    BY <1>1, <1>3, <1>5

LEMMA RequestPreserves ==
    ASSUME LInv,
           \/ \E u \in Users :
                \/ \E date \in {today, PeriodEnd} : CancelBegin(u, date)
                \/ CancelCommit(u) \/ CancelAborts(u)
                \/ \E i \in EventIds : UndoRead(u, i)
                \/ UndoWrite(u)
           \/ \E p \in Plans : SchedulePlanChange(p)
           \/ ScheduleAmendment
    PROVE  LInv'
<1> USE DEF LInv
<1>1. /\ sub \in IntRow /\ event \in IntEvents /\ today \in Int
      /\ sub.end \in Int /\ sub.plan \in Plans
    BY RowFields DEF Shapes
<1>2. UNCHANGED <<today, sub, work>>
    BY DEF CancelBegin, CancelCommit, CancelAborts, UndoRead, UndoWrite,
           SchedulePlanChange, ScheduleAmendment
<1>3. SUFFICES /\ event' \in IntEvents
               /\ request' \in [Users -> [op : {"none", "cancel", "undo"}, date : Int,
                                          events : SUBSET EventIds]]
    BY <1>2 DEF Shapes, EndedOpen, Ended
<1>4. ASSUME NEW u \in Users, NEW date \in {today, PeriodEnd}, CancelBegin(u, date)
      PROVE  /\ event' \in IntEvents
             /\ request' \in [Users -> [op : {"none", "cancel", "undo"}, date : Int,
                                        events : SUBSET EventIds]]
    <2>1. date \in Int /\ Pending(LifecycleTypes) \in SUBSET EventIds
        BY <1>1, PeriodEndTyped DEF Pending
    <2> QED
        BY <1>1, <1>4, <2>1 DEF CancelBegin, Shapes
<1>5. ASSUME NEW u \in Users, CancelCommit(u) \/ CancelAborts(u) \/ UndoWrite(u)
      PROVE  /\ event' \in IntEvents
             /\ request' \in [Users -> [op : {"none", "cancel", "undo"}, date : Int,
                                        events : SUBSET EventIds]]
    <2>1. request' = [request EXCEPT ![u] = NoRequest]
        BY <1>5 DEF CancelCommit, CancelAborts, UndoWrite, Close
    <2> DEFINE ev == [i \in EventIds |-> IF i \in request[u].events
                                         THEN Over(event[i], "Canceled") ELSE event[i]]
    <2>2. ev \in IntEvents
        BY <1>1, OverTyped DEF IntEvents, EventStatus
    <2>3. NewEvent("CancelSubscription", request[u].date, AnyPlan, AnyPlan) \in IntEvent
        BY NewEventTyped, PlanExists DEF Shapes, EventTypes
    <2>4. event' \in {event, ev,
              Schedule(ev, NewEvent("CancelSubscription", request[u].date, AnyPlan, AnyPlan))}
        BY <1>5 DEF CancelCommit, CancelAborts, UndoWrite
    <2> HIDE DEF ev
    <2>5. event' \in IntEvents
        BY <1>1, <2>2, <2>3, <2>4, ScheduleTyped
    <2> QED
        BY <2>1, <2>5 DEF Shapes, NoRequest
<1>6. ASSUME NEW u \in Users, NEW i \in EventIds, UndoRead(u, i)
      PROVE  /\ event' \in IntEvents
             /\ request' \in [Users -> [op : {"none", "cancel", "undo"}, date : Int,
                                        events : SUBSET EventIds]]
    BY <1>1, <1>6 DEF UndoRead, Shapes
<1>7. ASSUME NEW p \in Plans, SchedulePlanChange(p)
      PROVE  event' \in IntEvents /\ request' = request
    <2>1. NewEvent("ApplyPlanChange", sub.end, sub.plan, p) \in IntEvent
        BY <1>1, NewEventTyped DEF EventTypes
    <2> QED
        BY <1>1, <1>7, <2>1, ScheduleTyped, CancelPendingTyped DEF SchedulePlanChange
<1>8. CASE ScheduleAmendment
    <2>1. NewEvent("ApplyAmendment", sub.end, AnyPlan, AnyPlan) \in IntEvent
        BY <1>1, NewEventTyped, PlanExists DEF EventTypes
    <2>2. event' \in IntEvents /\ request' = request
        BY <1>1, <1>8, <2>1, ScheduleTyped, CancelPendingTyped DEF ScheduleAmendment
    <2> QED
        BY <2>2 DEF Shapes
<1> QED
    BY <1>4, <1>5, <1>6, <1>7, <1>8 DEF Shapes

LEMMA RestPreserves ==
    ASSUME LInv,
           \/ ClaimExpires \/ BackoffEnds \/ TrialPaid \/ NextDay
           \/ \E i \in EventIds : EventTimesOut(i)
           \/ \E p \in Plans : ChangePlanNow(p)
    PROVE  LInv'
<1> USE DEF LInv
<1>1. /\ sub \in IntRow /\ event \in IntEvents /\ (Ended(sub) => sub.end = NoDate)
      /\ today \in Int /\ today <= Horizon
    BY DEF Shapes, EndedOpen
<1>2. UNCHANGED <<work, request>>
    BY DEF ClaimExpires, BackoffEnds, TrialPaid, NextDay, EventTimesOut, ChangePlanNow
<1>3. SUFFICES /\ sub' \in IntRow /\ event' \in IntEvents
               /\ Ended(sub') => sub'.end = NoDate
               /\ today' \in Int /\ today' <= Horizon
    BY <1>2 DEF Shapes, EndedOpen, Ended
<1>4. CASE ClaimExpires \/ BackoffEnds
    <2>1. /\ sub' = [sub EXCEPT !.claimed = FALSE] \/ sub' = [sub EXCEPT !.backoff = FALSE]
          /\ UNCHANGED <<today, event>>
        BY <1>4 DEF ClaimExpires, BackoffEnds
    <2>2. sub' \in IntRow
        BY <1>1, <2>1 DEF IntRow
    <2>3. sub'.status = sub.status /\ sub'.end = sub.end
        BY <1>1, <2>1 DEF IntRow
    <2> QED
        BY <1>1, <2>1, <2>2, <2>3 DEF Ended
<1>5. CASE TrialPaid
    <2> DEFINE e == sub.start + Length[sub.plan]
    <2>1. sub' = [sub EXCEPT !.status = "Active", !.action = "RenewSubscription", !.end = e]
        BY <1>5 DEF TrialPaid
    <2>2. e \in Int
        BY <1>1, RowFields
    <2> HIDE DEF e
    <2>3. sub' \in IntRow
        BY <1>1, <2>1, <2>2, Members DEF IntRow
    <2>4. sub'.status = "Active"
        BY <1>1, <2>1 DEF IntRow
    <2> QED
        BY <1>1, <1>5, <2>3, <2>4 DEF TrialPaid, Ended
<1>6. CASE NextDay
    BY <1>1, <1>6, LifecycleAssumption DEF NextDay, Ended
<1>7. ASSUME NEW i \in EventIds, EventTimesOut(i)
      PROVE  event' \in IntEvents /\ UNCHANGED <<today, sub>>
    <2> DEFINE row == [event[i] EXCEPT !.status = "Pending", !.date = today, !.retries = @ + 1]
    <2>1. event' = [event EXCEPT ![i] = row]
        BY <1>1, <1>7 DEF EventTimesOut, IntEvents
    <2>2. event[i] \in IntEvent
        BY <1>1 DEF IntEvents
    <2>3. event[i].retries + 1 \in Int /\ "Pending" \in EventStatus
        BY <2>2 DEF IntEvent, EventStatus
    <2>4. row \in IntEvent
        BY <1>1, <2>2, <2>3 DEF IntEvent
    <2> QED
        BY <1>1, <1>7, <2>1, <2>4 DEF EventTimesOut, IntEvents
<1>8. ASSUME NEW p \in Plans, ChangePlanNow(p)
      PROVE  /\ sub' \in IntRow /\ event' \in IntEvents /\ sub'.status = "Active"
             /\ today' = today
    <2> DEFINE e == today + Length[p]
    <2>1. e \in Int
        BY <1>1, LifecycleAssumption
    <2>2. event' \in IntEvents /\ today' = today
        BY <1>1, <1>8, CancelPendingTyped DEF ChangePlanNow
    <2>3. \/ sub' = [sub EXCEPT !.status = "Active", !.plan = p,
                                !.action = "RenewSubscription", !.start = today, !.end = e]
          \/ sub' = [sub EXCEPT !.status = "Active", !.plan = p]
        BY <1>8 DEF ChangePlanNow
    <2> HIDE DEF e
    <2>4. sub' \in IntRow
        BY <1>1, <2>1, <2>3, Members DEF IntRow
    <2>5. sub'.status = "Active"
        BY <1>1, <2>3 DEF IntRow
    <2> QED
        BY <2>2, <2>4, <2>5
<1> QED
    BY <1>1, <1>4, <1>5, <1>6, <1>7, <1>8 DEF Ended

LEMMA StutterPreserves == LInv /\ UNCHANGED lifeVars => LInv'
BY DEF LInv, Shapes, EndedOpen, Ended, lifeVars

\* The subscription, its events and the requests keep their shape, and a
\* subscription that has ended keeps no end of a period.
THEOREM LifecycleInvariant == LifeSpec => []LInv
<1>1. LInv /\ [LifeNext]_lifeVars => LInv'
    <2> SUFFICES ASSUME LInv, LifeNext PROVE LInv'
        BY StutterPreserves
    <2> QED
        BY CyclePreserves, WorkPreserves, RequestPreserves, RestPreserves DEF LifeNext
<1> QED
    BY <1>1, InitLInv, PTL DEF LifeSpec

\* No event whose day has come waits for a period that nobody will close,
\* unless its subscription failed too often or its trial expired.
THEOREM EventsArePickedUp == LifeSpec => []NoEventStranded
<1>1. LInv => NoEventStranded
    <2> SUFFICES ASSUME LInv, NEW i \in Pending(EventTypes), event[i].date <= today
                 PROVE  \/ Claimable(i)
                        \/ /\ sub.end <= today
                           /\ sub.status \in {"PendingActivation", "TrialActive", "Active"}
                        \/ sub.status \in {"Errored", "TrialExpired"}
        BY DEF NoEventStranded
    <2>1. i \in EventIds /\ event[i].status = "Pending"
        BY DEF Pending
    <2>2. sub.end \in Int /\ sub.status \in SubStatus
        BY RowFields DEF LInv, Shapes
    <2>3. event[i].date \in Int /\ today \in Int /\ today <= Horizon
        BY <2>1 DEF LInv, Shapes, IntEvents, IntEvent
    <2>4. CASE sub.end > event[i].date
        BY <2>1, <2>4 DEF Claimable
    <2>5. CASE sub.end <= event[i].date
        <3>1. sub.end <= today
            BY <2>2, <2>3, <2>5
        <3>2. ~Ended(sub)
            BY <2>2, <2>3, <3>1, Members, LifecycleAssumption DEF LInv, EndedOpen
        <3> QED
            BY <2>2, <3>1, <3>2, Members DEF Ended
    <2> QED
        BY <2>2, <2>3, <2>4, <2>5
<1> QED
    BY <1>1, LifecycleInvariant, PTL

\* What an ended subscription becomes in a step that is not the end of a trial.
LEMMA StepKeepsEnd ==
    ASSUME LInv, LifeNext, Ended(sub), \A v \in EventWorkers : work[v].step # "patch"
    PROVE  Ended(sub')
<1>1. sub \in IntRow /\ event \in IntEvents
    BY DEF LInv, Shapes
<1>2. ASSUME NEW w \in CycleWorkers,
             \/ ClaimDue(w) \/ CycleSkips(w) \/ CycleAdvances(w) \/ CycleCancels(w)
             \/ CycleChanges(w) \/ CycleFails(w) \/ CycleGone(w)
      PROVE  sub' = sub
    <2>1. ~Due(sub)
        BY DEF Due, Ended
    <2> QED
        BY <1>2, <2>1 DEF ClaimDue, CycleSkips, CycleAdvances, CycleCancels, CycleChanges,
                          CycleFails, CycleGone, Transition
<1>3. CASE ClaimExpires \/ BackoffEnds
    <2>1. sub' = [sub EXCEPT !.claimed = FALSE] \/ sub' = [sub EXCEPT !.backoff = FALSE]
        BY <1>3 DEF ClaimExpires, BackoffEnds
    <2>2. sub'.status = sub.status
        BY <1>1, <2>1 DEF IntRow
    <2> QED
        BY <2>2 DEF Ended
<1>4. ASSUME NEW v \in EventWorkers,
             \/ \E i \in EventIds : ClaimEvent(v, i)
             \/ RunPlanChange(v) \/ RunAmendment(v)
             \/ ReadTrial(v) \/ EndTrial(v) \/ WorkerGone(v)
      PROVE  sub' = sub
    <2>1. ~Running(sub)
        BY DEF Running, Ended
    <2> QED
        BY <1>4, <2>1 DEF ClaimEvent, RunPlanChange, RunAmendment, ReadTrial, EndTrial,
                          WorkerGone, Applies
<1>5. ASSUME NEW v \in EventWorkers, RunCancel(v)
      PROVE  Ended(sub')
    <2> DEFINE i == work[v].event
    <2>1. i \in EventIds
        BY <1>5 DEF RunCancel, Runs, LInv, Shapes
    <2>2. sub' = Terminated(sub, event[i].date) /\ event[i].date \in Int
        BY <1>1, <1>5, <2>1 DEF RunCancel, IntEvents, IntEvent
    <2>3. sub'.status = "Cancelled"
        BY <1>1, <2>2, TerminatedRow
    <2> QED
        BY <2>3 DEF Ended
<1>6. ASSUME \/ \E i \in EventIds : EventTimesOut(i)
             \/ \E u \in Users :
                  \/ \E date \in {today, PeriodEnd} : CancelBegin(u, date)
                  \/ CancelCommit(u) \/ CancelAborts(u)
                  \/ \E i \in EventIds : UndoRead(u, i)
                  \/ UndoWrite(u)
             \/ \E p \in Plans : SchedulePlanChange(p) \/ ChangePlanNow(p)
             \/ ScheduleAmendment \/ TrialPaid \/ NextDay
      PROVE  sub' = sub
    <2>1. ~Running(sub) /\ sub.status # "TrialExpired"
        BY DEF Running, Ended
    <2> QED
        BY <1>6, <2>1 DEF EventTimesOut, CancelBegin, CancelCommit, CancelAborts, UndoRead,
                          UndoWrite, SchedulePlanChange, ChangePlanNow, ScheduleAmendment,
                          TrialPaid, NextDay
<1> QED
    BY <1>2, <1>3, <1>4, <1>5, <1>6 DEF LifeNext, Ended

\* A subscription that has ended stays so, but for the end of a paid trial
\* that read it before.
THEOREM EndedForGood == LifeSpec => EndedStaysEnded
<1>1. LInv /\ [LifeNext]_lifeVars =>
        [Ended(sub) /\ ~Ended(sub') => \E v \in EventWorkers : work[v].step = "patch"]_lifeVars
    BY StepKeepsEnd
<1> QED
    BY <1>1, LifecycleInvariant, PTL DEF LifeSpec, EndedStaysEnded

(***************************************************************************)
(* How a step changes the row: every step is one of these.                 *)
(***************************************************************************)

\* What no step changes.
SameTerms(s, t) == t.until = s.until /\ t.trial = s.trial /\ t.trialEnd = s.trialEnd

\* The period, and what comes after it, stay.
SamePeriod(s, t) ==
    SameTerms(s, t) /\ t.action = s.action /\ t.start = s.start /\ t.end = s.end

\* Status, next action and end of the period after this one, uncut.
Cycles(s, status, action, end) ==
    \/ /\ \/ s.action = "RenewSubscription"
          \/ s.action = "ActivateSubscription" /\ s.trial = 0
          \/ s.action = "EndTrial" /\ s.trialEnd \in {"free", "bill"}
       /\ status = "Active" /\ action = "RenewSubscription"
       /\ end = s.end + Length[s.plan]
    \/ /\ s.action = "ActivateSubscription" /\ s.trial # 0
       /\ status = "TrialActive" /\ action = "EndTrial" /\ end = s.end + s.trial
    \/ /\ s.action = "EndTrial" /\ s.trialEnd \notin {"free", "bill"}
       /\ status = "TrialExpired" /\ action = "None" /\ end = s.end + Length[s.plan]
    \/ /\ s.action = "EndSubscription"
       /\ status = "Completed" /\ action = "None" /\ end = NoDate

\* t is the row of the period after that of s.
Follows(s, t) ==
    /\ SameTerms(s, t) /\ t.start = s.end
    /\ \E action \in CycleActions, end \in Int :
        /\ Cycles(s, t.status, action, end)
        /\ IF end # NoDate /\ s.until <= end
           THEN t.action = "EndSubscription" /\ t.end = s.until
           ELSE t.action = action /\ t.end = end

\* The fields of a row whose period was replaced.
LEMMA WithPeriodIs ==
    \A s \in IntRow : \A st, a, d, e :
        /\ WithPeriod(s, st, a, d, e).status = st /\ WithPeriod(s, st, a, d, e).action = a
        /\ WithPeriod(s, st, a, d, e).start = d /\ WithPeriod(s, st, a, d, e).end = e
        /\ SameTerms(s, WithPeriod(s, st, a, d, e))
BY DEF IntRow, WithPeriod, SameTerms

\* What the next cycle of a row is, field by field.
LEMMA NextCycleIs ==
    ASSUME NEW s \in IntRow, s.action # "None"
    PROVE  \E action \in CycleActions, end \in Int :
             /\ NextCycle(s).start = s.end /\ SameTerms(s, NextCycle(s))
             /\ NextCycle(s).action = action /\ NextCycle(s).end = end
             /\ Cycles(s, NextCycle(s).status, action, end)
<1> DEFINE e == s.end + Length[s.plan]
<1>0. s.end \in Int /\ e \in Int /\ s.trial \in Int /\ s.action \in CycleActions
    BY RowFields
<1>1. Renewed(s) = WithPeriod(s, "Active", "RenewSubscription", s.end, e)
    BY DEF Renewed, WithPeriod
<1> HIDE DEF e
<1> SUFFICES \E status \in SubStatus, action \in CycleActions, end \in Int :
                NextCycle(s) = WithPeriod(s, status, action, s.end, end)
                /\ Cycles(s, status, action, end)
    BY WithPeriodIs
<1>2. CASE NextCycle(s) = Renewed(s) /\ Cycles(s, "Active", "RenewSubscription", e)
    BY <1>0, <1>1, <1>2, Members
<1>3. CASE s.action = "ActivateSubscription" /\ s.trial # 0
    <2>1. NextCycle(s) = [WithPeriod(s, "Active", "RenewSubscription", s.end, e)
                            EXCEPT !.status = "TrialActive", !.action = "EndTrial",
                                   !.end = s.end + s.trial]
        BY <1>1, <1>3 DEF NextCycle
    <2>2. NextCycle(s) = WithPeriod(s, "TrialActive", "EndTrial", s.end, s.end + s.trial)
        BY <2>1 DEF WithPeriod, IntRow
    <2>3. Cycles(s, "TrialActive", "EndTrial", s.end + s.trial) /\ s.end + s.trial \in Int
        BY <1>0, <1>3 DEF Cycles
    <2> QED
        BY <2>2, <2>3, Members
<1>4. CASE s.action = "EndTrial" /\ s.trialEnd \notin {"free", "bill"}
    <2>1. NextCycle(s) = [WithPeriod(s, "Active", "RenewSubscription", s.end, e)
                            EXCEPT !.status = "TrialExpired", !.action = "None"]
        BY <1>1, <1>4 DEF NextCycle
    <2>2. NextCycle(s) = WithPeriod(s, "TrialExpired", "None", s.end, e)
        BY <2>1 DEF WithPeriod, IntRow
    <2>3. Cycles(s, "TrialExpired", "None", e)
        BY <1>4 DEF Cycles, e
    <2> QED
        BY <1>0, <2>2, <2>3, Members
<1>5. CASE s.action = "EndSubscription"
    <2>1. NextCycle(s) = WithPeriod(s, "Completed", "None", s.end, NoDate)
        BY <1>5 DEF NextCycle, WithPeriod
    <2>2. Cycles(s, "Completed", "None", NoDate)
        BY <1>5 DEF Cycles
    <2> QED
        BY <2>1, <2>2, Members
<1>6. CASE \/ s.action = "RenewSubscription"
           \/ s.action = "ActivateSubscription" /\ s.trial = 0
           \/ s.action = "EndTrial" /\ s.trialEnd \in {"free", "bill"}
    BY <1>2, <1>6 DEF NextCycle, Cycles, e
<1>7. s.action \in {"RenewSubscription", "ActivateSubscription", "EndTrial", "EndSubscription"}
    BY <1>0 DEF CycleActions
<1> QED
    BY <1>3, <1>4, <1>5, <1>6, <1>7

\* The period a transition begins follows the one it ends.
LEMMA NextPeriodIs ==
    ASSUME NEW s \in IntRow, s.action # "None"
    PROVE  Follows(s, NextPeriod(s))
<1> DEFINE n == NextCycle(s)
<1>1. PICK action \in CycleActions, end \in Int :
        /\ n.start = s.end /\ SameTerms(s, n) /\ n.action = action /\ n.end = end
        /\ Cycles(s, n.status, action, end)
    BY NextCycleIs
<1>2. n \in IntRow /\ NextPeriod(s) = Clamped(n)
    BY NextCycleRow DEF NextPeriod
<1> HIDE DEF n
<1>3. CASE end # NoDate /\ s.until <= end
    <2>1. NextPeriod(s) = [n EXCEPT !.action = "EndSubscription", !.end = n.until]
        BY <1>1, <1>2, <1>3 DEF Clamped, SameTerms
    <2>2. /\ NextPeriod(s).action = "EndSubscription" /\ NextPeriod(s).end = n.until
          /\ NextPeriod(s).status = n.status /\ NextPeriod(s).start = n.start
          /\ SameTerms(n, NextPeriod(s))
        BY <1>2, <2>1 DEF IntRow, SameTerms
    <2> QED
        BY <1>1, <1>3, <2>2 DEF Follows, SameTerms
<1>4. CASE ~(end # NoDate /\ s.until <= end)
    <2>1. NextPeriod(s) = n
        BY <1>1, <1>2, <1>4 DEF Clamped, SameTerms
    <2> QED
        BY <1>1, <1>4, <2>1 DEF Follows, SameTerms
<1> QED
    BY <1>3, <1>4

\* The steps that begin the next period, end it at once, and so on; b and c are
\* the dates billed before and after.
Kept(s, t, b, c) == SamePeriod(s, t) /\ t.status = s.status /\ c = b
Advanced(s, t, b, c) ==
    /\ s.status \in {"PendingActivation", "TrialActive", "Active"} /\ s.end <= today
    /\ Follows(s, t) /\ c = IF ShouldBill(s, t) THEN b \cup {t.start} ELSE b
Stopped(s, t, b, c) ==
    /\ SameTerms(s, t) /\ t.status = "Cancelled" /\ t.action = "None" /\ t.end = NoDate
    /\ b \subseteq c
    /\ \/ \E w \in CycleWorkers : CycleCancels(w)
       \/ \E v \in EventWorkers : RunCancel(v)
GivenUp(s, t, b, c) ==
    /\ s.status \in {"PendingActivation", "TrialActive", "Active"}
    /\ SamePeriod(s, t) /\ t.status = "Errored" /\ c = b
MadeActive(s, t, b, c) ==
    Running(s) /\ SamePeriod(s, t) /\ t.status = "Active" /\ c = b
Restarted(s, t, b, c) ==
    /\ FreeTrial(s) /\ SameTerms(s, t) /\ t.status = "Active"
    /\ t.action = "RenewSubscription" /\ t.start \in c /\ b \subseteq c
    /\ t.start = today /\ t.end \in today .. today + 50
TrialOver(s, t, b, c) ==
    /\ \E v \in EventWorkers : work[v].step = "patch"
    /\ SamePeriod(s, t) /\ t.status = "Active" /\ c = b
Reactivated(s, t, b, c) ==
    /\ s.status = "TrialExpired" /\ s.start \in b /\ SameTerms(s, t) /\ t.start = s.start
    /\ t.status = "Active" /\ t.action = "RenewSubscription" /\ c = b
    /\ t.end \in s.start .. s.start + 50

RowMove(s, t, b, c) ==
    \/ Kept(s, t, b, c) \/ Advanced(s, t, b, c) \/ Stopped(s, t, b, c) \/ GivenUp(s, t, b, c)
    \/ MadeActive(s, t, b, c) \/ Restarted(s, t, b, c) \/ TrialOver(s, t, b, c)
    \/ Reactivated(s, t, b, c)

\* A row whose counters and claims were written keeps its period.
LEMMA SettledIs ==
    \A s \in IntRow : SamePeriod(s, Settled(s)) /\ Settled(s).status = s.status
BY DEF IntRow, Settled, SamePeriod, SameTerms

\* A row whose plan was written keeps its period.
LEMMA PlanWritten ==
    \A s \in IntRow, p \in Plans :
        /\ [s EXCEPT !.plan = p] \in IntRow
        /\ SamePeriod(s, [s EXCEPT !.plan = p]) /\ [s EXCEPT !.plan = p].status = s.status
BY DEF IntRow, SamePeriod, SameTerms

\* What ending a subscription makes of its row.
LEMMA TerminatedIs ==
    \A s \in IntRow, d \in Int :
        /\ SameTerms(s, Terminated(s, d)) /\ Terminated(s, d).action = "None"
        /\ Terminated(s, d).start = d
BY DEF IntRow, Terminated, SameTerms

\* A row like the next period is the next period.
LEMMA FollowsLike ==
    \A s, n, t : Follows(s, n) /\ SamePeriod(n, t) /\ t.status = n.status =>
        Follows(s, t) /\ (ShouldBill(s, n) <=> ShouldBill(s, t))
BY DEF Follows, SamePeriod, SameTerms, ShouldBill

\* The row, as the steps of a cycle worker change it.
LEMMA CycleMoves ==
    ASSUME LInv, NEW w \in CycleWorkers,
           \/ ClaimDue(w) \/ CycleSkips(w) \/ CycleAdvances(w) \/ CycleCancels(w)
           \/ CycleChanges(w) \/ CycleFails(w) \/ CycleGone(w)
    PROVE  RowMove(sub, sub', billed, billed')
<1>1. sub \in IntRow /\ event \in IntEvents
    BY DEF LInv, Shapes
<1>2. CASE ClaimDue(w)
    <2>1. sub' = [sub EXCEPT !.claimed = TRUE] /\ billed' = billed
        BY <1>2 DEF ClaimDue
    <2>2. SamePeriod(sub, sub') /\ sub'.status = sub.status
        BY <1>1, <2>1 DEF IntRow, SamePeriod, SameTerms
    <2> QED
        BY <2>1, <2>2 DEF RowMove, Kept
<1>3. CASE CycleSkips(w) \/ CycleGone(w)
    BY <1>3 DEF CycleSkips, CycleGone, RowMove, Kept, SamePeriod, SameTerms
<1>4. CASE CycleAdvances(w)
    <2> DEFINE n == NextPeriod(sub)
    <2>1. /\ Due(sub) /\ sub.action # "None" /\ sub' = Settled(n)
          /\ billed' = IF ShouldBill(sub, n) THEN billed \cup {n.start} ELSE billed
        BY <1>4, Zenon DEF CycleAdvances, Transition, Bill
    <2>2. n \in IntRow /\ Follows(sub, n)
        BY <1>1, <2>1, NextPeriodRow, NextPeriodIs
    <2> HIDE DEF n
    <2>3. SamePeriod(n, sub') /\ sub'.status = n.status
        BY <2>1, <2>2, SettledIs
    <2>4. Follows(sub, sub') /\ (ShouldBill(sub, n) <=> ShouldBill(sub, sub'))
        BY <2>2, <2>3, FollowsLike
    <2> QED
        BY <2>1, <2>3, <2>4 DEF RowMove, Advanced, Due, SamePeriod
<1>5. CASE CycleCancels(w)
    <2> DEFINE date == NextPeriod(sub).start
    <2>1. sub.action # "None" /\ sub' = Settled(Terminated(sub, date)) /\ billed \subseteq billed'
        BY <1>5 DEF CycleCancels, Transition, Bill
    <2>2. date \in Int
        BY <1>1, <2>1, NextPeriodRow, RowFields
    <2> HIDE DEF date
    <2> DEFINE n == Terminated(sub, date)
    <2>3. /\ n \in IntRow /\ SameTerms(sub, n)
          /\ n.status = "Cancelled" /\ n.action = "None" /\ n.end = NoDate
        BY <1>1, <2>2, TerminatedRow, TerminatedIs
    <2>4. sub' = Settled(n)
        BY <2>1
    <2> HIDE DEF n
    <2>5. SamePeriod(n, sub') /\ sub'.status = n.status
        BY <2>3, <2>4, SettledIs
    <2> QED
        BY <1>5, <2>1, <2>3, <2>5 DEF RowMove, Stopped, SamePeriod, SameTerms
<1>6. CASE CycleChanges(w)
    <2> DEFINE n == NextPeriod(sub)
    <2>1. /\ Due(sub) /\ sub.action # "None"
          /\ billed' = IF ShouldBill(sub, n) THEN billed \cup {n.start} ELSE billed
        BY <1>6, Zenon DEF CycleChanges, Transition, Bill
    <2>2. n \in IntRow /\ Follows(sub, n)
        BY <1>1, <2>1, NextPeriodRow, NextPeriodIs
    <2>3. PICK p : /\ p = n.plan \/ \E i \in EventIds : p = event[i].plan
                   /\ sub' = Settled([n EXCEPT !.plan = p])
        <3> HIDE DEF n
        <3> QED
            BY <1>6 DEF CycleChanges, EventOf, Pending, n
    <2>4. p \in Plans
        BY <1>1, <2>2, <2>3, RowFields DEF IntEvents, IntEvent
    <2> HIDE DEF n
    <2> DEFINE m == [n EXCEPT !.plan = p]
    <2>5. m \in IntRow /\ SamePeriod(n, m) /\ m.status = n.status
        BY <2>2, <2>4, PlanWritten
    <2>6. sub' = Settled(m)
        BY <2>3
    <2> HIDE DEF m
    <2>7. SamePeriod(m, sub') /\ sub'.status = m.status
        BY <2>5, <2>6, SettledIs
    <2>8. SamePeriod(n, sub') /\ sub'.status = n.status
        BY <2>5, <2>7 DEF SamePeriod, SameTerms
    <2>9. Follows(sub, sub') /\ (ShouldBill(sub, n) <=> ShouldBill(sub, sub'))
        BY <2>2, <2>8, FollowsLike
    <2> QED
        BY <2>1, <2>8, <2>9 DEF RowMove, Advanced, Due, SamePeriod
<1>7. CASE CycleFails(w)
    <2> DEFINE e == sub.errors + 1
    <2>1. /\ Due(sub) /\ billed' = billed
          /\ \/ sub' = [sub EXCEPT !.errors = e, !.status = "Errored"]
             \/ sub' = [sub EXCEPT !.errors = e, !.backoff = TRUE]
        BY <1>7 DEF CycleFails, Transition
    <2> HIDE DEF e
    <2>2. SamePeriod(sub, sub') /\ sub'.status \in {"Errored", sub.status}
        BY <1>1, <2>1 DEF IntRow, SamePeriod, SameTerms
    <2> QED
        BY <2>1, <2>2 DEF RowMove, Kept, GivenUp, Due
<1> QED
    BY <1>2, <1>3, <1>4, <1>5, <1>6, <1>7

\* The row, as the steps of an event worker change it.
LEMMA WorkMoves ==
    ASSUME LInv, NEW v \in EventWorkers,
           \/ \E i \in EventIds : ClaimEvent(v, i)
           \/ RunCancel(v) \/ RunPlanChange(v) \/ RunAmendment(v)
           \/ ReadTrial(v) \/ EndTrial(v) \/ WorkerGone(v)
    PROVE  RowMove(sub, sub', billed, billed')
<1>1. sub \in IntRow /\ event \in IntEvents
    BY DEF LInv, Shapes
<1>2. CASE \/ \E i \in EventIds : ClaimEvent(v, i)
           \/ RunAmendment(v) \/ ReadTrial(v) \/ WorkerGone(v)
    <2>1. sub' = sub /\ billed' = billed
        BY <1>2 DEF ClaimEvent, RunAmendment, ReadTrial, WorkerGone
    <2> QED
        BY <2>1 DEF RowMove, Kept, SamePeriod, SameTerms
<1>3. CASE RunCancel(v)
    <2> DEFINE i == work[v].event
    <2>1. i \in EventIds
        BY <1>3 DEF RunCancel, Runs, LInv, Shapes
    <2>2. sub' = Terminated(sub, event[i].date) /\ event[i].date \in Int
        BY <1>1, <1>3, <2>1 DEF RunCancel, IntEvents, IntEvent
    <2>3. billed \subseteq billed'
        BY <1>3 DEF RunCancel, Bill
    <2> HIDE DEF i
    <2> QED
        BY <1>1, <1>3, <2>2, <2>3, TerminatedRow, TerminatedIs DEF RowMove, Stopped
<1>4. CASE RunPlanChange(v)
    <2> DEFINE p == event[work[v].event].plan
    <2>1. work[v].event \in EventIds /\ billed' = billed
        BY <1>4 DEF RunPlanChange, Runs, LInv, Shapes
    <2>2. p \in Plans
        BY <1>1, <2>1 DEF IntEvents, IntEvent
    <2>3. \/ sub' = sub
          \/ Running(sub) /\ sub' = [sub EXCEPT !.plan = p, !.status = "Active"]
          \/ sub' = [sub EXCEPT !.plan = p]
        BY <1>4, Zenon DEF RunPlanChange, Applies
    <2> HIDE DEF p
    <2>4. CASE sub' = sub \/ sub' = [sub EXCEPT !.plan = p]
        <3>1. SamePeriod(sub, sub') /\ sub'.status = sub.status
            BY <1>1, <2>2, <2>4, PlanWritten DEF SamePeriod, SameTerms
        <3> QED
            BY <2>1, <3>1 DEF RowMove, Kept
    <2>5. CASE Running(sub) /\ sub' = [sub EXCEPT !.plan = p, !.status = "Active"]
        <3>1. SamePeriod(sub, sub') /\ sub'.status = "Active"
            BY <1>1, <2>5 DEF IntRow, SamePeriod, SameTerms
        <3> QED
            BY <2>1, <2>5, <3>1 DEF RowMove, MadeActive
    <2> QED
        BY <2>3, <2>4, <2>5
<1>5. CASE EndTrial(v)
    <2>1. work[v].step = "patch" /\ sub' = [sub EXCEPT !.status = "Active"] /\ billed' = billed
        BY <1>5 DEF EndTrial
    <2>2. SamePeriod(sub, sub') /\ sub'.status = "Active"
        BY <1>1, <2>1 DEF IntRow, SamePeriod, SameTerms
    <2> QED
        BY <2>1, <2>2 DEF RowMove, TrialOver
<1> QED
    BY <1>2, <1>3, <1>4, <1>5

\* The row, as every other step changes it.
LEMMA RestMoves ==
    ASSUME LInv,
           \/ ClaimExpires \/ BackoffEnds \/ TrialPaid \/ NextDay
           \/ \E i \in EventIds : EventTimesOut(i)
           \/ \E u \in Users :
                \/ \E date \in {today, PeriodEnd} : CancelBegin(u, date)
                \/ CancelCommit(u) \/ CancelAborts(u)
                \/ \E i \in EventIds : UndoRead(u, i)
                \/ UndoWrite(u)
           \/ \E p \in Plans : SchedulePlanChange(p) \/ ChangePlanNow(p)
           \/ ScheduleAmendment
    PROVE  RowMove(sub, sub', billed, billed')
<1>1. sub \in IntRow
    BY DEF LInv, Shapes
<1>2. CASE ClaimExpires \/ BackoffEnds
    <2>1. /\ sub' = [sub EXCEPT !.claimed = FALSE] \/ sub' = [sub EXCEPT !.backoff = FALSE]
          /\ billed' = billed
        BY <1>2 DEF ClaimExpires, BackoffEnds
    <2>2. SamePeriod(sub, sub') /\ sub'.status = sub.status
        BY <1>1, <2>1 DEF IntRow, SamePeriod, SameTerms
    <2> QED
        BY <2>1, <2>2 DEF RowMove, Kept
<1>3. CASE TrialPaid
    <2> DEFINE e == sub.start + Length[sub.plan]
    <2>1. /\ sub.status = "TrialExpired" /\ sub.start \in billed /\ billed' = billed
          /\ sub' = [sub EXCEPT !.status = "Active", !.action = "RenewSubscription", !.end = e]
        BY <1>3 DEF TrialPaid
    <2>2. e \in sub.start .. sub.start + 50
        BY <1>1, LifecycleAssumption DEF IntRow
    <2> HIDE DEF e
    <2>3. /\ SameTerms(sub, sub') /\ sub'.start = sub.start /\ sub'.end = e
          /\ sub'.status = "Active" /\ sub'.action = "RenewSubscription"
        BY <1>1, <2>1 DEF IntRow, SameTerms
    <2> QED
        BY <2>1, <2>2, <2>3 DEF RowMove, Reactivated
<1>4. ASSUME NEW p \in Plans, ChangePlanNow(p)
      PROVE  RowMove(sub, sub', billed, billed')
    <2>1. CASE FreeTrial(sub)
        <3> DEFINE e == today + Length[p]
        <3>1. /\ sub' = [sub EXCEPT !.status = "Active", !.plan = p,
                           !.action = "RenewSubscription", !.start = today, !.end = e]
              /\ billed' = billed \cup {today}
            BY <1>4, <2>1 DEF ChangePlanNow, Bill
        <3>2. e \in today .. today + 50
            BY LifecycleAssumption DEF LInv, Shapes
        <3> HIDE DEF e
        <3>3. /\ SameTerms(sub, sub') /\ sub'.start = today /\ sub'.end = e
              /\ sub'.status = "Active" /\ sub'.action = "RenewSubscription"
            BY <1>1, <3>1 DEF IntRow, SameTerms
        <3> QED
            BY <2>1, <3>1, <3>2, <3>3 DEF RowMove, Restarted
    <2>2. CASE ~FreeTrial(sub)
        <3>1. /\ sub' = [sub EXCEPT !.status = "Active", !.plan = p] /\ billed' = billed
              /\ Running(sub)
            BY <1>4, <2>2 DEF ChangePlanNow
        <3>2. SamePeriod(sub, sub') /\ sub'.status = "Active"
            BY <1>1, <3>1 DEF IntRow, SamePeriod, SameTerms
        <3> QED
            BY <3>1, <3>2 DEF RowMove, MadeActive
    <2> QED
        BY <2>1, <2>2
<1>5. CASE \/ NextDay \/ \E i \in EventIds : EventTimesOut(i)
           \/ \E u \in Users :
                \/ \E date \in {today, PeriodEnd} : CancelBegin(u, date)
                \/ CancelCommit(u) \/ CancelAborts(u)
                \/ \E i \in EventIds : UndoRead(u, i)
                \/ UndoWrite(u)
           \/ \E p \in Plans : SchedulePlanChange(p)
           \/ ScheduleAmendment
    <2>1. sub' = sub /\ billed' = billed
        BY <1>5 DEF NextDay, EventTimesOut, CancelBegin, CancelCommit, CancelAborts, UndoRead,
                    UndoWrite, SchedulePlanChange, ScheduleAmendment
    <2> QED
        BY <2>1 DEF RowMove, Kept, SamePeriod, SameTerms
<1> QED
    BY <1>2, <1>3, <1>4, <1>5

\* Every step changes the row in one of these ways.
LEMMA RowMoves == LInv /\ LifeNext => RowMove(sub, sub', billed, billed')
BY CycleMoves, WorkMoves, RestMoves DEF LifeNext

\* A set of naturals has a least element.
LEMMA LeastOf ==
    ASSUME NEW T, T \subseteq Nat, T # {}
    PROVE  \E x \in T : \A y \in T : x <= y
<1> DEFINE R == OpToRel(<, Nat)
<1>1. IsWellFoundedOn(R, Nat)
    BY NatLessThanWellFounded
<1>2. R = {ss \in Nat \X Nat : ss[1] < ss[2]}
    BY DEF OpToRel
<1> HIDE DEF R
<1>3. PICK x \in T : \A y \in T : ~ (<<y, x>> \in R)
    BY <1>1, WFMin
<1>4. ASSUME NEW y \in T PROVE x <= y
    <2>1. ~ (y < x)
        <3>1. SUFFICES ASSUME y < x PROVE <<y, x>> \in R
            BY <1>3
        <3> QED
            BY <1>2, <3>1, x \in Nat, y \in Nat
    <2> QED
        BY <2>1, x \in Nat, y \in Nat
<1> QED
    BY <1>4

\* A set of the first naturals has a greatest element.
LEMMA GreatestOf ==
    ASSUME NEW N \in Nat, NEW T, T \subseteq 1 .. N, T # {}
    PROVE  \E x \in T : \A y \in T : y <= x
<1> DEFINE S == {N - y : y \in T}
<1>1. S \subseteq Nat /\ S # {}
    <2>1. \A y \in T : N - y \in Nat
        OBVIOUS
    <2>2. PICK y : y \in T
        OBVIOUS
    <2> QED
        BY <2>1, <2>2
<1> HIDE DEF S
<1>2. PICK z \in S : \A y \in S : z <= y
    BY <1>1, LeastOf
<1>3. PICK x \in T : z = N - x
    BY DEF S
<1>4. ASSUME NEW y \in T PROVE y <= x
    <2>1. N - y \in S
        BY DEF S
    <2> QED
        BY <1>2, <1>3, <2>1
<1> QED
    BY <1>4

(***************************************************************************)
(* A cancellation that is due with the period.                             *)
(***************************************************************************)

\* What waits for a day and is not held: EventOf picks its newest.
LEMMA EventOfNewest ==
    ASSUME NEW date, NEW i \in Pending(EventTypes \ {"EndTrial"}) \ Held,
           event[i].date = date
    PROVE  /\ EventOf(date) # {}
           /\ \A j \in EventOf(date) : i <= j
<1> DEFINE T == {j \in Pending(EventTypes \ {"EndTrial"}) \ Held : event[j].date = date}
<1>1. T \subseteq 1 .. MaxEvents /\ i \in T
    BY DEF Pending, EventIds
<1>2. PICK x \in T : \A y \in T : y <= x
    <2> HIDE DEF T
    <2> QED
        BY <1>1, GreatestOf, LifecycleAssumption
<1>3. x \in EventOf(date)
    BY <1>2 DEF EventOf
<1>4. \A j \in EventOf(date) : i <= j
    BY DEF EventOf
<1> QED
    BY <1>3, <1>4

\* A worker that begins the next period although a cancellation is due with it
\* found a newer change for the day.
LEMMA RenewalFollowsChange ==
    ASSUME LInv, LifeNext, cycle' # cycle,
           <<sub'.start, sub'.end>> # <<sub.start, sub.end>>, Running(sub'),
           NEW i \in Pending({"CancelSubscription"}) \ Held, event[i].date = sub.end
    PROVE  \E j \in Pending({"ApplyAmendment", "ApplyPlanChange"}) :
                j > i /\ event[j].date = sub.end
<1>1. PICK w \in CycleWorkers :
        \/ ClaimDue(w) \/ CycleSkips(w) \/ CycleAdvances(w) \/ CycleCancels(w)
        \/ CycleChanges(w) \/ CycleFails(w) \/ CycleGone(w)
    BY DEF LifeNext, ClaimExpires, BackoffEnds, ClaimEvent, RunCancel, RunPlanChange,
           RunAmendment, ReadTrial, EndTrial, WorkerGone, EventTimesOut, CancelBegin,
           CancelCommit, CancelAborts, UndoRead, UndoWrite, SchedulePlanChange,
           ChangePlanNow, ScheduleAmendment, TrialPaid, NextDay
<1>2. sub \in IntRow /\ event \in IntEvents
    BY DEF LInv, Shapes
<1>3. i \in Pending(EventTypes \ {"EndTrial"}) \ Held /\ event[i].type = "CancelSubscription"
    BY DEF Pending, EventTypes
<1>4. EventOf(sub.end) # {} /\ \A j \in EventOf(sub.end) : i <= j
    BY <1>3, EventOfNewest
<1>5. ASSUME sub.action # "None"
      PROVE  NextPeriod(sub) \in IntRow /\ NextPeriod(sub).start = sub.end
    BY <1>2, <1>5, NextPeriodRow, NextPeriodIs DEF Follows
<1>6. CASE ClaimDue(w) \/ CycleSkips(w) \/ CycleGone(w)
    <2>1. sub' = sub \/ sub' = [sub EXCEPT !.claimed = TRUE]
        BY <1>6 DEF ClaimDue, CycleSkips, CycleGone
    <2>2. sub'.start = sub.start /\ sub'.end = sub.end
        BY <1>2, <2>1 DEF IntRow
    <2> QED
        BY <2>2
<1>7. CASE CycleFails(w)
    <2> DEFINE e == sub.errors + 1
    <2>1. \/ sub' = [sub EXCEPT !.errors = e, !.status = "Errored"]
          \/ sub' = [sub EXCEPT !.errors = e, !.backoff = TRUE]
        BY <1>7 DEF CycleFails
    <2> HIDE DEF e
    <2>2. sub'.start = sub.start /\ sub'.end = sub.end
        BY <1>2, <2>1 DEF IntRow
    <2> QED
        BY <2>2
<1>8. CASE CycleAdvances(w)
    <2>1. sub.action # "None" /\ sub' = Settled(NextPeriod(sub))
          /\ (NextPeriod(sub).status = "Completed" \/ EventOf(NextPeriod(sub).start) = {})
        BY <1>8, Zenon DEF CycleAdvances, Transition
    <2>2. sub'.status = NextPeriod(sub).status
        BY <1>5, <2>1, SettledIs
    <2> QED
        BY <1>4, <1>5, <2>1, <2>2 DEF Running
<1>9. CASE CycleCancels(w)
    <2>1. sub.action # "None" /\ sub' = Settled(Terminated(sub, NextPeriod(sub).start))
        BY <1>9 DEF CycleCancels, Transition
    <2>2. NextPeriod(sub).start \in Int
        BY <1>5, <2>1, RowFields
    <2>3. sub'.status = "Cancelled"
        BY <1>2, <2>1, <2>2, TerminatedRow, SettledIs
    <2> QED
        BY <2>3 DEF Running
<1>10. CASE CycleChanges(w)
    <2>1. sub.action # "None"
        BY <1>10 DEF CycleChanges, Transition
    <2>2. PICK j \in EventOf(sub.end) : event[j].type # "CancelSubscription"
        BY <1>5, <1>10, <2>1 DEF CycleChanges
    <2>3. j \in Pending({"ApplyAmendment", "ApplyPlanChange"}) /\ event[j].date = sub.end
        BY <2>2 DEF EventOf, Pending, EventTypes
    <2>4. i <= j /\ i # j /\ i \in Int /\ j \in Int
        BY <1>3, <1>4, <2>2, <2>3 DEF Pending, EventIds
    <2> QED
        BY <2>3, <2>4
<1> QED
    BY <1>1, <1>6, <1>7, <1>8, <1>9, <1>10

\* A cancellation committed for the end of the period stops the renewal, unless
\* a change for the same day was scheduled after it.
THEOREM CancellationStops == LifeSpec => CancellationStopsRenewal
<1> DEFINE Stops ==
        cycle' # cycle /\ <<sub'.start, sub'.end>> # <<sub.start, sub.end>>
        /\ sub'.start = sub.end /\ Running(sub') =>
        \A i \in Pending({"CancelSubscription"}) \ Held : event[i].date = sub.end =>
            \E j \in Pending({"ApplyAmendment", "ApplyPlanChange"}) :
                j > i /\ event[j].date = sub.end
<1>1. LInv /\ [LifeNext]_lifeVars => [Stops]_lifeVars
    BY RenewalFollowsChange
<1>2. CancellationStopsRenewal <=> [][Stops]_lifeVars
    BY DEF CancellationStopsRenewal
<1> HIDE DEF Stops
<1> QED
    BY <1>1, <1>2, LifecycleInvariant, PTL DEF LifeSpec

(***************************************************************************)
(* How a step changes the events.                                          *)
(***************************************************************************)

Used(row) == row.status # "absent"

\* Claims and requests are of events that exist, and a worker that is to patch
\* the subscription has the event that ends a trial.
Known ==
    /\ \A v \in EventWorkers : work[v].step # "idle" => Used(event[work[v].event])
    /\ \A v \in EventWorkers : work[v].step = "patch" => event[work[v].event].type = "EndTrial"
    /\ \A u \in Users : \A i \in request[u].events : Used(event[i])

\* A row that is used stays so, with its type.  Only a row that ends at once is
\* completed.
Handled(e, f) == f = e \/ (Used(e) /\ Used(f) /\ f.type = e.type /\ f.status # "Completed")
Handles(ev, fv) == \A i \in EventIds : Handled(ev[i], fv[i])

\* A cancellation is completed by a step that bills it, or knows it did not.
Finished(e, f) ==
    /\ Used(e) /\ Used(f) /\ f.type = e.type
    /\ f.type = "CancelSubscription" => sub'.start \in billed' \cup unbilled'

\* An event of any type but the end of a trial is scheduled.
Scheduled(e, f) == ~Used(e) /\ Used(f) /\ f.type # "EndTrial"

EventMove(e, f) == Handled(e, f) \/ Finished(e, f) \/ Scheduled(e, f)

\* A row that is over keeps its type.
LEMMA OverIs ==
    \A row, status : Over(row, status).status = status /\ Over(row, status).type = row.type
BY DEF Over, NewEvent

\* Canceling what is pending.
LEMMA CancelPendingHandles ==
    \A ev, types : Handles(ev, CancelPending(ev, types))
BY OverIs DEF Handles, Handled, CancelPending, Used

\* Canceling what a request has read.
LEMMA CancelReadHandles ==
    ASSUME NEW S, \A i \in S : Used(event[i])
    PROVE  Handles(event, [i \in EventIds |-> IF i \in S THEN Over(event[i], "Canceled")
                                              ELSE event[i]])
BY OverIs DEF Handles, Handled, Used

\* An event that failed is tried again or given up.
LEMMA FailedHandles ==
    ASSUME NEW ev \in IntEvents, NEW i \in EventIds, Used(ev[i])
    PROVE  Handles(ev, Failed(ev, i))
<1>1. ev[i] \in IntEvent
    BY DEF IntEvents
<1>2. CASE ev[i].retries < MaxEventRetries
    <2>1. AfterFailure(ev[i]) = [ev[i] EXCEPT !.status = "Pending", !.date = today,
                                              !.retries = @ + 1]
        BY <1>2 DEF AfterFailure
    <2>2. AfterFailure(ev[i]).status = "Pending" /\ AfterFailure(ev[i]).type = ev[i].type
        BY <1>1, <2>1 DEF IntEvent
    <2> QED
        BY <2>2 DEF Failed, Handles, Handled, Used, IntEvents
<1>3. CASE ~(ev[i].retries < MaxEventRetries)
    <2>1. AfterFailure(ev[i]) = Over(ev[i], "Failed")
        BY <1>3 DEF AfterFailure
    <2>2. AfterFailure(ev[i]).status = "Failed" /\ AfterFailure(ev[i]).type = ev[i].type
        BY <2>1, OverIs
    <2> QED
        BY <2>2 DEF Failed, Handles, Handled, Used, IntEvents
<1> QED
    BY <1>2, <1>3

\* Completing an event changes its row alone.
LEMMA CompletedIs ==
    ASSUME NEW ev \in IntEvents, NEW i \in EventIds
    PROVE  /\ \A j \in EventIds : j # i => Completed(ev, i)[j] = ev[j]
           /\ Completed(ev, i)[i].status = "Completed" /\ Completed(ev, i)[i].type = ev[i].type
BY OverIs DEF Completed, IntEvents

\* Scheduling an event takes a row that is not used.
LEMMA ScheduleIs ==
    ASSUME NEW ev \in IntEvents, NEW row, Unused # {}
    PROVE  \E j \in Unused : /\ Schedule(ev, row)[j] = row
                             /\ \A i \in EventIds : i # j => Schedule(ev, row)[i] = ev[i]
<1> DEFINE j == CHOOSE i \in Unused : \A k \in Unused : i <= k
<1>1. Unused \subseteq EventIds /\ EventIds \subseteq Nat
    BY DEF Unused, EventIds
<1>2. \E i \in Unused : \A k \in Unused : i <= k
    BY <1>1, LeastOf
<1>3. j \in Unused
    BY <1>2
<1>4. Schedule(ev, row) = [ev EXCEPT ![j] = row]
    BY DEF Schedule
<1> HIDE DEF j
<1> QED
    BY <1>1, <1>3, <1>4 DEF IntEvents

\* Events handled one after the other are handled.
LEMMA HandlesAgain ==
    \A ev, fv, gv : Handles(ev, fv) /\ Handles(fv, gv) => Handles(ev, gv)
BY DEF Handles, Handled

\* A row that is scheduled after others were canceled.
LEMMA ScheduleMoves ==
    ASSUME NEW ev \in IntEvents, Handles(event, ev), NEW row \in IntEvent, Unused # {},
           Used(row), row.type # "EndTrial"
    PROVE  \A i \in EventIds : EventMove(event[i], Schedule(ev, row)[i])
<1>1. PICK j \in Unused : /\ Schedule(ev, row)[j] = row
                          /\ \A i \in EventIds : i # j => Schedule(ev, row)[i] = ev[i]
    BY ScheduleIs
<1>2. j \in EventIds /\ ~Used(event[j])
    BY DEF Unused, Used
<1> QED
    BY <1>1, <1>2 DEF Handles, EventMove, Scheduled

\* The events, as the steps of a cycle worker change them.
LEMMA CycleEvents ==
    ASSUME LInv, NEW w \in CycleWorkers,
           \/ ClaimDue(w) \/ CycleSkips(w) \/ CycleAdvances(w) \/ CycleCancels(w)
           \/ CycleChanges(w) \/ CycleFails(w) \/ CycleGone(w)
    PROVE  \A i \in EventIds : EventMove(event[i], event'[i])
<1>1. sub \in IntRow /\ event \in IntEvents
    BY DEF LInv, Shapes
<1>2. CASE \/ ClaimDue(w) \/ CycleSkips(w) \/ CycleAdvances(w) \/ CycleFails(w)
           \/ CycleGone(w)
    <2>1. event' = event
        BY <1>2 DEF ClaimDue, CycleSkips, CycleAdvances, CycleFails, CycleGone
    <2> QED
        BY <2>1 DEF EventMove, Handled
<1>3. CASE CycleCancels(w)
    <2> DEFINE date == NextPeriod(sub).start
    <2>1. /\ sub.action # "None" /\ sub' = Settled(Terminated(sub, date))
          /\ date \in billed' \cup unbilled'
        BY <1>3 DEF CycleCancels, Transition, Bill
    <2>2. date \in Int
        BY <1>1, <2>1, NextPeriodRow, RowFields
    <2>3. PICK i \in EventIds : event[i].status = "Pending" /\
            event' = CancelPending(Completed(event, i), SubscriptionTypes)
        BY <1>3 DEF CycleCancels, EventOf, Pending
    <2> HIDE DEF date
    <2>4. sub'.start = date
        BY <1>1, <2>1, <2>2, TerminatedRow, TerminatedIs, SettledIs DEF SamePeriod
    <2>5. Finished(event[i], Completed(event, i)[i])
        BY <1>1, <2>1, <2>3, <2>4, CompletedIs DEF Finished, Used
    <2>6. event'[i] = Completed(event, i)[i]
        BY <1>1, <2>3, CompletedIs DEF CancelPending
    <2>7. \A j \in EventIds : j # i => Handled(event[j], event'[j])
        BY <1>1, <2>3, CompletedIs, CancelPendingHandles DEF Handles
    <2> QED
        BY <2>5, <2>6, <2>7 DEF EventMove
<1>4. CASE CycleChanges(w)
    <2>1. PICK i \in EventIds :
            /\ event[i].status = "Pending" /\ event[i].type # "CancelSubscription"
            /\ event' \in {CancelPending(Completed(event, i), SubscriptionTypes),
                           Completed(event, i)}
        BY <1>4 DEF CycleChanges, EventOf, Pending
    <2>2. Finished(event[i], Completed(event, i)[i])
        BY <1>1, <2>1, CompletedIs DEF Finished, Used
    <2>3. event'[i] = Completed(event, i)[i]
        BY <1>1, <2>1, CompletedIs DEF CancelPending
    <2>4. \A j \in EventIds : j # i => Handled(event[j], event'[j])
        BY <1>1, <2>1, CompletedIs, CancelPendingHandles DEF Handles, Handled
    <2> QED
        BY <2>2, <2>3, <2>4 DEF EventMove
<1> QED
    BY <1>2, <1>3, <1>4

\* The events, as the steps of an event worker change them.
LEMMA WorkEvents ==
    ASSUME LInv, Known, NEW v \in EventWorkers,
           \/ \E i \in EventIds : ClaimEvent(v, i)
           \/ RunCancel(v) \/ RunPlanChange(v) \/ RunAmendment(v)
           \/ ReadTrial(v) \/ EndTrial(v) \/ WorkerGone(v)
    PROVE  \A i \in EventIds : EventMove(event[i], event'[i])
<1>1. sub \in IntRow /\ event \in IntEvents
    BY DEF LInv, Shapes
<1>2. ASSUME NEW i \in EventIds, ClaimEvent(v, i)
      PROVE  \A j \in EventIds : EventMove(event[j], event'[j])
    <2>1. event[i] \in IntEvent /\ event[i].status = "Pending"
          /\ event' = [event EXCEPT ![i].status = "Processing"]
        BY <1>1, <1>2 DEF ClaimEvent, Claimable, IntEvents
    <2>2. event'[i].status = "Processing" /\ event'[i].type = event[i].type
        BY <1>1, <2>1 DEF IntEvents, IntEvent
    <2>3. \A j \in EventIds : j # i => event'[j] = event[j]
        BY <1>1, <2>1 DEF IntEvents
    <2> QED
        BY <2>1, <2>2, <2>3 DEF EventMove, Handled, Used
<1> DEFINE i == work[v].event
<1>3. ASSUME work[v].step # "idle"
      PROVE  i \in EventIds /\ Used(event[i])
    BY <1>3 DEF Known, LInv, Shapes
<1>4. CASE WorkerGone(v)
    BY <1>4 DEF WorkerGone, EventMove, Handled
<1>5. CASE RunCancel(v)
    <2> DEFINE ev == CancelPending(event, SubscriptionTypes)
    <2>1. i \in EventIds /\ Used(event[i])
        BY <1>3, <1>5 DEF RunCancel, Runs
    <2>2. ev \in IntEvents /\ Handles(event, ev)
        BY <1>1, CancelPendingTyped, CancelPendingHandles
    <2>3. Used(ev[i]) /\ ev[i].type = event[i].type
        BY <2>1, <2>2 DEF Handles, Handled
    <2>4. sub'.start = event[i].date
        <3>1. sub' = Terminated(sub, event[i].date) /\ event[i].date \in Int
            BY <1>1, <1>5, <2>1 DEF RunCancel, IntEvents, IntEvent
        <3> QED
            BY <1>1, <3>1, TerminatedIs
    <2>5. \/ event' = Completed(ev, i) /\ event[i].date \in billed'
          \/ event' = Failed(ev, i)
        BY <1>5 DEF RunCancel, Bill
    <2> HIDE DEF ev, i
    <2>6. CASE event' = Completed(ev, i) /\ event[i].date \in billed'
        <3>1. Finished(event[i], event'[i])
            BY <2>1, <2>2, <2>3, <2>4, <2>6, CompletedIs DEF Finished, Used
        <3>2. \A j \in EventIds : j # i => Handled(event[j], event'[j])
            BY <2>1, <2>2, <2>6, CompletedIs DEF Handles
        <3> QED
            BY <3>1, <3>2 DEF EventMove
    <2>7. CASE event' = Failed(ev, i)
        BY <2>1, <2>2, <2>3, <2>7, FailedHandles, HandlesAgain DEF Handles, EventMove
    <2> QED
        BY <2>5, <2>6, <2>7
<1>6. CASE RunPlanChange(v) \/ RunAmendment(v) \/ ReadTrial(v) \/ EndTrial(v)
    <2>1. i \in EventIds /\ Used(event[i]) /\ event[i].type # "CancelSubscription"
        BY <1>3, <1>6 DEF RunPlanChange, RunAmendment, ReadTrial, EndTrial, Runs, Known
    <2>2. event' \in {event, Completed(event, i), Failed(event, i),
                      CancelPending(Completed(event, i), SubscriptionTypes)}
        BY <1>6, Zenon DEF RunPlanChange, RunAmendment, ReadTrial, EndTrial
    <2> HIDE DEF i
    <2>3. CASE event' = event \/ event' = Failed(event, i)
        BY <1>1, <2>1, <2>3, FailedHandles DEF Handles, EventMove, Handled
    <2>4. CASE event' = Completed(event, i)
               \/ event' = CancelPending(Completed(event, i), SubscriptionTypes)
        <3>1. Finished(event[i], Completed(event, i)[i])
            BY <1>1, <2>1, CompletedIs DEF Finished, Used
        <3>2. event'[i] = Completed(event, i)[i]
            BY <1>1, <2>1, <2>4, CompletedIs DEF CancelPending
        <3>3. \A j \in EventIds : j # i => Handled(event[j], event'[j])
            BY <1>1, <2>1, <2>4, CompletedIs, CancelPendingHandles DEF Handles, Handled
        <3> QED
            BY <3>1, <3>2, <3>3 DEF EventMove
    <2> QED
        BY <2>2, <2>3, <2>4
<1> QED
    BY <1>2, <1>4, <1>5, <1>6

\* The events, as requests change them.
LEMMA RequestEvents ==
    ASSUME LInv, Known,
           \/ \E u \in Users :
                \/ \E date \in {today, PeriodEnd} : CancelBegin(u, date)
                \/ CancelCommit(u) \/ CancelAborts(u)
                \/ \E i \in EventIds : UndoRead(u, i)
                \/ UndoWrite(u)
           \/ \E p \in Plans : SchedulePlanChange(p) \/ ChangePlanNow(p)
           \/ ScheduleAmendment
    PROVE  \A i \in EventIds : EventMove(event[i], event'[i])
<1>1. sub \in IntRow /\ event \in IntEvents
    BY DEF LInv, Shapes
<1>2. ASSUME NEW u \in Users, CancelCommit(u) \/ UndoWrite(u)
      PROVE  \A i \in EventIds : EventMove(event[i], event'[i])
    <2> DEFINE ev == [i \in EventIds |-> IF i \in request[u].events
                                         THEN Over(event[i], "Canceled") ELSE event[i]]
    <2>1. ev \in IntEvents /\ Handles(event, ev)
        BY <1>1, OverTyped, CancelReadHandles DEF IntEvents, EventStatus, Known
    <2> DEFINE row == NewEvent("CancelSubscription", request[u].date, AnyPlan, AnyPlan)
    <2>2. row \in IntEvent /\ Used(row) /\ row.type # "EndTrial"
        <3>1. row \in IntEvent
            BY NewEventTyped, PlanExists DEF LInv, Shapes, EventTypes
        <3> QED
            BY <3>1 DEF NewEvent, Used
    <2>3. event' = ev \/ (event' = Schedule(ev, row) /\ Unused # {})
        BY <1>2 DEF CancelCommit, UndoWrite
    <2> HIDE DEF ev, row
    <2> QED
        BY <2>1, <2>2, <2>3, ScheduleMoves DEF Handles, EventMove
<1>3. ASSUME NEW p \in Plans, SchedulePlanChange(p)
      PROVE  \A i \in EventIds : EventMove(event[i], event'[i])
    <2> DEFINE ev == CancelPending(event, LifecycleTypes)
               row == NewEvent("ApplyPlanChange", sub.end, sub.plan, p)
    <2>1. ev \in IntEvents /\ Handles(event, ev)
        BY <1>1, CancelPendingTyped, CancelPendingHandles
    <2>2. row \in IntEvent /\ Used(row) /\ row.type # "EndTrial"
        <3>1. row \in IntEvent
            BY <1>1, RowFields, NewEventTyped DEF EventTypes
        <3> QED
            BY <3>1 DEF NewEvent, Used
    <2>3. event' = Schedule(ev, row) /\ Unused # {}
        BY <1>3 DEF SchedulePlanChange
    <2> HIDE DEF ev, row
    <2> QED
        BY <2>1, <2>2, <2>3, ScheduleMoves
<1>4. CASE ScheduleAmendment
    <2> DEFINE ev == CancelPending(event, {"ApplyAmendment"})
               row == NewEvent("ApplyAmendment", sub.end, AnyPlan, AnyPlan)
    <2>1. ev \in IntEvents /\ Handles(event, ev)
        BY <1>1, CancelPendingTyped, CancelPendingHandles
    <2>2. row \in IntEvent /\ Used(row) /\ row.type # "EndTrial"
        <3>1. row \in IntEvent
            BY <1>1, RowFields, NewEventTyped, PlanExists DEF EventTypes
        <3> QED
            BY <3>1 DEF NewEvent, Used
    <2>3. event' = Schedule(ev, row) /\ Unused # {}
        BY <1>4 DEF ScheduleAmendment
    <2> HIDE DEF ev, row
    <2> QED
        BY <2>1, <2>2, <2>3, ScheduleMoves
<1>5. CASE \E p \in Plans : ChangePlanNow(p)
    <2>1. PICK types : event' = CancelPending(event, types)
        BY <1>5 DEF ChangePlanNow
    <2> QED
        BY <2>1, CancelPendingHandles DEF Handles, EventMove
<1>6. CASE \E u \in Users :
                \/ \E date \in {today, PeriodEnd} : CancelBegin(u, date)
                \/ CancelAborts(u) \/ \E i \in EventIds : UndoRead(u, i)
    <2>1. event' = event
        BY <1>6 DEF CancelBegin, CancelAborts, UndoRead
    <2> QED
        BY <2>1 DEF EventMove, Handled
<1> QED
    BY <1>2, <1>3, <1>4, <1>5, <1>6

\* Every step changes every event in one of these ways.
LEMMA EventMoves ==
    LInv /\ Known /\ LifeNext => \A i \in EventIds : EventMove(event[i], event'[i])
<1> SUFFICES ASSUME LInv, Known, LifeNext
             PROVE  \A i \in EventIds : EventMove(event[i], event'[i])
    OBVIOUS
<1>1. event \in IntEvents
    BY DEF LInv, Shapes
<1>2. CASE ClaimExpires \/ BackoffEnds \/ TrialPaid \/ NextDay
    <2>1. event' = event
        BY <1>2 DEF ClaimExpires, BackoffEnds, TrialPaid, NextDay
    <2> QED
        BY <2>1 DEF EventMove, Handled
<1>3. ASSUME NEW i \in EventIds, EventTimesOut(i)
      PROVE  \A j \in EventIds : EventMove(event[j], event'[j])
    <2> DEFINE row == [event[i] EXCEPT !.status = "Pending", !.date = today, !.retries = @ + 1]
    <2>1. event' = [event EXCEPT ![i] = row] /\ event[i].status = "Processing"
        BY <1>1, <1>3 DEF EventTimesOut, IntEvents
    <2>2. event[i] \in IntEvent
        BY <1>1 DEF IntEvents
    <2>3. row.status = "Pending" /\ row.type = event[i].type
        BY <2>2 DEF IntEvent
    <2> HIDE DEF row
    <2>4. Handled(event[i], event'[i]) /\ \A j \in EventIds : j # i => event'[j] = event[j]
        BY <1>1, <2>1, <2>3 DEF IntEvents, Handled, Used
    <2> QED
        BY <2>4 DEF EventMove, Handled
<1> QED
    BY <1>2, <1>3, CycleEvents, WorkEvents, RequestEvents DEF LifeNext

(***************************************************************************)
(* What is billed.                                                         *)
(***************************************************************************)

\* A paid trial is waiting for its end, or has been.
TrialEvent == \E i \in EventIds : Used(event[i]) /\ event[i].type = "EndTrial"

\* The period has its invoice, needs none, or is none.
Covered ==
    sub.start \in billed \/ sub.trialEnd = "free" \/ sub.end <= sub.start \/ sub.end = NoDate

\* A trial that is given no invoice, and that no event ends.
Unbilled == sub.end <= sub.start + sub.trial /\ ~TrialEvent

PeriodInv ==
    /\ sub.action = "RenewSubscription" => Covered
    /\ sub.action = "EndSubscription" => Covered \/ Unbilled \/ sub.status = "TrialExpired"
    /\ sub.action = "EndTrial" => Unbilled
    /\ sub.action = "ActivateSubscription" =>
          sub.status \in {"PendingActivation", "Errored"} /\ ~TrialEvent
    /\ sub.action = "None" => sub.end = NoDate \/ sub.status = "TrialExpired"
    /\ sub.status = "TrialExpired" => ~TrialEvent

EndInv ==
    sub.trial = 0 =>
        /\ ~TrialEvent /\ sub.status \notin {"TrialActive", "TrialExpired"}
        /\ sub.action # "EndTrial"
        /\ sub.action = "EndSubscription" => sub.end = sub.until
        /\ sub.status = "Active" /\ sub.start < sub.end =>
              sub.start < sub.until \/ BeganLate(sub.start)
        /\ sub.status # "Cancelled" => \A d \in billed :
              \/ d < sub.until \/ BeganLate(d)
              \/ d = sub.until /\ sub.status = "Completed"

LifeInv == LInv /\ Known /\ PeriodInv /\ EndInv /\ FinalInvoice

\* What the fields of a row are.
LEMMA Fields ==
    LInv => /\ sub.start \in Int /\ sub.end \in Int /\ sub.until \in Int /\ sub.trial \in Int
            /\ sub.action \in CycleActions /\ sub.status \in SubStatus
            /\ Length[sub.plan] \in 1 .. 50 /\ today \in Int /\ today <= Horizon
BY RowFields, LifecycleAssumption DEF LInv, Shapes, IntRow

\* The same of the row after a step.
LEMMA FieldsNext ==
    LInv' => /\ sub'.start \in Int /\ sub'.end \in Int /\ sub'.until \in Int
             /\ sub'.trial \in Int /\ sub'.action \in CycleActions /\ sub'.status \in SubStatus
<1>1. (LInv => /\ sub.start \in Int /\ sub.end \in Int /\ sub.until \in Int
               /\ sub.trial \in Int /\ sub.action \in CycleActions
               /\ sub.status \in SubStatus)'
    BY Fields, PTL
<1> QED
    BY <1>1

\* No event is claimed or read to begin with.
LEMMA InitKnown == LifeInit => Known
BY DEF LifeInit, Known, NoWork, NoRequest

\* Claims and reads are of events that exist.
LEMMA KnownPreserved == LInv /\ Known /\ LifeNext => Known'
<1> SUFFICES ASSUME LInv, Known, LifeNext PROVE Known'
    OBVIOUS
<1>1. \A i \in EventIds : EventMove(event[i], event'[i])
    BY EventMoves
<1>2. \A i \in EventIds : Used(event[i]) => Used(event'[i]) /\ event'[i].type = event[i].type
    BY <1>1 DEF EventMove, Handled, Finished, Scheduled
<1>3. /\ work \in [EventWorkers -> [step : {"idle", "run", "patch"}, event : EventIds \cup {0}]]
      /\ \A v \in EventWorkers : work[v].step # "idle" => work[v].event \in EventIds
      /\ request \in [Users -> [op : {"none", "cancel", "undo"}, date : Int,
                                events : SUBSET EventIds]]
    BY DEF LInv, Shapes
<1>4. ASSUME NEW v \in EventWorkers, work'[v].step # "idle"
      PROVE  /\ Used(event'[work'[v].event])
             /\ work'[v].step = "patch" => event'[work'[v].event].type = "EndTrial"
    <2>1. CASE work'[v] = work[v]
        BY <1>2, <1>3, <1>4, <2>1 DEF Known
    <2>2. ASSUME NEW i \in EventIds, ClaimEvent(v, i)
          PROVE  work'[v] = [step |-> "run", event |-> i] /\ Used(event[i])
        BY <1>3, <2>2 DEF ClaimEvent, Claimable, Used
    <2>3. ASSUME ReadTrial(v), work[v].step # "idle", work'[v] # work[v]
          PROVE  /\ work'[v].event = work[v].event /\ event[work[v].event].type = "EndTrial"
                 /\ work[v].event \in EventIds
        BY <1>3, <1>4, <2>3 DEF ReadTrial, Runs, Done, NoWork
    <2>4. \/ work'[v] = work[v] \/ \E i \in EventIds : ClaimEvent(v, i)
          \/ ReadTrial(v) /\ work[v].step # "idle"
        <3>1. ASSUME NEW u \in EventWorkers,
                     RunCancel(u) \/ RunPlanChange(u) \/ RunAmendment(u) \/ EndTrial(u)
                     \/ WorkerGone(u)
              PROVE  work'[v] = work[v]
            BY <1>3, <1>4, <3>1 DEF RunCancel, RunPlanChange, RunAmendment, EndTrial,
                                    WorkerGone, Done, NoWork
        <3>2. ASSUME NEW u \in EventWorkers, u # v,
                     ReadTrial(u) \/ \E i \in EventIds : ClaimEvent(u, i)
              PROVE  work'[v] = work[v]
            BY <1>3, <3>2 DEF ReadTrial, ClaimEvent, Done
        <3>3. ASSUME ReadTrial(v) PROVE work[v].step # "idle"
            BY <3>3 DEF ReadTrial, Runs
        <3>4. ASSUME \/ \E w \in CycleWorkers :
                          \/ ClaimDue(w) \/ CycleSkips(w) \/ CycleAdvances(w) \/ CycleCancels(w)
                          \/ CycleChanges(w) \/ CycleFails(w) \/ CycleGone(w)
                     \/ ClaimExpires \/ BackoffEnds
                     \/ \E i \in EventIds : EventTimesOut(i)
                     \/ \E u \in Users :
                          \/ \E date \in {today, PeriodEnd} : CancelBegin(u, date)
                          \/ CancelCommit(u) \/ CancelAborts(u)
                          \/ \E i \in EventIds : UndoRead(u, i)
                          \/ UndoWrite(u)
                     \/ \E p \in Plans : SchedulePlanChange(p) \/ ChangePlanNow(p)
                     \/ ScheduleAmendment \/ TrialPaid \/ NextDay
              PROVE  work' = work
            BY <3>4 DEF ClaimDue, CycleSkips, CycleAdvances, CycleCancels, CycleChanges,
                    CycleFails, CycleGone, ClaimExpires, BackoffEnds, EventTimesOut,
                    CancelBegin, CancelCommit, CancelAborts, UndoRead, UndoWrite,
                    SchedulePlanChange, ChangePlanNow, ScheduleAmendment, TrialPaid, NextDay
        <3> QED
            BY <3>1, <3>2, <3>3, <3>4 DEF LifeNext
    <2>5. CASE \E i \in EventIds : ClaimEvent(v, i)
        <3>1. PICK i \in EventIds : ClaimEvent(v, i)
            BY <2>5
        <3>2. work'[v] = [step |-> "run", event |-> i] /\ Used(event[i])
            BY <2>2, <3>1
        <3>3. work'[v].step = "run" /\ work'[v].event = i
            BY <3>2
        <3> QED
            BY <1>2, <3>2, <3>3
    <2>6. CASE ReadTrial(v) /\ work[v].step # "idle" /\ work'[v] # work[v]
        BY <1>2, <2>3, <2>6 DEF Known
    <2> QED
        BY <2>1, <2>4, <2>5, <2>6
<1>5. ASSUME NEW u \in Users, NEW i \in request'[u].events
      PROVE  Used(event[i]) /\ i \in EventIds
    <2>1. CASE request'[u] = request[u]
        BY <1>3, <2>1 DEF Known
    <2>2. CASE request'[u].events \subseteq Pending(EventTypes)
        BY <2>2 DEF Pending, Used
    <2>3. CASE request'[u] = NoRequest
        BY <2>3 DEF NoRequest
    <2>4. \/ request'[u] = request[u] \/ request'[u] = NoRequest
          \/ request'[u].events \subseteq Pending(EventTypes)
        <3>1. ASSUME NEW t \in Users, CancelCommit(t) \/ CancelAborts(t) \/ UndoWrite(t)
              PROVE  request' = [request EXCEPT ![t] = NoRequest]
            BY <3>1 DEF CancelCommit, CancelAborts, UndoWrite, Close
        <3>2. ASSUME NEW t \in Users, NEW date, CancelBegin(t, date)
              PROVE  request' = [request EXCEPT ![t] =
                        [op |-> "cancel", date |-> date, events |-> Pending(LifecycleTypes)]]
            BY <3>2 DEF CancelBegin
        <3>3. ASSUME NEW t \in Users, NEW j \in EventIds, UndoRead(t, j)
              PROVE  /\ j \in Pending(EventTypes)
                     /\ request' = [request EXCEPT ![t] =
                            [op |-> "undo", date |-> 0, events |-> {j}]]
            BY <3>3 DEF UndoRead, Pending
        <3>4. Pending(LifecycleTypes) \subseteq Pending(EventTypes)
            BY DEF Pending, LifecycleTypes, EventTypes
        <3>5. ASSUME \/ \E w \in CycleWorkers :
                          \/ ClaimDue(w) \/ CycleSkips(w) \/ CycleAdvances(w) \/ CycleCancels(w)
                          \/ CycleChanges(w) \/ CycleFails(w) \/ CycleGone(w)
                     \/ ClaimExpires \/ BackoffEnds
                     \/ \E v \in EventWorkers :
                          \/ \E j \in EventIds : ClaimEvent(v, j)
                          \/ RunCancel(v) \/ RunPlanChange(v) \/ RunAmendment(v)
                          \/ ReadTrial(v) \/ EndTrial(v) \/ WorkerGone(v)
                     \/ \E j \in EventIds : EventTimesOut(j)
                     \/ \E p \in Plans : SchedulePlanChange(p) \/ ChangePlanNow(p)
                     \/ ScheduleAmendment \/ TrialPaid \/ NextDay
              PROVE  request' = request
            BY <3>5 DEF ClaimDue, CycleSkips, CycleAdvances, CycleCancels, CycleChanges,
                    CycleFails, CycleGone, ClaimExpires, BackoffEnds, EventTimesOut,
                    ClaimEvent, RunCancel, RunPlanChange, RunAmendment, ReadTrial, EndTrial,
                    WorkerGone, SchedulePlanChange, ChangePlanNow, ScheduleAmendment,
                    TrialPaid, NextDay
        <3> QED
            BY <1>3, <3>1, <3>2, <3>3, <3>4, <3>5 DEF LifeNext
    <2> QED
        BY <2>1, <2>2, <2>3, <2>4
<1> QED
    BY <1>2, <1>4, <1>5 DEF Known

\* No step schedules the end of a trial.
LEMMA TrialEventKept == LInv /\ Known /\ LifeNext => (TrialEvent' => TrialEvent)
BY EventMoves DEF TrialEvent, EventMove, Handled, Finished, Scheduled

\* A worker that is to patch the subscription has the event that ends a trial.
LEMMA PatchHasEvent ==
    ASSUME LInv, Known, NEW v \in EventWorkers, work[v].step = "patch"
    PROVE  TrialEvent
BY DEF LInv, Shapes, Known, TrialEvent

\* The invariant of the invoices, row move by row move.
LEMMA PeriodPreserved ==
    ASSUME LInv, LInv', Known, PeriodInv, LifeNext
    PROVE  PeriodInv'
<1> DEFINE s == sub
           t == sub'
<1>1. RowMove(s, t, billed, billed') /\ (TrialEvent' => TrialEvent)
    BY RowMoves, TrialEventKept
<1>2. /\ s.start \in Int /\ s.end \in Int /\ s.until \in Int /\ s.trial \in Int
      /\ s.action \in CycleActions /\ s.status \in SubStatus
      /\ Length[s.plan] \in 1 .. 50 /\ today \in Int /\ today <= Horizon
      /\ t.start \in Int /\ t.end \in Int /\ t.until \in Int /\ t.trial \in Int
      /\ t.action \in CycleActions /\ t.status \in SubStatus
    BY Fields, FieldsNext
<1>3. Horizon \in Nat /\ NoDate = Horizon + 100
    BY LifecycleAssumption DEF NoDate
<1>4. Covered' <=> (t.start \in billed' \/ t.trialEnd = "free" \/ t.end <= t.start
                    \/ t.end = NoDate)
    BY DEF Covered
<1>5. /\ Unbilled' <=> t.end <= t.start + t.trial /\ ~TrialEvent'
      /\ Unbilled <=> s.end <= s.start + s.trial /\ ~TrialEvent
    BY DEF Unbilled
<1>6. Covered <=> (s.start \in billed \/ s.trialEnd = "free" \/ s.end <= s.start
                   \/ s.end = NoDate)
    BY DEF Covered
<1>7. /\ s.action = "RenewSubscription" => Covered
      /\ s.action = "EndSubscription" => Covered \/ Unbilled \/ s.status = "TrialExpired"
      /\ s.action = "EndTrial" => Unbilled
      /\ s.action = "ActivateSubscription" =>
            s.status \in {"PendingActivation", "Errored"} /\ ~TrialEvent
      /\ s.action = "None" => s.end = NoDate \/ s.status = "TrialExpired"
      /\ s.status = "TrialExpired" => ~TrialEvent
    BY DEF PeriodInv
<1> SUFFICES
      /\ t.action = "RenewSubscription" => Covered'
      /\ t.action = "EndSubscription" => Covered' \/ Unbilled' \/ t.status = "TrialExpired"
      /\ t.action = "EndTrial" => Unbilled'
      /\ t.action = "ActivateSubscription" =>
            t.status \in {"PendingActivation", "Errored"} /\ ~TrialEvent'
      /\ t.action = "None" => t.end = NoDate \/ t.status = "TrialExpired"
      /\ t.status = "TrialExpired" => ~TrialEvent'
    BY DEF PeriodInv
<1> HIDE DEF s, t
<1>8. ASSUME SamePeriod(s, t), billed' = billed
      PROVE  (Covered => Covered') /\ (Unbilled => Unbilled')
    BY <1>1, <1>4, <1>5, <1>6, <1>8 DEF SamePeriod, SameTerms
<1>9. CASE Kept(s, t, billed, billed')
    BY <1>1, <1>7, <1>8, <1>9 DEF Kept, SamePeriod
<1>10. CASE Advanced(s, t, billed, billed')
    <2>1. /\ SameTerms(s, t) /\ t.start = s.end /\ s.end <= today
          /\ billed' = IF ShouldBill(s, t) THEN billed \cup {t.start} ELSE billed
          /\ s.status \in {"PendingActivation", "TrialActive", "Active"}
        BY <1>10 DEF Advanced, Follows
    <2>2. PICK action \in CycleActions, end \in Int :
            /\ Cycles(s, t.status, action, end)
            /\ IF end # NoDate /\ s.until <= end
               THEN t.action = "EndSubscription" /\ t.end = s.until
               ELSE t.action = action /\ t.end = end
        BY <1>10 DEF Advanced, Follows
    <2>3. CASE /\ \/ s.action = "RenewSubscription"
                  \/ s.action = "ActivateSubscription" /\ s.trial = 0
                  \/ s.action = "EndTrial" /\ s.trialEnd \in {"free", "bill"}
               /\ t.status = "Active" /\ action = "RenewSubscription"
               /\ end = s.end + Length[s.plan]
        <3>1. t.action \in {"RenewSubscription", "EndSubscription"}
            BY <2>2, <2>3
        <3>2. ASSUME t.trialEnd # "free", t.end # NoDate, ~(t.end <= t.start)
              PROVE  ShouldBill(s, t)
            <4>1. t.until > t.start
                <5>1. CASE end # NoDate /\ s.until <= end
                    BY <1>2, <2>1, <2>2, <3>2, <5>1 DEF SameTerms
                <5>2. CASE ~(end # NoDate /\ s.until <= end)
                    BY <1>2, <2>1, <2>2, <2>3, <3>2, <5>2 DEF SameTerms
                <5> QED
                    BY <5>1, <5>2
            <4> QED
                BY <2>1, <2>3, <3>2, <4>1 DEF ShouldBill, SameTerms
        <3>3. Covered'
            BY <1>4, <2>1, <3>2
        <3> QED
            BY <2>3, <3>1, <3>3
    <2>4. CASE /\ s.action = "ActivateSubscription" /\ s.trial # 0
               /\ t.status = "TrialActive" /\ action = "EndTrial" /\ end = s.end + s.trial
        <3>1. t.action \in {"EndTrial", "EndSubscription"}
            BY <2>2, <2>4
        <3>2. t.end <= t.start + t.trial
            BY <1>2, <2>1, <2>2, <2>4 DEF SameTerms
        <3> QED
            BY <1>1, <1>5, <1>7, <2>4, <3>1, <3>2
    <2>5. CASE /\ s.action = "EndTrial" /\ s.trialEnd \notin {"free", "bill"}
               /\ t.status = "TrialExpired" /\ action = "None"
               /\ end = s.end + Length[s.plan]
        BY <1>1, <1>5, <1>7, <2>2, <2>5
    <2>6. CASE /\ s.action = "EndSubscription"
               /\ t.status = "Completed" /\ action = "None" /\ end = NoDate
        BY <2>2, <2>6
    <2> QED
        BY <2>2, <2>3, <2>4, <2>5, <2>6 DEF Cycles
<1>11. CASE Stopped(s, t, billed, billed')
    BY <1>11 DEF Stopped
<1>12. CASE GivenUp(s, t, billed, billed')
    BY <1>1, <1>7, <1>8, <1>12 DEF GivenUp, SamePeriod
<1>13. CASE MadeActive(s, t, billed, billed')
    BY <1>1, <1>7, <1>8, <1>13 DEF MadeActive, SamePeriod, Running
<1>14. CASE Restarted(s, t, billed, billed')
    BY <1>4, <1>14 DEF Restarted
<1>15. CASE TrialOver(s, t, billed, billed')
    <2>1. TrialEvent
        BY <1>15, PatchHasEvent DEF TrialOver
    <2> QED
        BY <1>1, <1>5, <1>7, <1>8, <1>15, <2>1 DEF TrialOver, SamePeriod
<1>16. CASE Reactivated(s, t, billed, billed')
    BY <1>4, <1>16 DEF Reactivated
<1> QED
    BY <1>1, <1>9, <1>10, <1>11, <1>12, <1>13, <1>14, <1>15, <1>16 DEF RowMove

\* The invariant of the end date, row move by row move.
LEMMA EndPreserved ==
    ASSUME LInv, LInv', Known, EndInv, LifeNext
    PROVE  EndInv'
<1> DEFINE s == sub
           t == sub'
<1>1. RowMove(s, t, billed, billed') /\ (TrialEvent' => TrialEvent)
    BY RowMoves, TrialEventKept
<1>2. /\ s.start \in Int /\ s.end \in Int /\ s.until \in Int /\ s.trial \in Int
      /\ s.action \in CycleActions /\ s.status \in SubStatus
      /\ Length[s.plan] \in 1 .. 50 /\ today \in Int /\ today <= Horizon
      /\ t.start \in Int /\ t.end \in Int /\ t.until \in Int /\ t.trial \in Int
      /\ t.action \in CycleActions /\ t.status \in SubStatus
    BY Fields, FieldsNext
<1>3. Horizon \in Nat /\ NoDate = Horizon + 100
    BY LifecycleAssumption DEF NoDate
<1>4. SameTerms(s, t)
    BY <1>1 DEF RowMove, Kept, Advanced, Follows, Stopped, GivenUp, MadeActive, Restarted,
                TrialOver, Reactivated, SamePeriod
<1>5. SUFFICES ASSUME s.trial = 0, t.trial = 0
      PROVE  /\ ~TrialEvent' /\ t.status \notin {"TrialActive", "TrialExpired"}
             /\ t.action # "EndTrial"
             /\ t.action = "EndSubscription" => t.end = t.until
             /\ t.status = "Active" /\ t.start < t.end =>
                   t.start < t.until \/ BeganLate(t.start)
             /\ t.status # "Cancelled" => \A d \in billed' :
                   \/ d < t.until \/ BeganLate(d)
                   \/ d = t.until /\ t.status = "Completed"
    BY <1>4 DEF EndInv, SameTerms, BeganLate
<1>6. /\ ~TrialEvent /\ s.status \notin {"TrialActive", "TrialExpired"}
      /\ s.action # "EndTrial"
      /\ s.action = "EndSubscription" => s.end = s.until
      /\ s.status = "Active" /\ s.start < s.end => s.start < s.until \/ BeganLate(s.start)
      /\ s.status # "Cancelled" => \A d \in billed :
            \/ d < s.until \/ BeganLate(d)
            \/ d = s.until /\ s.status = "Completed"
    BY <1>5 DEF EndInv
<1> HIDE DEF s, t
<1>7. CASE Kept(s, t, billed, billed') \/ GivenUp(s, t, billed, billed')
           \/ MadeActive(s, t, billed, billed')
    <2>1. SamePeriod(s, t) /\ billed' = billed
        BY <1>7 DEF Kept, GivenUp, MadeActive
    <2>2. \/ t.status = s.status
          \/ s.status \in {"PendingActivation", "Active"} /\ t.status = "Errored"
          \/ s.status = "Active" /\ t.status = "Active"
        BY <1>6, <1>7 DEF Kept, GivenUp, MadeActive, Running
    <2> QED
        BY <1>1, <1>6, <2>1, <2>2 DEF SamePeriod, SameTerms
<1>8. CASE Advanced(s, t, billed, billed')
    <2>1. /\ SameTerms(s, t) /\ t.start = s.end /\ s.end <= today
          /\ billed' = IF ShouldBill(s, t) THEN billed \cup {t.start} ELSE billed
          /\ s.status \in {"PendingActivation", "Active"}
        BY <1>6, <1>8 DEF Advanced, Follows
    <2>2. PICK action \in CycleActions, end \in Int :
            /\ Cycles(s, t.status, action, end)
            /\ IF end # NoDate /\ s.until <= end
               THEN t.action = "EndSubscription" /\ t.end = s.until
               ELSE t.action = action /\ t.end = end
        BY <1>8 DEF Advanced, Follows
    <2>3. CASE /\ t.status = "Active" /\ action = "RenewSubscription"
               /\ end = s.end + Length[s.plan]
        <3>1. end # NoDate /\ s.end # NoDate
            BY <1>2, <1>3, <2>1, <2>3
        <3>2. t.end # NoDate
            <4>1. CASE s.until <= end
                BY <1>2, <1>3, <2>1, <2>2, <2>3, <3>1, <4>1
            <4>2. CASE ~(s.until <= end)
                BY <2>2, <3>1, <4>2
            <4> QED
                BY <4>1, <4>2
        <3>3. t.start < t.end => t.start < t.until
            <4>1. t.end <= s.until
                BY <1>2, <2>2, <3>1
            <4> QED
                BY <1>2, <2>1, <4>1 DEF SameTerms
        <3>4. ShouldBill(s, t) => t.start < t.until
            BY <1>2, <3>2 DEF ShouldBill
        <3>5. t.action \in {"EndSubscription", "RenewSubscription"}
              /\ (t.action = "EndSubscription" => t.end = t.until)
            BY <2>1, <2>2, <2>3 DEF SameTerms
        <3>6. \A d \in billed' : d < t.until \/ BeganLate(d)
            BY <1>6, <2>1, <3>4 DEF SameTerms
        <3> QED
            BY <1>1, <1>6, <2>3, <3>3, <3>5, <3>6
    <2>4. CASE /\ s.action = "EndSubscription"
               /\ t.status = "Completed" /\ action = "None" /\ end = NoDate
        <3>1. t.start = t.until /\ t.action = "None"
            BY <1>6, <2>1, <2>2, <2>4 DEF SameTerms
        <3>2. \A d \in billed' : d < t.until \/ BeganLate(d) \/ d = t.until
            BY <1>6, <2>1, <3>1 DEF SameTerms
        <3> QED
            BY <1>1, <1>6, <2>4, <3>1, <3>2
    <2> QED
        BY <1>5, <1>6, <2>2, <2>3, <2>4 DEF Cycles
<1>9. CASE Stopped(s, t, billed, billed')
    BY <1>1, <1>6, <1>9 DEF Stopped
<1>10. CASE Restarted(s, t, billed, billed')
    BY <1>6, <1>10 DEF Restarted, FreeTrial
<1>11. CASE TrialOver(s, t, billed, billed')
    BY <1>6, <1>11, PatchHasEvent DEF TrialOver
<1>12. CASE Reactivated(s, t, billed, billed')
    BY <1>6, <1>12 DEF Reactivated
<1> QED
    BY <1>1, <1>7, <1>8, <1>9, <1>10, <1>11, <1>12 DEF RowMove

\* What failed to be billed within a transition is remembered.
LEMMA UnbilledGrows == LifeNext => unbilled \subseteq unbilled'
BY DEF LifeNext, ClaimDue, CycleSkips, CycleAdvances, CycleCancels, CycleChanges, CycleFails,
       CycleGone, ClaimExpires, BackoffEnds, ClaimEvent, RunCancel, RunPlanChange,
       RunAmendment, ReadTrial, EndTrial, WorkerGone, EventTimesOut, CancelBegin,
       CancelCommit, CancelAborts, UndoRead, UndoWrite, SchedulePlanChange,
       ChangePlanNow, ScheduleAmendment, TrialPaid, NextDay

\* The final invoice, or an event that may still make it.
LEMMA FinalPreserved ==
    ASSUME LInv, LInv', Known, FinalInvoice, LifeNext
    PROVE  FinalInvoice'
<1>1. SUFFICES ASSUME sub'.status = "Cancelled", sub'.start \notin billed' \cup unbilled'
      PROVE  \E i \in EventIds :
                /\ event'[i].type = "CancelSubscription"
                /\ event'[i].status \in {"Pending", "Processing", "Failed", "Canceled"}
    BY DEF FinalInvoice
<1>2. sub \in IntRow /\ event \in IntEvents /\ event' \in IntEvents
    BY DEF LInv, Shapes
<1>3. RowMove(sub, sub', billed, billed')
    BY RowMoves
<1>4. CASE Kept(sub, sub', billed, billed')
    <2>1. /\ sub.status = "Cancelled" /\ sub'.start = sub.start
          /\ sub.start \notin billed \cup unbilled
        BY <1>1, <1>4, UnbilledGrows DEF Kept, SamePeriod
    <2>2. PICK i \in EventIds :
            /\ event[i].type = "CancelSubscription"
            /\ event[i].status \in {"Pending", "Processing", "Failed", "Canceled"}
        BY <2>1 DEF FinalInvoice
    <2>3. Handled(event[i], event'[i])
        <3>1. Used(event[i])
            BY <2>2 DEF Used
        <3>2. EventMove(event[i], event'[i])
            BY EventMoves
        <3>3. ~Finished(event[i], event'[i])
            BY <1>1, <2>2 DEF Finished
        <3> QED
            BY <3>1, <3>2, <3>3 DEF EventMove, Scheduled
    <2>4. event'[i].status \in EventStatus
        BY <1>2 DEF IntEvents, IntEvent
    <2>5. /\ event'[i].type = "CancelSubscription"
          /\ event'[i].status \in {"Pending", "Processing", "Failed", "Canceled"}
        BY <2>2, <2>3, <2>4 DEF Handled, Used, EventStatus
    <2> QED
        BY <2>5
<1>5. ASSUME NEW w \in CycleWorkers, CycleCancels(w)
      PROVE  FALSE
    <2> DEFINE date == NextPeriod(sub).start
    <2>1. /\ sub.action # "None" /\ sub' = Settled(Terminated(sub, date))
          /\ date \in billed' \cup unbilled'
        BY <1>5 DEF CycleCancels, Transition, Bill
    <2>2. date \in Int
        BY <1>2, <2>1, NextPeriodRow, RowFields
    <2> HIDE DEF date
    <2>3. sub'.start = date
        BY <1>2, <2>1, <2>2, TerminatedRow, TerminatedIs, SettledIs DEF SamePeriod
    <2> QED
        BY <1>1, <2>1, <2>3
<1>6. ASSUME NEW v \in EventWorkers, RunCancel(v)
      PROVE  \E i \in EventIds :
                /\ event'[i].type = "CancelSubscription"
                /\ event'[i].status \in {"Pending", "Processing", "Failed", "Canceled"}
    <2> DEFINE i == work[v].event
               ev == CancelPending(event, SubscriptionTypes)
    <2>1. i \in EventIds /\ Used(event[i]) /\ event[i].type = "CancelSubscription"
        BY <1>6 DEF RunCancel, Runs, LInv, Shapes, Known
    <2>2. ev \in IntEvents /\ Handles(event, ev)
        BY <1>2, CancelPendingTyped, CancelPendingHandles
    <2>3. Used(ev[i]) /\ ev[i].type = "CancelSubscription" /\ ev[i] \in IntEvent
        BY <2>1, <2>2 DEF Handles, Handled, IntEvents
    <2>4. sub'.start = event[i].date
        <3>1. sub' = Terminated(sub, event[i].date) /\ event[i].date \in Int
            BY <1>2, <1>6, <2>1 DEF RunCancel, IntEvents, IntEvent
        <3> QED
            BY <1>2, <3>1, TerminatedIs
    <2>5. event' = Failed(ev, i)
        BY <1>1, <1>6, <2>4 DEF RunCancel, Bill
    <2> HIDE DEF ev, i
    <2>6. event'[i] = AfterFailure(ev[i])
        BY <2>1, <2>2, <2>5 DEF Failed, IntEvents
    <2>7. CASE ev[i].retries < MaxEventRetries
        <3>1. event'[i] = [ev[i] EXCEPT !.status = "Pending", !.date = today, !.retries = @ + 1]
            BY <2>6, <2>7 DEF AfterFailure
        <3>2. event'[i].status = "Pending" /\ event'[i].type = "CancelSubscription"
            BY <2>3, <3>1 DEF IntEvent
        <3> QED
            BY <2>1, <3>2
    <2>8. CASE ~(ev[i].retries < MaxEventRetries)
        <3>1. event'[i] = Over(ev[i], "Failed")
            BY <2>6, <2>8 DEF AfterFailure
        <3> QED
            BY <2>1, <2>3, <3>1, OverIs
    <2> QED
        BY <2>7, <2>8
<1>7. CASE Stopped(sub, sub', billed, billed')
    BY <1>5, <1>6, <1>7 DEF Stopped
<1>8. CASE Advanced(sub, sub', billed, billed')
    BY <1>1, <1>8 DEF Advanced, Follows, Cycles
<1>9. CASE \/ GivenUp(sub, sub', billed, billed') \/ MadeActive(sub, sub', billed, billed')
           \/ Restarted(sub, sub', billed, billed') \/ TrialOver(sub, sub', billed, billed')
           \/ Reactivated(sub, sub', billed, billed')
    BY <1>1, <1>9 DEF GivenUp, MadeActive, Restarted, TrialOver, Reactivated
<1> QED
    BY <1>3, <1>4, <1>7, <1>8, <1>9 DEF RowMove

\* A subscription that was just inserted.
LEMMA InitLifeInv == LifeInit => LifeInv
<1> SUFFICES ASSUME LifeInit PROVE LifeInv
    OBVIOUS
<1>1. LInv /\ Known
    BY InitLInv, InitKnown
<1>2. sub \in Starts /\ Inserted(sub) /\ sub \in SubRow
    BY LifecycleAssumption DEF LifeInit
<1>3. /\ sub.start \in Int /\ sub.end \in Int /\ sub.until \in Int /\ sub.trial \in Int
      /\ sub.action \in CycleActions /\ sub.status \in SubStatus
    BY <1>1, Fields
<1>4. TrialEvent => PaidTrial(sub)
    BY DEF TrialEvent, LifeInit, Used, Over, NewEvent
<1>5. billed = IF sub.action = "RenewSubscription" THEN {sub.start} ELSE {}
    BY DEF LifeInit
<1>6. PeriodInv
    BY <1>2, <1>3, <1>4, <1>5 DEF PeriodInv, Covered, Unbilled, Inserted, PaidTrial
<1>7. EndInv
    <2>1. \A d : sub.start = d => d < sub.until \/ BeganLate(d)
        BY <1>2, <1>3 DEF BeganLate
    <2> QED
        BY <1>2, <1>4, <1>5, <2>1 DEF EndInv, Inserted, PaidTrial
<1>8. FinalInvoice
    BY <1>2 DEF FinalInvoice, Inserted
<1> QED
    BY <1>1, <1>6, <1>7, <1>8 DEF LifeInv

LEMMA StutterLifeInv == LifeInv /\ UNCHANGED lifeVars => LifeInv'
<1> SUFFICES ASSUME LifeInv, UNCHANGED lifeVars PROVE LifeInv'
    OBVIOUS
<1>1. LInv'
    BY StutterPreserves DEF LifeInv
<1>2. Known' /\ PeriodInv' /\ EndInv'
    BY DEF LifeInv, lifeVars, Known, PeriodInv, EndInv, Covered, Unbilled, TrialEvent, Used
<1>3. FinalInvoice'
    BY DEF LifeInv, lifeVars, FinalInvoice
<1> QED
    BY <1>1, <1>2, <1>3 DEF LifeInv

\* What is billed, and what is still to be, follows the periods.
THEOREM LifeInvariant == LifeSpec => []LifeInv
<1>1. LifeInv /\ [LifeNext]_lifeVars => LifeInv'
    <2> SUFFICES ASSUME LifeInv, LifeNext PROVE LifeInv'
        BY StutterLifeInv
    <2>1. LInv'
        BY CyclePreserves, WorkPreserves, RequestPreserves, RestPreserves DEF LifeNext, LifeInv
    <2> QED
        BY <2>1, KnownPreserved, PeriodPreserved, EndPreserved, FinalPreserved DEF LifeInv
<1> QED
    BY <1>1, InitLifeInv, PTL DEF LifeSpec

\* Every period a subscription is active in has its invoice, or is exempt.
THEOREM PeriodsStayBilled == LifeSpec => []PeriodsBilled
<1>1. LifeInv => PeriodsBilled
    <2> SUFFICES ASSUME LifeInv, sub.status = "Active", sub.start < sub.end, sub.end # NoDate
                 PROVE  \/ sub.start \in billed \/ sub.trialEnd = "free"
                        \/ /\ sub.action \in {"EndTrial", "EndSubscription"}
                           /\ sub.end <= sub.start + sub.trial
        BY DEF PeriodsBilled
    <2>1. sub.start \in Int /\ sub.end \in Int /\ sub.action \in CycleActions
        BY Fields DEF LifeInv
    <2>2. ~(sub.end <= sub.start)
        BY <2>1
    <2> QED
        BY <2>1, <2>2 DEF LifeInv, PeriodInv, Covered, Unbilled, CycleActions
<1> QED
    BY <1>1, LifeInvariant, PTL

\* The end date of a subscription without a trial is kept.
THEOREM EndDateKept == LifeSpec => []EndDateRespected
<1>1. LifeInv => EndDateRespected
    BY DEF LifeInv, EndInv, EndDateRespected, Running
<1> QED
    BY <1>1, LifeInvariant, PTL

\* A cancelled subscription has its final invoice, or an event that may make it
\* or was given up.
THEOREM FinalInvoiceMade == LifeSpec => []FinalInvoice
<1>1. LifeInv => FinalInvoice
    BY DEF LifeInv
<1> QED
    BY <1>1, LifeInvariant, PTL

(***************************************************************************)
(* The dates.                                                              *)
(***************************************************************************)
DayEvents == [EventIds -> EventRow]

\* The types, where a subscription whose trial expired began, and that an event
\* a worker has claimed was due.
Dated ==
    /\ LifeTypeOK
    /\ sub.status = "TrialExpired" => sub.start <= Horizon
    /\ \A v \in EventWorkers : work[v].step # "idle" => event[work[v].event].date <= today

\* A step moves the date of an event to today, or forgets it.
Redated(e, f) == Used(e) => f.date \in {e.date, 0, today}

LEMMA DayBounds ==
    /\ Horizon \in Nat /\ NoDate = Horizon + 100 /\ Days = 0 .. Horizon + 100
    /\ \A p \in Plans : Length[p] \in Int /\ 1 <= Length[p] /\ Length[p] <= 50
BY LifecycleAssumption DEF NoDate, Days

LEMMA OverDated ==
    ASSUME NEW row, row.type \in EventTypes, NEW status \in EventStatus
    PROVE  Over(row, status) \in EventRow /\ Over(row, status).date = 0
<1>1. NewEvent(row.type, 0, AnyPlan, AnyPlan) \in EventRow
    BY PlanExists, DayBounds DEF NewEvent, EventRow, EventStatus
<1> QED
    BY <1>1 DEF Over, NewEvent, EventRow

LEMMA NewEventDated ==
    ASSUME NEW type \in EventTypes, NEW date \in Days, NEW p \in Plans, NEW q \in Plans
    PROVE  NewEvent(type, date, p, q) \in EventRow
BY DEF NewEvent, EventRow, EventStatus

LEMMA RowsDated ==
    ASSUME NEW ev \in DayEvents, NEW i \in EventIds
    PROVE  ev[i] \in EventRow /\ ev[i].type \in EventTypes /\ ev[i].date \in Days
BY DEF DayEvents, EventRow

LEMMA CancelPendingDated ==
    ASSUME NEW ev \in DayEvents, NEW types
    PROVE  /\ CancelPending(ev, types) \in DayEvents
           /\ \A i \in EventIds : CancelPending(ev, types)[i].date \in {ev[i].date, 0}
<1>1. "Canceled" \in EventStatus
    BY DEF EventStatus
<1> QED
    BY <1>1, RowsDated, OverDated DEF CancelPending, DayEvents

LEMMA CompletedDated ==
    ASSUME NEW ev \in DayEvents, NEW i \in EventIds
    PROVE  /\ Completed(ev, i) \in DayEvents
           /\ \A j \in EventIds : Completed(ev, i)[j].date \in {ev[j].date, 0}
<1>1. "Completed" \in EventStatus
    BY DEF EventStatus
<1>2. Over(ev[i], "Completed") \in EventRow /\ Over(ev[i], "Completed").date = 0
    BY <1>1, RowsDated, OverDated
<1> QED
    BY <1>2 DEF Completed, DayEvents

LEMMA FailedDated ==
    ASSUME today \in Days, NEW ev \in DayEvents, NEW i \in EventIds
    PROVE  /\ Failed(ev, i) \in DayEvents
           /\ \A j \in EventIds : Failed(ev, i)[j].date \in {ev[j].date, 0, today}
<1> DEFINE row == [ev[i] EXCEPT !.status = "Pending", !.date = today, !.retries = @ + 1]
<1>1. "Failed" \in EventStatus /\ "Pending" \in EventStatus
    BY DEF EventStatus
<1>2. Over(ev[i], "Failed") \in EventRow /\ Over(ev[i], "Failed").date = 0
    BY <1>1, RowsDated, OverDated
<1>3. ev[i] \in EventRow /\ ev[i].retries + 1 \in Nat
    BY RowsDated DEF EventRow
<1>4. row \in EventRow /\ row.date = today
    BY <1>1, <1>3 DEF EventRow
<1>5. Failed(ev, i) = [ev EXCEPT ![i] = AfterFailure(ev[i])]
    BY DEF Failed, DayEvents
<1>6. AfterFailure(ev[i]) \in EventRow /\ AfterFailure(ev[i]).date \in {0, today}
    BY <1>2, <1>4 DEF AfterFailure
<1> QED
    BY <1>5, <1>6 DEF DayEvents

LEMMA ScheduleDated ==
    ASSUME NEW ev \in DayEvents, NEW row \in EventRow, Unused # {}
    PROVE  /\ Schedule(ev, row) \in DayEvents
           /\ \A i \in EventIds : Used(event[i]) => Schedule(ev, row)[i] = ev[i]
<1>1. Unused \subseteq EventIds /\ EventIds \subseteq Nat
    BY DEF Unused, EventIds
<1>2. \E i \in Unused : \A k \in Unused : i <= k
    BY <1>1, LeastOf
<1> DEFINE j == CHOOSE i \in Unused : \A k \in Unused : i <= k
<1>3. j \in Unused
    BY <1>2
<1>4. Schedule(ev, row) = [ev EXCEPT ![j] = row]
    BY DEF Schedule
<1> HIDE DEF j
<1> QED
    BY <1>1, <1>3, <1>4 DEF DayEvents, Unused, Used

\* The end of the period that holds today is a date.
LEMMA PeriodEndDated ==
    ASSUME sub \in IntRow, today \in 0 .. Horizon
    PROVE  PeriodEnd \in Days
<1> DEFINE l == Length[sub.plan]  x == today - sub.start
<1>1. l \in Int /\ 1 <= l /\ l <= 50 /\ x \in Int /\ sub.start \in Int
    BY DayBounds DEF IntRow
<1>2. x \div l \in Int /\ l * (x \div l) <= x /\ x < l * (x \div l) + l
    <2> HIDE DEF l, x
    <2> QED
        BY <1>1
<1> DEFINE q == x \div l
<1>3. PeriodEnd = sub.start + l * (q + 1)
    BY DEF PeriodEnd
<1> HIDE DEF q
<1>4. l * (q + 1) = l * q + l /\ l * q \in Int
    <2> HIDE DEF l, x
    <2> QED
        BY <1>1, <1>2 DEF q
<1>5. l * q <= x /\ x < l * q + l
    BY <1>2 DEF q
<1> DEFINE m == l * q
<1> HIDE DEF m
<1>6. m \in Int /\ m <= x /\ x < m + l /\ PeriodEnd = sub.start + (m + l)
    BY <1>3, <1>4, <1>5 DEF m
<1> HIDE DEF l
<1> QED
    BY <1>1, <1>6, DayBounds

(***************************************************************************)
(* The events keep their type, and a step moves an event to today at most. *)
(***************************************************************************)
EventsKept == event' \in DayEvents /\ \A i \in EventIds : Redated(event[i], event'[i])

LEMMA CycleKeepsEvents ==
    ASSUME Dated, NEW w \in CycleWorkers,
           \/ ClaimDue(w) \/ CycleSkips(w) \/ CycleAdvances(w) \/ CycleCancels(w)
           \/ CycleChanges(w) \/ CycleFails(w) \/ CycleGone(w)
    PROVE  EventsKept
<1>1. event \in DayEvents
    BY DEF Dated, LifeTypeOK, DayEvents
<1>2. CASE event' = event
    BY <1>1, <1>2 DEF EventsKept, Redated
<1>3. CASE CycleCancels(w) \/ CycleChanges(w)
    <2>1. PICK i \in EventIds :
            event' \in {CancelPending(Completed(event, i), SubscriptionTypes),
                        Completed(event, i)}
        BY <1>3 DEF CycleCancels, CycleChanges, EventOf, Pending
    <2>2. /\ Completed(event, i) \in DayEvents
          /\ \A j \in EventIds : Completed(event, i)[j].date \in {event[j].date, 0}
        BY <1>1, CompletedDated
    <2>3. /\ CancelPending(Completed(event, i), SubscriptionTypes) \in DayEvents
          /\ \A j \in EventIds :
                CancelPending(Completed(event, i), SubscriptionTypes)[j].date
                    \in {Completed(event, i)[j].date, 0}
        BY <2>2, CancelPendingDated
    <2> QED
        BY <2>1, <2>2, <2>3 DEF EventsKept, Redated
<1> QED
    BY <1>2, <1>3 DEF ClaimDue, CycleSkips, CycleAdvances, CycleFails, CycleGone

LEMMA WorkKeepsEvents ==
    ASSUME LInv, Dated, NEW v \in EventWorkers,
           \/ \E i \in EventIds : ClaimEvent(v, i)
           \/ RunCancel(v) \/ RunPlanChange(v) \/ RunAmendment(v)
           \/ ReadTrial(v) \/ EndTrial(v) \/ WorkerGone(v)
    PROVE  EventsKept
<1>1. event \in DayEvents /\ today \in Days
    BY DayBounds DEF Dated, LifeTypeOK, DayEvents
<1>2. CASE event' = event
    BY <1>1, <1>2 DEF EventsKept, Redated
<1>3. ASSUME NEW i \in EventIds, ClaimEvent(v, i) PROVE EventsKept
    <2>1. event' = [event EXCEPT ![i].status = "Processing"]
        BY <1>3 DEF ClaimEvent
    <2>2. event[i] \in EventRow /\ "Processing" \in EventStatus
        BY <1>1, RowsDated DEF EventStatus
    <2>3. /\ [event[i] EXCEPT !.status = "Processing"] \in EventRow
          /\ [event[i] EXCEPT !.status = "Processing"].date = event[i].date
        BY <2>2 DEF EventRow
    <2> QED
        BY <1>1, <2>1, <2>3 DEF EventsKept, Redated, DayEvents
<1>4. CASE \/ RunCancel(v) \/ RunPlanChange(v) \/ RunAmendment(v) \/ EndTrial(v)
           \/ ReadTrial(v)
    <2> DEFINE i == work[v].event
               canceled == CancelPending(event, SubscriptionTypes)
    <2>1. i \in EventIds
        BY <1>4 DEF RunCancel, RunPlanChange, RunAmendment, EndTrial, ReadTrial, Runs, LInv, Shapes
    <2>2. event' \in {event, Completed(event, i), Failed(event, i), Completed(canceled, i),
                      Failed(canceled, i),
                      CancelPending(Completed(event, i), SubscriptionTypes)}
        BY <1>4 DEF RunCancel, RunPlanChange, RunAmendment, EndTrial, ReadTrial
    <2> HIDE DEF i
    <2>3. canceled \in DayEvents /\ \A j \in EventIds : canceled[j].date \in {event[j].date, 0}
        BY <1>1, CancelPendingDated
    <2> HIDE DEF canceled
    <2>4. /\ Completed(event, i) \in DayEvents
          /\ \A j \in EventIds : Completed(event, i)[j].date \in {event[j].date, 0}
        BY <1>1, <2>1, CompletedDated
    <2>5. /\ Failed(event, i) \in DayEvents
          /\ \A j \in EventIds : Failed(event, i)[j].date \in {event[j].date, 0, today}
        BY <1>1, <2>1, FailedDated
    <2>6. /\ Completed(canceled, i) \in DayEvents
          /\ \A j \in EventIds : Completed(canceled, i)[j].date \in {canceled[j].date, 0}
        BY <2>1, <2>3, CompletedDated
    <2>7. /\ Failed(canceled, i) \in DayEvents
          /\ \A j \in EventIds : Failed(canceled, i)[j].date \in {canceled[j].date, 0, today}
        BY <1>1, <2>1, <2>3, FailedDated
    <2>8. /\ CancelPending(Completed(event, i), SubscriptionTypes) \in DayEvents
          /\ \A j \in EventIds :
                CancelPending(Completed(event, i), SubscriptionTypes)[j].date
                    \in {Completed(event, i)[j].date, 0}
        BY <2>4, CancelPendingDated
    <2> QED
        BY <1>1, <2>2, <2>3, <2>4, <2>5, <2>6, <2>7, <2>8 DEF EventsKept, Redated
<1> QED
    BY <1>2, <1>3, <1>4 DEF WorkerGone

LEMMA RequestKeepsEvents ==
    ASSUME LInv, Known, Dated,
           \/ \E u \in Users :
                \/ \E date \in {today, PeriodEnd} : CancelBegin(u, date)
                \/ CancelCommit(u) \/ CancelAborts(u)
                \/ \E i \in EventIds : UndoRead(u, i)
                \/ UndoWrite(u)
           \/ \E p \in Plans : SchedulePlanChange(p) \/ ChangePlanNow(p)
           \/ ScheduleAmendment
    PROVE  EventsKept
<1>1. /\ event \in DayEvents /\ sub.end \in Days /\ sub.plan \in Plans
      /\ \A u \in Users : request[u].date \in Days
    BY DEF Dated, LifeTypeOK, DayEvents, SubRow
<1>2. CASE event' = event
    BY <1>1, <1>2 DEF EventsKept, Redated
<1>3. ASSUME NEW u \in Users, CancelCommit(u) \/ UndoWrite(u) PROVE EventsKept
    <2> DEFINE ev == [i \in EventIds |-> IF i \in request[u].events
                                         THEN Over(event[i], "Canceled") ELSE event[i]]
               row == NewEvent("CancelSubscription", request[u].date, AnyPlan, AnyPlan)
    <2>1. ev \in DayEvents /\ \A i \in EventIds : ev[i].date \in {event[i].date, 0}
        <3>1. "Canceled" \in EventStatus
            BY DEF EventStatus
        <3> QED
            BY <1>1, <3>1, RowsDated, OverDated DEF DayEvents
    <2>2. \/ event' = ev
          \/ Unused # {} /\ event' = Schedule(ev, row)
        BY <1>3 DEF CancelCommit, UndoWrite
    <2>3. row \in EventRow
        BY <1>1, PlanExists, NewEventDated DEF EventTypes
    <2> HIDE DEF ev, row
    <2>4. CASE event' = ev
        BY <2>1, <2>4 DEF EventsKept, Redated
    <2>5. CASE Unused # {} /\ event' = Schedule(ev, row)
        BY <2>1, <2>3, <2>5, ScheduleDated DEF EventsKept, Redated
    <2> QED
        BY <2>2, <2>4, <2>5
<1>4. ASSUME NEW types, NEW row \in EventRow, Unused # {},
             event' = Schedule(CancelPending(event, types), row)
      PROVE  EventsKept
    <2> DEFINE ev == CancelPending(event, types)
    <2>1. ev \in DayEvents /\ \A i \in EventIds : ev[i].date \in {event[i].date, 0}
        BY <1>1, CancelPendingDated
    <2>2. event' = Schedule(ev, row)
        BY <1>4
    <2> HIDE DEF ev
    <2> QED
        BY <1>4, <2>1, <2>2, ScheduleDated DEF EventsKept, Redated
<1>5. ASSUME NEW p \in Plans, SchedulePlanChange(p) PROVE EventsKept
    <2>1. NewEvent("ApplyPlanChange", sub.end, sub.plan, p) \in EventRow
        BY <1>1, NewEventDated DEF EventTypes
    <2> QED
        BY <1>4, <1>5, <2>1 DEF SchedulePlanChange
<1>6. CASE ScheduleAmendment
    <2>1. NewEvent("ApplyAmendment", sub.end, AnyPlan, AnyPlan) \in EventRow
        BY <1>1, PlanExists, NewEventDated DEF EventTypes
    <2> QED
        BY <1>4, <1>6, <2>1 DEF ScheduleAmendment
<1>7. ASSUME NEW p \in Plans, ChangePlanNow(p) PROVE EventsKept
    <2>1. PICK types : event' = CancelPending(event, types)
        BY <1>7 DEF ChangePlanNow
    <2> QED
        BY <1>1, <2>1, CancelPendingDated DEF EventsKept, Redated
<1> QED
    BY <1>2, <1>3, <1>5, <1>6, <1>7 DEF CancelBegin, CancelAborts, UndoRead

LEMMA StepKeepsEvents ==
    ASSUME LInv, Known, Dated, LifeNext
    PROVE  EventsKept
<1>1. event \in DayEvents /\ today \in Days
    BY DayBounds DEF Dated, LifeTypeOK, DayEvents
<1>2. CASE event' = event
    BY <1>1, <1>2 DEF EventsKept, Redated
<1>3. ASSUME NEW i \in EventIds, EventTimesOut(i) PROVE EventsKept
    <2> DEFINE row == [event[i] EXCEPT !.status = "Pending", !.date = today, !.retries = @ + 1]
    <2>1. event' = [event EXCEPT ![i] = row]
        BY <1>1, <1>3 DEF EventTimesOut, DayEvents
    <2>2. event[i] \in EventRow /\ event[i].retries + 1 \in Nat /\ "Pending" \in EventStatus
        BY <1>1, RowsDated DEF EventRow, EventStatus
    <2>3. row \in EventRow /\ row.date = today
        BY <1>1, <2>2 DEF EventRow
    <2> HIDE DEF row
    <2> QED
        BY <1>1, <2>1, <2>3 DEF EventsKept, Redated, DayEvents
<1>4. CASE ClaimExpires \/ BackoffEnds \/ TrialPaid \/ NextDay
    BY <1>2, <1>4 DEF ClaimExpires, BackoffEnds, TrialPaid, NextDay
<1> QED
    BY <1>3, <1>4, CycleKeepsEvents, WorkKeepsEvents, RequestKeepsEvents DEF LifeNext

(***************************************************************************)
(* The row and the invoices.                                               *)
(***************************************************************************)

\* A step counts one error at most.
LEMMA ErrorsCounted ==
    ASSUME LInv, LifeNext
    PROVE  sub'.errors \in {0, sub.errors, sub.errors + 1}
<1>1. sub \in IntRow
    BY DEF LInv, Shapes
<1>2. ASSUME NEW w \in CycleWorkers, CycleAdvances(w) \/ CycleCancels(w) \/ CycleChanges(w)
      PROVE  sub'.errors = 0
    <2>1. sub.action # "None"
        BY <1>2 DEF CycleAdvances, CycleCancels, CycleChanges, Transition
    <2>2. NextPeriod(sub) \in IntRow
        BY <1>1, <2>1, NextPeriodRow
    <2>3. \E p, d : sub' \in {Settled(NextPeriod(sub)), Settled([NextPeriod(sub) EXCEPT !.plan = p]),
                              Settled(Terminated(sub, d))}
        BY <1>2 DEF CycleAdvances, CycleCancels, CycleChanges
    <2> QED
        BY <1>1, <2>2, <2>3 DEF Settled, Terminated, IntRow
<1>3. ASSUME NEW w \in CycleWorkers,
             \/ ClaimDue(w) \/ CycleSkips(w) \/ CycleFails(w) \/ CycleGone(w)
      PROVE  sub'.errors \in {sub.errors, sub.errors + 1}
    <2> DEFINE e == sub.errors + 1
    <2>1. sub' \in {sub, [sub EXCEPT !.claimed = TRUE],
                    [sub EXCEPT !.errors = e, !.status = "Errored"],
                    [sub EXCEPT !.errors = e, !.backoff = TRUE]}
        BY <1>3 DEF ClaimDue, CycleSkips, CycleFails, CycleGone
    <2> QED
        BY <1>1, <2>1 DEF IntRow
<1>4. ASSUME NEW v \in EventWorkers,
             \/ \E i \in EventIds : ClaimEvent(v, i)
             \/ RunCancel(v) \/ RunPlanChange(v) \/ RunAmendment(v)
             \/ ReadTrial(v) \/ EndTrial(v) \/ WorkerGone(v)
      PROVE  sub'.errors = sub.errors
    <2>1. \E p, d : sub' \in {sub, Terminated(sub, d), [sub EXCEPT !.plan = p],
                              [sub EXCEPT !.plan = p, !.status = "Active"],
                              [sub EXCEPT !.status = "Active"]}
        BY <1>4 DEF ClaimEvent, RunCancel, RunPlanChange, RunAmendment, ReadTrial, EndTrial,
                    WorkerGone
    <2> QED
        BY <1>1, <2>1 DEF Terminated, IntRow
<1>5. ASSUME NEW p \in Plans, ChangePlanNow(p) PROVE sub'.errors = sub.errors
    <2>1. \E d, e : sub' \in {[sub EXCEPT !.status = "Active", !.plan = p,
                                !.action = "RenewSubscription", !.start = d, !.end = e],
                              [sub EXCEPT !.status = "Active", !.plan = p]}
        BY <1>5 DEF ChangePlanNow
    <2> QED
        BY <1>1, <2>1 DEF IntRow
<1>6. CASE ClaimExpires \/ BackoffEnds \/ TrialPaid
    <2>1. \E e : sub' \in {[sub EXCEPT !.claimed = FALSE], [sub EXCEPT !.backoff = FALSE],
                           [sub EXCEPT !.status = "Active", !.action = "RenewSubscription",
                                       !.end = e]}
        BY <1>6 DEF ClaimExpires, BackoffEnds, TrialPaid
    <2> QED
        BY <1>1, <2>1 DEF IntRow
<1>7. CASE sub' = sub
    BY <1>7
<1> QED
    BY <1>2, <1>3, <1>4, <1>5, <1>6, <1>7
    DEF LifeNext, EventTimesOut, CancelBegin, CancelCommit, CancelAborts, UndoRead, UndoWrite,
        SchedulePlanChange, ScheduleAmendment, NextDay

\* The day of a cancellation has come, for the worker that carries it out.
LEMMA CancelledInTime ==
    ASSUME LInv, Dated,
           \/ \E w \in CycleWorkers : CycleCancels(w)
           \/ \E v \in EventWorkers : RunCancel(v)
    PROVE  /\ sub'.start \in 0 .. today
           /\ billed' \cup unbilled' \subseteq billed \cup unbilled \cup {sub'.start}
<1>1. sub \in IntRow /\ sub \in SubRow /\ today \in Int
    BY DEF LInv, Shapes, Dated, LifeTypeOK
<1>2. ASSUME NEW w \in CycleWorkers, CycleCancels(w)
      PROVE  /\ sub'.start \in 0 .. today
             /\ billed' \cup unbilled' \subseteq billed \cup unbilled \cup {sub'.start}
    <2> DEFINE date == NextPeriod(sub).start
    <2>1. /\ sub.action # "None" /\ sub.end <= today /\ sub' = Settled(Terminated(sub, date))
          /\ billed' \cup unbilled' \subseteq billed \cup unbilled \cup {date}
        BY <1>2 DEF CycleCancels, Transition, Due, Bill
    <2>2. date = sub.end
        BY <1>1, <2>1, NextPeriodIs DEF Follows
    <2> HIDE DEF date
    <2>3. sub.end \in 0 .. today
        BY <1>1, <2>1, DayBounds DEF SubRow
    <2>4. sub'.start = date
        BY <1>1, <2>1, <2>2, <2>3, TerminatedRow, TerminatedIs, SettledIs DEF SamePeriod
    <2> QED
        BY <2>1, <2>2, <2>3, <2>4
<1>3. ASSUME NEW v \in EventWorkers, RunCancel(v)
      PROVE  /\ sub'.start \in 0 .. today
             /\ billed' \cup unbilled' \subseteq billed \cup unbilled \cup {sub'.start}
    <2> DEFINE date == event[work[v].event].date
    <2>1. work[v].step # "idle" /\ work[v].event \in EventIds
        BY <1>3 DEF RunCancel, Runs, LInv, Shapes
    <2>2. date \in Days /\ date <= today
        BY <2>1 DEF Dated, LifeTypeOK, EventRow
    <2>3. /\ sub' = Terminated(sub, date)
          /\ billed' \cup unbilled' \subseteq billed \cup unbilled \cup {date}
        BY <1>3 DEF RunCancel, Bill
    <2> HIDE DEF date
    <2>4. date \in 0 .. today
        BY <1>1, <2>2, DayBounds
    <2>5. sub'.start = date
        BY <1>1, <2>3, <2>4, TerminatedIs
    <2> QED
        BY <2>3, <2>4, <2>5
<1> QED
    BY <1>2, <1>3

\* The period of the row is one of dates.
LEMMA PeriodDated ==
    ASSUME LInv, Dated, LifeNext
    PROVE  /\ sub'.start \in Days /\ sub'.end \in Days /\ SameTerms(sub, sub')
           /\ sub'.status = "TrialExpired" => sub'.start <= Horizon
<1> DEFINE Goal == /\ sub'.start \in Days /\ sub'.end \in Days /\ SameTerms(sub, sub')
                   /\ sub'.status = "TrialExpired" => sub'.start <= Horizon
<1>1. /\ sub \in SubRow /\ today \in 0 .. Horizon
      /\ sub.status = "TrialExpired" => sub.start <= Horizon
      /\ sub \in IntRow
    BY DEF Dated, LifeTypeOK, LInv, Shapes
<1>2. /\ sub.start \in 0 .. Horizon + 100 /\ sub.end \in 0 .. Horizon + 100
      /\ sub.until \in 0 .. Horizon + 100 /\ sub.trial \in 0 .. 50
      /\ Length[sub.plan] \in 1 .. 50
    <2>1. /\ sub.start \in Days /\ sub.end \in Days /\ sub.until \in Days
          /\ sub.trial \in 0 .. 50 /\ sub.plan \in Plans
        BY <1>1 DEF SubRow
    <2> QED
        BY <2>1, LifecycleAssumption, DayBounds
<1>3. CASE Kept(sub, sub', billed, billed')
    BY <1>1, <1>2, <1>3, DayBounds DEF Kept, SamePeriod
<1>4. CASE Advanced(sub, sub', billed, billed')
    <2>1. Follows(sub, sub') /\ sub.end <= today
        BY <1>4 DEF Advanced
    <2>2. PICK action \in CycleActions, end \in Int :
            /\ Cycles(sub, sub'.status, action, end)
            /\ sub'.end \in {sub.until, end}
        BY <2>1 DEF Follows
    <2>3. end \in {NoDate, sub.end + Length[sub.plan], sub.end + sub.trial}
        BY <2>2 DEF Cycles
    <2>4. sub'.start = sub.end /\ SameTerms(sub, sub')
        BY <2>1 DEF Follows
    <2>5. end \in Days
        <3> DEFINE l == Length[sub.plan]  d == sub.end  k == sub.trial
        <3>1. /\ d \in 0 .. Horizon /\ l \in 0 .. 50 /\ k \in 0 .. 50
              /\ end \in {NoDate, d + l, d + k}
            BY <1>1, <1>2, <2>1, <2>3, DayBounds
        <3> HIDE DEF l, d, k
        <3> QED
            BY <3>1, DayBounds
    <2> QED
        BY <1>1, <1>2, <2>1, <2>2, <2>4, <2>5, DayBounds
<1>5. CASE Stopped(sub, sub', billed, billed')
    <2>1. sub'.start \in 0 .. today
        BY <1>5, CancelledInTime DEF Stopped
    <2> QED
        BY <1>1, <1>5, <2>1, DayBounds DEF Stopped
<1>6. CASE GivenUp(sub, sub', billed, billed')
    BY <1>2, <1>6, DayBounds DEF GivenUp, SamePeriod
<1>7. CASE MadeActive(sub, sub', billed, billed') \/ TrialOver(sub, sub', billed, billed')
    BY <1>2, <1>7, DayBounds DEF MadeActive, TrialOver, SamePeriod
<1>8. CASE Restarted(sub, sub', billed, billed')
    BY <1>1, <1>8, DayBounds DEF Restarted
<1>9. CASE Reactivated(sub, sub', billed, billed')
    BY <1>1, <1>2, <1>9, DayBounds DEF Reactivated
<1> QED
    BY <1>3, <1>4, <1>5, <1>6, <1>7, <1>8, <1>9, RowMoves DEF RowMove

\* Every date billed by a step has come.
LEMMA BilledInTime ==
    ASSUME LInv, Dated, LifeNext
    PROVE  billed' \cup unbilled' \subseteq billed \cup unbilled \cup 0 .. today
<1>1. sub \in IntRow /\ sub \in SubRow /\ today \in 0 .. Horizon
    BY DEF LInv, Shapes, Dated, LifeTypeOK
<1>2. ASSUME NEW w \in CycleWorkers, CycleAdvances(w) \/ CycleChanges(w)
      PROVE  billed' \cup unbilled' \subseteq billed \cup unbilled \cup 0 .. today
    <2> DEFINE date == NextPeriod(sub).start
    <2>1. /\ sub.action # "None" /\ sub.end <= today
          /\ billed' \cup unbilled' \subseteq billed \cup unbilled \cup {date}
        BY <1>2 DEF CycleAdvances, CycleChanges, Transition, Due, Bill
    <2>2. date = sub.end
        BY <1>1, <2>1, NextPeriodIs DEF Follows
    <2> HIDE DEF date
    <2>3. sub.end \in 0 .. today
        BY <1>1, <2>1, DayBounds DEF SubRow
    <2> QED
        BY <2>1, <2>2, <2>3
<1>3. CASE \/ \E w \in CycleWorkers : CycleCancels(w)
           \/ \E v \in EventWorkers : RunCancel(v)
    BY <1>3, CancelledInTime
<1>4. ASSUME NEW p \in Plans, ChangePlanNow(p)
      PROVE  billed' \cup unbilled' \subseteq billed \cup unbilled \cup 0 .. today
    <2>1. billed' \cup unbilled' \subseteq billed \cup unbilled \cup {today}
        BY <1>4 DEF ChangePlanNow, Bill
    <2> QED
        BY <1>1, <2>1
<1>5. CASE UNCHANGED <<billed, unbilled>>
    BY <1>5
<1> QED
    BY <1>2, <1>3, <1>4, <1>5
    DEF LifeNext, ClaimDue, CycleSkips, CycleFails, CycleGone, ClaimExpires, BackoffEnds,
        ClaimEvent, RunPlanChange, RunAmendment, ReadTrial, EndTrial, WorkerGone, EventTimesOut,
        CancelBegin, CancelCommit, CancelAborts, UndoRead, UndoWrite, SchedulePlanChange,
        ScheduleAmendment, TrialPaid, NextDay

(***************************************************************************)
(* Claims and requests.                                                    *)
(***************************************************************************)

\* Time passes a day at a time, and not beyond the horizon.
LEMMA DayStep ==
    ASSUME LInv, Dated, LifeNext
    PROVE  today' \in 0 .. Horizon /\ today <= today'
<1>1. today \in 0 .. Horizon /\ Horizon \in Nat
    BY DayBounds DEF Dated, LifeTypeOK
<1>2. CASE NextDay
    BY <1>1, <1>2 DEF NextDay
<1>3. CASE today' = today
    BY <1>1, <1>3
<1> QED
    BY <1>2, <1>3
    DEF LifeNext, ClaimDue, CycleSkips, CycleAdvances, CycleCancels, CycleChanges, CycleFails,
        CycleGone, ClaimExpires, BackoffEnds, ClaimEvent, RunCancel, RunPlanChange, RunAmendment,
        ReadTrial, EndTrial, WorkerGone, EventTimesOut, CancelBegin, CancelCommit, CancelAborts,
        UndoRead, UndoWrite, SchedulePlanChange, ChangePlanNow, ScheduleAmendment, TrialPaid

\* A worker claims an event that is due, and works at the one it has claimed.
LEMMA ClaimsDue ==
    ASSUME LInv, LifeNext, NEW v \in EventWorkers, work'[v].step # "idle"
    PROVE  \/ work[v].step # "idle" /\ work'[v].event = work[v].event
           \/ /\ work'[v].event \in EventIds
              /\ event[work'[v].event].date <= today /\ Used(event[work'[v].event])
<1>1. work \in [EventWorkers -> [step : {"idle", "run", "patch"}, event : EventIds \cup {0}]]
    BY DEF LInv, Shapes
<1>2. ASSUME NEW u \in EventWorkers, NEW i \in EventIds, ClaimEvent(u, i)
      PROVE  \/ work'[v] = work[v]
             \/ work'[v].event = i /\ event[i].date <= today /\ Used(event[i])
    BY <1>1, <1>2 DEF ClaimEvent, Claimable, Used
<1>3. ASSUME NEW u \in EventWorkers, ReadTrial(u)
      PROVE  \/ work'[v] = work[v]
             \/ work[v].step # "idle" /\ work'[v].event = work[v].event
    BY <1>1, <1>3 DEF ReadTrial, Runs, Done, NoWork
<1>4. ASSUME NEW u \in EventWorkers, work' = [work EXCEPT ![u] = NoWork]
      PROVE  work'[v] = work[v]
    BY <1>1, <1>4 DEF NoWork
<1>5. CASE work' = work
    BY <1>5
<1> QED
    BY <1>2, <1>3, <1>4, <1>5
    DEF LifeNext, ClaimDue, CycleSkips, CycleAdvances, CycleCancels, CycleChanges, CycleFails,
        CycleGone, ClaimExpires, BackoffEnds, RunCancel, RunPlanChange, RunAmendment,
        EndTrial, WorkerGone, Done, EventTimesOut, CancelBegin, CancelCommit, CancelAborts,
        UndoRead, UndoWrite, SchedulePlanChange, ChangePlanNow, ScheduleAmendment, TrialPaid,
        NextDay

\* What is asked for is a date, and a cycle worker has claimed the subscription
\* or has not.
LEMMA RequestsDated ==
    ASSUME LInv, LInv', Dated, LifeNext
    PROVE  /\ request' \in [Users -> [op : {"none", "cancel", "undo"}, date : Days,
                                      events : SUBSET EventIds]]
           /\ cycle' \in [CycleWorkers -> {"idle", "claimed"}]
<1>1. /\ sub \in IntRow /\ today \in 0 .. Horizon /\ today \in Days /\ 0 \in Days
      /\ request \in [Users -> [op : {"none", "cancel", "undo"}, date : Days,
                                events : SUBSET EventIds]]
      /\ cycle \in [CycleWorkers -> {"idle", "claimed"}]
    BY DayBounds DEF LInv, Shapes, Dated, LifeTypeOK
<1>2. cycle' \in [CycleWorkers -> {"idle", "claimed"}]
    <2>1. CASE \/ cycle' = cycle
               \/ \E w \in CycleWorkers : ClaimDue(w) \/ LetGo(w)
        BY <1>1, <2>1 DEF ClaimDue, LetGo
    <2> QED
        BY <2>1
        DEF LifeNext, CycleSkips, CycleAdvances, CycleCancels, CycleChanges, CycleFails,
            CycleGone, ClaimExpires, BackoffEnds, ClaimEvent, RunCancel, RunPlanChange,
            RunAmendment, ReadTrial, EndTrial, WorkerGone, EventTimesOut, CancelBegin,
            CancelCommit, CancelAborts, UndoRead, UndoWrite, SchedulePlanChange, ChangePlanNow,
            ScheduleAmendment, TrialPaid, NextDay
<1>3. request' \in [Users -> [op : {"none", "cancel", "undo"}, date : Days,
                              events : SUBSET EventIds]]
    <2>1. ASSUME NEW u \in Users, NEW date \in {today, PeriodEnd}, CancelBegin(u, date)
          PROVE  request' \in [Users -> [op : {"none", "cancel", "undo"}, date : Days,
                                         events : SUBSET EventIds]]
        <3>1. date \in Days /\ Pending(LifecycleTypes) \in SUBSET EventIds
            BY <1>1, PeriodEndDated DEF Pending
        <3> QED
            BY <1>1, <2>1, <3>1 DEF CancelBegin
    <2>2. ASSUME NEW u \in Users, \/ CancelCommit(u) \/ CancelAborts(u) \/ UndoWrite(u)
                                  \/ \E i \in EventIds : UndoRead(u, i)
          PROVE  request' \in [Users -> [op : {"none", "cancel", "undo"}, date : Days,
                                         events : SUBSET EventIds]]
        BY <1>1, <2>2 DEF CancelCommit, CancelAborts, UndoWrite, UndoRead, Close, NoRequest
    <2>3. CASE request' = request
        BY <1>1, <2>3
    <2> QED
        BY <2>1, <2>2, <2>3
        DEF LifeNext, ClaimDue, CycleSkips, CycleAdvances, CycleCancels, CycleChanges, CycleFails,
            CycleGone, ClaimExpires, BackoffEnds, ClaimEvent, RunCancel, RunPlanChange,
            RunAmendment, ReadTrial, EndTrial, WorkerGone, EventTimesOut, SchedulePlanChange,
            ChangePlanNow, ScheduleAmendment, TrialPaid, NextDay
<1> QED
    BY <1>2, <1>3

LEMMA DatedPreserved ==
    ASSUME LInv, LInv', Known, Dated, LifeNext
    PROVE  Dated'
<1>1. EventsKept
    BY StepKeepsEvents
<1>2. today' \in 0 .. Horizon /\ today <= today' /\ today \in 0 .. Horizon
    BY DayStep DEF Dated, LifeTypeOK
<1>3. sub' \in SubRow /\ (sub'.status = "TrialExpired" => sub'.start <= Horizon)
    <2>1. sub \in SubRow /\ sub' \in IntRow
        BY DEF Dated, LifeTypeOK, LInv, Shapes
    <2>2. /\ sub'.start \in Days /\ sub'.end \in Days /\ sub'.until = sub.until
          /\ sub'.trial = sub.trial
          /\ sub'.status = "TrialExpired" => sub'.start <= Horizon
        BY PeriodDated DEF SameTerms
    <2>3. sub'.errors \in Nat
        BY <2>1, ErrorsCounted DEF SubRow
    <2>4. sub'.until \in Days /\ sub'.trial \in 0 .. 50
        BY <2>1, <2>2 DEF SubRow
    <2>5. sub' \in SubRow
        BY <2>1, <2>2, <2>3, <2>4 DEF IntRow, SubRow
    <2> QED
        BY <2>2, <2>5
<1>4. billed' \cup unbilled' \subseteq 0 .. today' \cup {s.start : s \in Starts}
    <2>1. billed \cup unbilled \subseteq 0 .. today \cup {s.start : s \in Starts}
        BY DEF Dated, LifeTypeOK
    <2>2. 0 .. today \subseteq 0 .. today'
        BY <1>2
    <2> QED
        BY <2>1, <2>2, BilledInTime
<1>5. ASSUME NEW v \in EventWorkers, work'[v].step # "idle"
      PROVE  event'[work'[v].event].date <= today'
    <2> DEFINE i == work'[v].event
    <2>1. i \in EventIds /\ event[i].date <= today /\ Used(event[i])
        BY <1>5, ClaimsDue DEF Dated, Known, LInv, Shapes
    <2> HIDE DEF i
    <2>2. event'[i].date \in {event[i].date, 0, today}
        BY <1>1, <2>1 DEF EventsKept, Redated
    <2>3. event[i].date \in Int
        BY <2>1 DEF LInv, Shapes, IntEvents, IntEvent
    <2>4. event'[i].date <= today'
        BY <1>2, <2>1, <2>2, <2>3
    <2> QED
        BY <2>4 DEF i
<1>6. work' \in [EventWorkers -> [step : {"idle", "run", "patch"}, event : EventIds \cup {0}]]
    BY DEF LInv, Shapes
<1> QED
    BY <1>1, <1>2, <1>3, <1>4, <1>5, <1>6, RequestsDated
    DEF Dated, LifeTypeOK, EventsKept, DayEvents

LEMMA InitDated == LifeInit => Dated
<1> SUFFICES ASSUME LifeInit PROVE Dated
    OBVIOUS
<1>1. sub \in SubRow /\ Inserted(sub) /\ sub \in Starts /\ today = 0
    BY LifecycleAssumption DEF LifeInit
<1>2. event \in DayEvents
    <2>1. "absent" \in EventStatus /\ "EndTrial" \in EventTypes
        BY DEF EventStatus, EventTypes
    <2>2. Over([type |-> "EndTrial"], "absent") \in EventRow
        BY <2>1, OverDated
    <2>3. sub.start + sub.trial \in Days
        <3> DEFINE d == sub.start  k == sub.trial
        <3>1. d \in Days /\ k \in 0 .. 50 /\ d + k < NoDate
            BY <1>1 DEF Inserted, SubRow
        <3> HIDE DEF d, k
        <3>2. d + k \in Days
            BY <3>1, DayBounds
        <3> QED
            BY <3>2 DEF d, k
    <2>4. NewEvent("EndTrial", sub.start + sub.trial, AnyPlan, AnyPlan) \in EventRow
        BY <2>1, <2>3, PlanExists, NewEventDated
    <2> QED
        BY <2>2, <2>4 DEF LifeInit, DayEvents
<1>3. sub.status # "TrialExpired"
    BY <1>1 DEF Inserted
<1>4. /\ cycle \in [CycleWorkers -> {"idle", "claimed"}]
      /\ work \in [EventWorkers -> [step : {"idle", "run", "patch"}, event : EventIds \cup {0}]]
      /\ \A v \in EventWorkers : work[v].step = "idle"
    BY DEF LifeInit, NoWork
<1>5. request \in [Users -> [op : {"none", "cancel", "undo"}, date : Days,
                             events : SUBSET EventIds]]
    BY DayBounds DEF LifeInit, NoRequest
<1>6. billed \cup unbilled \subseteq {s.start : s \in Starts}
    BY <1>1 DEF LifeInit
<1> QED
    BY <1>1, <1>2, <1>3, <1>4, <1>5, <1>6, DayBounds DEF Dated, LifeTypeOK, DayEvents

\* Every variable has its type, and no invoice but the first is dated ahead of
\* its day: an event is claimed when it is due, and keeps that date or an
\* earlier one while it is worked at.
THEOREM LifeTypeCorrect == LifeSpec => []LifeTypeOK
<1>1. LInv /\ LInv' /\ Known /\ Dated /\ [LifeNext]_lifeVars => Dated'
    <2>1. Dated /\ UNCHANGED lifeVars => Dated'
        BY DEF Dated, LifeTypeOK, lifeVars
    <2> QED
        BY <2>1, DatedPreserved
<1>2. LifeInv => LInv /\ Known
    BY DEF LifeInv
<1>3. Dated => LifeTypeOK
    BY DEF Dated
<1> QED
    BY <1>1, <1>2, <1>3, InitDated, LifeInvariant, PTL DEF LifeSpec

-----------------------------------------------------------------------------
(***************************************************************************)
(* The seats.                                                              *)
(***************************************************************************)

\* What a row adds before moment t.
PartOf(r, t) == IF r.status = "Active" /\ r.effective < t THEN r.delta ELSE 0

\* The changes in effect before moment t.
ChangesBefore(rows, t) ==
    SumFunctionOnSet([i \in SeatRowIds |-> PartOf(rows[i], t)], SeatRowIds)

SeatsBefore(t) == InitialSeats + ChangesBefore(seatRow, t)

Written(i) == seatRow[i].status \in {"Pending", "Active"}

\* The row a subscription starts with stays, whatever was written has its
\* moment behind it, and only what adds seats waits for a payment.
RowsSound ==
    /\ seatRow[0].status = "Active" /\ seatRow[0].effective = 0 /\ seatRow[0].at = 0
    /\ \A i \in SeatRowIds : Written(i) => seatRow[i].at <= moment
    /\ \A i \in SeatRowIds : seatRow[i].status = "Pending" => seatRow[i].delta > 0

\* What an open request has read does not disappear.
RequestsSound ==
    \A c \in Clients : seatReq[c].open =>
        /\ seatReq[c].delta # 0
        /\ seatReq[c].delta < 0 => seatReq[c].mode = "optimistic"
        /\ seatReq[c].at <= moment
        /\ \A p \in seatReq[c].seen : seatRow[p[1]].status # "absent"

\* Unless something came late: what is not in effect is a reduction that waits
\* for the end of the period, and so is what a request of this period asks for.
EffectsInTime ==
    /\ \A i \in SeatRowIds : seatRow[i].status = "Active" =>
          \/ seatRow[i].effective <= moment
          \/ seatRow[i].delta < 0 /\ seatRow[i].effective = periodEnd
    /\ \A c \in Clients : seatReq[c].open =>
          \/ seatReq[c].delta > 0 /\ seatReq[c].effective = seatReq[c].at
          \/ /\ seatReq[c].delta < 0 /\ seatReq[c].at < seatReq[c].effective
             /\ \/ seatReq[c].effective = periodEnd
                \/ seatReq[c].effective <= periodEnd - PeriodLength

\* Unless something came late: nobody counted more than what was bought before.
RowBounded(i) == Written(i) => seatRow[i].prev <= SeatsBefore(seatRow[i].at)
RequestBounded(c) == seatReq[c].open => seatReq[c].prev <= SeatsBefore(seatReq[c].at)
CountsBounded ==
    /\ \A i \in SeatRowIds : RowBounded(i)
    /\ \A c \in Clients : RequestBounded(c)

\* No row was written since the request read them.
NothingNew(c) ==
    \A i \in SeatRowIds : seatRow[i].status # "absent" => \E p \in seatReq[c].seen : p[1] = i

\* Unless something irregular happened: every row counted exactly what was
\* bought before it, and so did a request nobody has overtaken.
RowExact(i) == Written(i) => seatRow[i].prev = SeatsBefore(seatRow[i].at)
RequestExact(c) ==
    seatReq[c].open /\ NothingNew(c) =>
        /\ seatReq[c].prev = SeatsBefore(seatReq[c].at)
        /\ \A i \in SeatRowIds : Written(i) => seatRow[i].at < seatReq[c].at
CountsExact ==
    /\ \A i \in SeatRowIds : RowExact(i)
    /\ \A c \in Clients : RequestExact(c)

SeatInv ==
    /\ SlotsTypeOK
    /\ RowsSound
    /\ RequestsSound
    /\ "late" \notin irregular => EffectsInTime /\ CountsBounded
    /\ irregular = {} => CountsExact

LEMMA SeatRowsFinite == IsFiniteSet(SeatRowIds)
BY FS_Interval, SlotsAssumption DEF SeatRowIds

\* The parts of rows whose changes are integers can be summed.
LEMMA PartsSummable ==
    ASSUME NEW rows, \A i \in SeatRowIds : rows[i].delta \in Int, NEW t
    PROVE  Summable([i \in SeatRowIds |-> PartOf(rows[i], t)], SeatRowIds)
BY SeatRowsFinite DEF Summable, PartOf

\* Changes before a moment are bounded by those before another if each row's
\* part is, and equal if it is equal.
LEMMA ChangesCompared ==
    ASSUME NEW rows, NEW t, \A i \in SeatRowIds : rows[i].delta \in Int,
           NEW rows2, NEW t2, \A i \in SeatRowIds : rows2[i].delta \in Int
    PROVE  /\ ChangesBefore(rows, t) \in Int
           /\ (\A i \in SeatRowIds : PartOf(rows[i], t) <= PartOf(rows2[i], t2))
                => ChangesBefore(rows, t) <= ChangesBefore(rows2, t2)
           /\ (\A i \in SeatRowIds : PartOf(rows[i], t) = PartOf(rows2[i], t2))
                => ChangesBefore(rows, t) = ChangesBefore(rows2, t2)
<1> DEFINE f == [i \in SeatRowIds |-> PartOf(rows[i], t)]
           g == [i \in SeatRowIds |-> PartOf(rows2[i], t2)]
<1>1. Summable(f, SeatRowIds) /\ Summable(g, SeatRowIds)
  BY PartsSummable
<1>2. ChangesBefore(rows, t) = SumFunctionOnSet(f, SeatRowIds)
  BY DEF ChangesBefore
<1>3. ChangesBefore(rows2, t2) = SumFunctionOnSet(g, SeatRowIds)
  BY DEF ChangesBefore
<1>4. /\ DOMAIN g = SeatRowIds
      /\ \A i \in SeatRowIds : f[i] = PartOf(rows[i], t) /\ g[i] = PartOf(rows2[i], t2)
  OBVIOUS
<1> HIDE DEF f, g
<1>5. SumFunctionOnSet(f, SeatRowIds) \in Int
  BY <1>1, SumInt
<1>6. ASSUME \A i \in SeatRowIds : PartOf(rows[i], t) <= PartOf(rows2[i], t2)
      PROVE  ChangesBefore(rows, t) <= ChangesBefore(rows2, t2)
  BY <1>1, <1>2, <1>3, <1>4, <1>6, SumMonotone
<1>7. ASSUME \A i \in SeatRowIds : PartOf(rows[i], t) = PartOf(rows2[i], t2)
      PROVE  ChangesBefore(rows, t) = ChangesBefore(rows2, t2)
  BY <1>1, <1>2, <1>3, <1>4, <1>7, SumSame
<1> QED BY <1>2, <1>5, <1>6, <1>7

\* What the types say of a row.
LEMMA SeatRowTyped ==
    ASSUME SlotsTypeOK
    PROVE  /\ \A i \in SeatRowIds : /\ seatRow[i].delta \in Int /\ seatRow[i].prev \in Int
                                    /\ seatRow[i].effective \in Nat /\ seatRow[i].at \in Nat
           /\ moment \in Nat /\ periodEnd \in Nat
<1>1. ASSUME NEW i \in SeatRowIds
      PROVE  seatRow[i] \in [status : SeatStatuses, delta : Changes \cup {0}, prev : Int,
                             effective : Moments, at : Moments]
  BY <1>1 DEF SlotsTypeOK
<1>2. Changes \cup {0} \subseteq Int /\ Moments \subseteq Nat
  BY SlotsAssumption DEF Moments
<1>3. moment \in Nat /\ periodEnd \in Nat
  BY <1>2 DEF SlotsTypeOK
<1> QED BY <1>1, <1>2, <1>3

\* The changes in effect between two moments.
LEMMA ChangesBetween ==
    ASSUME SlotsTypeOK, NEW s \in Nat, NEW t \in Nat, s <= t + 1
    PROVE  SumOfChanges({i \in ActiveSeats : seatRow[i].effective \in s .. t})
              = ChangesBefore(seatRow, t + 1) - ChangesBefore(seatRow, s)
<1> DEFINE T == {i \in ActiveSeats : seatRow[i].effective \in s .. t}
           d == [i \in SeatRowIds |-> seatRow[i].delta]
           m == [i \in SeatRowIds |-> IF i \in T THEN seatRow[i].delta ELSE 0]
           f == [i \in SeatRowIds |-> PartOf(seatRow[i], s)]
           g == [i \in SeatRowIds |-> PartOf(seatRow[i], t + 1)]
<1>1. T \subseteq SeatRowIds
  BY DEF ActiveSeats
<1>2. Summable(d, T)
  BY <1>1, SeatRowsFinite, FS_Subset, SeatRowTyped DEF Summable
<1>3. Summable(f, SeatRowIds) /\ Summable(g, SeatRowIds)
  BY PartsSummable, SeatRowTyped
<1>4. Summable(m, SeatRowIds) /\ SumFunctionOnSet(m, SeatRowIds) = SumFunctionOnSet(d, T)
  <2>1. \A i \in SeatRowIds : m[i] = IF i \in T THEN d[i] ELSE 0
    OBVIOUS
  <2>2. SeatRowIds \subseteq DOMAIN m
    OBVIOUS
  <2> HIDE DEF T, d, m
  <2> QED BY <1>1, <1>2, <2>1, <2>2, SeatRowsFinite, SumMask
<1>5. \A i \in SeatRowIds : g[i] = f[i] + m[i]
  BY SeatRowTyped DEF PartOf, ActiveSeats
<1>6. SumFunctionOnSet(g, SeatRowIds)
        = SumFunctionOnSet(f, SeatRowIds) + SumFunctionOnSet(m, SeatRowIds)
  <2>1. SeatRowIds \subseteq DOMAIN g
    OBVIOUS
  <2> HIDE DEF f, g, m
  <2> QED BY <1>3, <1>4, <1>5, <2>1, SumPlus
<1>7. /\ SumFunctionOnSet(f, SeatRowIds) \in Int
      /\ SumFunctionOnSet(m, SeatRowIds) \in Int
  <2> HIDE DEF f, m
  <2> QED BY <1>3, <1>4, SumInt
<1>8. /\ SumOfChanges(T) = SumFunctionOnSet(d, T)
      /\ ChangesBefore(seatRow, s) = SumFunctionOnSet(f, SeatRowIds)
      /\ ChangesBefore(seatRow, t + 1) = SumFunctionOnSet(g, SeatRowIds)
  BY DEF SumOfChanges, ChangesBefore
<1> HIDE DEF T, d, m, f, g
<1>9. SumOfChanges(T) = ChangesBefore(seatRow, t + 1) - ChangesBefore(seatRow, s)
  BY <1>4, <1>6, <1>7, <1>8
<1> QED BY <1>9 DEF T

\* Nothing is in effect before the first moment.
LEMMA NothingBefore ==
    ASSUME SlotsTypeOK
    PROVE  ChangesBefore(seatRow, 0) = 0
<1> DEFINE f == [i \in SeatRowIds |-> PartOf(seatRow[i], 0)]
<1>1. Summable(f, SeatRowIds)
  BY PartsSummable, SeatRowTyped
<1>2. \A i \in SeatRowIds : f[i] = 0
  BY SeatRowTyped DEF PartOf
<1>3. ChangesBefore(seatRow, 0) = SumFunctionOnSet(f, SeatRowIds)
  BY DEF ChangesBefore
<1> HIDE DEF f
<1> QED BY <1>1, <1>2, <1>3, SumZero

\* What is bought and in effect.
LEMMA BoughtIs ==
    ASSUME SlotsTypeOK
    PROVE  SeatsBought = SeatsBefore(moment + 1) /\ SeatsBought \in Int
<1> DEFINE T == {i \in ActiveSeats : seatRow[i].effective <= moment}
           U == {i \in ActiveSeats : seatRow[i].effective \in 0 .. moment}
<1>1. T = U
  BY SeatRowTyped DEF ActiveSeats
<1>2. SumOfChanges(U) = ChangesBefore(seatRow, moment + 1) - ChangesBefore(seatRow, 0)
  BY ChangesBetween, SeatRowTyped
<1>3. ChangesBefore(seatRow, moment + 1) \in Int
  BY ChangesCompared, SeatRowTyped
<1>4. SumOfChanges(T) = ChangesBefore(seatRow, moment + 1)
  <2> HIDE DEF T, U
  <2> QED BY <1>1, <1>2, <1>3, NothingBefore
<1> QED BY <1>3, <1>4, SlotsAssumption DEF SeatsBought, SeatsBefore

\* Of the transactions in effect or waiting there is a latest.
LEMMA LatestFound ==
    ASSUME SlotsTypeOK, NEW T \in SUBSET SeatRowIds, T # {}
    PROVE  LatestOf(T) \in T
<1> DEFINE last == LastMoment + PeriodLength
           S == {last - seatRow[i].at : i \in T}
<1>1. \A i \in SeatRowIds : seatRow[i].at \in 0 .. last
  BY DEF SlotsTypeOK, Moments
<1>2. S \subseteq Nat /\ S # {}
  BY <1>1, SlotsAssumption
<1>3. PICK z \in S : \A y \in S : z <= y
  <2> HIDE DEF S
  <2> QED BY <1>2, LeastOf
<1>4. PICK i \in T : z = last - seatRow[i].at
  BY <1>3
<1>5. ASSUME NEW j \in T PROVE seatRow[j].at <= seatRow[i].at
  <2>1. last - seatRow[j].at \in S
    OBVIOUS
  <2>2. last - seatRow[i].at <= last - seatRow[j].at
    BY <1>3, <1>4, <2>1
  <2>3. seatRow[i].at \in Nat /\ seatRow[j].at \in Nat /\ last \in Nat
    BY <1>1, SlotsAssumption
  <2> HIDE DEF last, S
  <2> QED BY <2>2, <2>3
<1> QED BY <1>5 DEF LatestOf

\* The count at a moment: what some active row counted, and
\* the changes since.
LEMMA SeatsAtIs ==
    ASSUME SlotsTypeOK, RowsSound, NEW t \in Nat
    PROVE  \E i \in SeatRowIds :
              /\ seatRow[i].status = "Active"
              /\ SeatsAt(t) = seatRow[i].prev + (ChangesBefore(seatRow, t + 1)
                                                 - ChangesBefore(seatRow, seatRow[i].at))
<1> DEFINE T == {i \in ActiveSeats : seatRow[i].at <= t}
           l == LatestOf(T)
           U == {i \in ActiveSeats : seatRow[i].effective \in seatRow[l].at .. t}
<1>1. 0 \in T /\ T \subseteq SeatRowIds
  BY SeatRowTyped, SlotsAssumption DEF RowsSound, ActiveSeats, SeatRowIds, Written
<1>2. l \in T
  <2> HIDE DEF T
  <2> QED BY <1>1, LatestFound
<1>3. l \in SeatRowIds /\ seatRow[l].status = "Active" /\ seatRow[l].at <= t
  BY <1>2 DEF ActiveSeats
<1>4. SeatsAt(t) = seatRow[l].prev + SumOfChanges(U)
  BY <1>1 DEF SeatsAt
<1> HIDE DEF l
<1>5. seatRow[l].at \in Nat /\ seatRow[l].at <= t + 1
  BY <1>3, SeatRowTyped
<1>6. SumOfChanges(U) = ChangesBefore(seatRow, t + 1) - ChangesBefore(seatRow, seatRow[l].at)
  BY <1>5, ChangesBetween
<1> HIDE DEF U
<1> QED BY <1>3, <1>4, <1>6

\* The count is a number, at most what is bought by then, and exactly that if
\* all rows have counted so.
LEMMA CountIs ==
    ASSUME SlotsTypeOK, RowsSound, NEW t \in Nat
    PROVE  /\ SeatsAt(t) \in Int
           /\ (\A i \in SeatRowIds : RowBounded(i))
                => SeatsAt(t) <= SeatsBefore(t + 1)
           /\ (\A i \in SeatRowIds : RowExact(i))
                => SeatsAt(t) = SeatsBefore(t + 1)
<1>1. PICK i \in SeatRowIds :
              /\ seatRow[i].status = "Active"
              /\ SeatsAt(t) = seatRow[i].prev + (ChangesBefore(seatRow, t + 1)
                                                 - ChangesBefore(seatRow, seatRow[i].at))
  BY SeatsAtIs
<1>2. seatRow[i].prev \in Int /\ Written(i) /\ InitialSeats \in Int
  BY <1>1, SeatRowTyped, SlotsAssumption DEF Written
<1>3. ChangesBefore(seatRow, t + 1) \in Int /\ ChangesBefore(seatRow, seatRow[i].at) \in Int
  BY ChangesCompared, SeatRowTyped
<1> QED BY <1>1, <1>2, <1>3 DEF SeatsBefore, RowBounded, RowExact

-----------------------------------------------------------------------------

\* A subscription begins with one row, which counts the seats it begins with.
LEMMA SeatInvInit == SlotsInit => SeatInv
<1> SUFFICES ASSUME SlotsInit PROVE SeatInv
  OBVIOUS
<1> USE SlotsAssumption
<1>1. SlotsTypeOK
  <2>1. moment \in 0 .. LastMoment /\ periodEnd \in Moments /\ 0 \in Moments
    BY DEF SlotsInit, Moments
  <2>2. ASSUME NEW i \in SeatRowIds
        PROVE  seatRow[i] \in [status : SeatStatuses, delta : Changes \cup {0}, prev : Int,
                               effective : Moments, at : Moments]
    <3> DEFINE Rows == [status : SeatStatuses, delta : Changes \cup {0}, prev : Int,
                        effective : Moments, at : Moments]
    <3>1. seatRow[i] = IF i = 0 THEN [Unwritten EXCEPT !.status = "Active", !.prev = InitialSeats]
                       ELSE Unwritten
      BY DEF SlotsInit
    <3>2. Unwritten \in Rows
      BY <2>1 DEF Unwritten, SeatStatuses
    <3>3. InitialSeats \in Int /\ "Active" \in SeatStatuses
      BY DEF SeatStatuses
    <3>4. [Unwritten EXCEPT !.status = "Active", !.prev = InitialSeats] \in Rows
      BY <3>2, <3>3
    <3> QED BY <3>1, <3>2, <3>4
  <2>3. NoSeatReq \in [open : BOOLEAN, delta : Changes \cup {0}, mode : SeatModes,
                       at : Moments, effective : Moments, prev : Int,
                       seen : SUBSET (SeatRowIds \X SeatStatuses)]
    BY <2>1 DEF NoSeatReq, SeatModes
  <2> QED BY <2>1, <2>2, <2>3 DEF SlotsInit, SlotsTypeOK
<1>2. /\ RowsSound
      /\ \A i \in SeatRowIds : Written(i) => i = 0
      /\ seatRow[0].prev = InitialSeats /\ seatRow[0].at = 0
  <2>1. 0 \in SeatRowIds /\ moment = 0
    BY DEF SlotsInit, SeatRowIds
  <2>2. seatRow[0] = [status |-> "Active", delta |-> 0, prev |-> InitialSeats,
                      effective |-> 0, at |-> 0]
    BY <2>1 DEF SlotsInit, Unwritten
  <2>3. \A i \in SeatRowIds : i # 0 => seatRow[i].status = "absent"
    BY DEF SlotsInit, Unwritten
  <2> QED BY <2>1, <2>2, <2>3 DEF RowsSound, Written
<1>3. \A c \in Clients : ~ seatReq[c].open
  BY DEF SlotsInit, NoSeatReq
<1>4. EffectsInTime
  <2>1. \A i \in SeatRowIds : seatRow[i].status = "Active" => seatRow[i].effective = 0
    BY <1>2 DEF RowsSound, Written
  <2> QED BY <1>3, <2>1 DEF EffectsInTime, SlotsInit
<1>5. SeatsBefore(0) = InitialSeats
  BY <1>1, NothingBefore DEF SeatsBefore
<1>6. CountsBounded /\ CountsExact
  BY <1>2, <1>3, <1>5
  DEF CountsBounded, CountsExact, RowBounded, RowExact, RequestBounded, RequestExact
<1> QED BY <1>1, <1>2, <1>3, <1>4, <1>6 DEF SeatInv, RequestsSound

\* What is bought before a past moment stays if the rows' parts do.
LEMMA PastKept ==
    ASSUME SlotsTypeOK, SlotsTypeOK', NEW s,
           \A i \in SeatRowIds : PartOf(seatRow'[i], s) = PartOf(seatRow[i], s)
    PROVE  ChangesBefore(seatRow', s) = ChangesBefore(seatRow, s)
<1>1. \A i \in SeatRowIds : seatRow[i].delta \in Int
  BY SeatRowTyped
<1>2. \A i \in SeatRowIds : seatRow'[i].delta \in Int
  <2>1. \A i \in SeatRowIds : seatRow'[i].delta \in Changes \cup {0}
    BY DEF SlotsTypeOK
  <2>2. Changes \cup {0} \subseteq Int
    BY SlotsAssumption
  <2> QED BY <2>1, <2>2
<1> QED BY <1>1, <1>2, ChangesCompared

\* Rows keep counting right when what is past is left as it is.
LEMMA RowsKept ==
    ASSUME SeatInv, SlotsTypeOK',
           \A i \in SeatRowIds, s \in 0 .. moment : PartOf(seatRow'[i], s) = PartOf(seatRow[i], s),
           NEW i \in SeatRowIds,
           Written(i)' => Written(i) /\ seatRow'[i].prev = seatRow[i].prev
                                     /\ seatRow'[i].at = seatRow[i].at
    PROVE  /\ RowBounded(i) => RowBounded(i)'
           /\ RowExact(i) => RowExact(i)'
<1>1. Written(i)' => seatRow[i].at \in 0 .. moment
  BY SeatRowTyped DEF SeatInv, RowsSound
<1>2. Written(i)' => ChangesBefore(seatRow', seatRow[i].at) = ChangesBefore(seatRow, seatRow[i].at)
  BY <1>1, PastKept DEF SeatInv
<1> QED BY <1>2 DEF RowBounded, RowExact, SeatsBefore

\* So does an open request.
LEMMA RequestsKept ==
    ASSUME SeatInv, SlotsTypeOK',
           \A i \in SeatRowIds, s \in 0 .. moment : PartOf(seatRow'[i], s) = PartOf(seatRow[i], s),
           \A i \in SeatRowIds : Written(i)' => Written(i) /\ seatRow'[i].at = seatRow[i].at,
           \A i \in SeatRowIds : seatRow[i].status # "absent" => seatRow'[i].status # "absent",
           NEW c \in Clients, seatReq'[c].open => seatReq'[c] = seatReq[c]
    PROVE  /\ RequestBounded(c) => RequestBounded(c)'
           /\ RequestExact(c) => RequestExact(c)'
<1>1. seatReq'[c].open => seatReq[c].at \in 0 .. moment
  BY DEF SeatInv, RequestsSound, SlotsTypeOK, Moments
<1>2. seatReq'[c].open => ChangesBefore(seatRow', seatReq[c].at) = ChangesBefore(seatRow, seatReq[c].at)
  BY <1>1, PastKept DEF SeatInv
<1>3. seatReq'[c].open /\ NothingNew(c)' => NothingNew(c)
  BY DEF NothingNew
<1> QED BY <1>2, <1>3 DEF RequestBounded, RequestExact, SeatsBefore

\* A step that leaves the past as it is, begins no request and writes no row.
LEMMA PastStep ==
    ASSUME SeatInv, SlotsTypeOK', UNCHANGED irregular, moment <= moment',
           \A i \in SeatRowIds, s \in 0 .. moment : PartOf(seatRow'[i], s) = PartOf(seatRow[i], s),
           \A i \in SeatRowIds : Written(i)' => Written(i) /\ seatRow'[i].prev = seatRow[i].prev
                                                           /\ seatRow'[i].at = seatRow[i].at,
           \A i \in SeatRowIds : seatRow[i].status # "absent" => seatRow'[i].status # "absent",
           \A c \in Clients : seatReq'[c].open => seatReq'[c] = seatReq[c],
           RowsSound', "late" \notin irregular => EffectsInTime'
    PROVE  SeatInv'
<1>1. \A i \in SeatRowIds : (RowBounded(i) => RowBounded(i)') /\ (RowExact(i) => RowExact(i)')
  BY RowsKept
<1>2. \A c \in Clients : /\ RequestBounded(c) => RequestBounded(c)'
                         /\ RequestExact(c) => RequestExact(c)'
  BY RequestsKept
<1>3. RequestsSound'
  <2> SUFFICES ASSUME NEW c \in Clients, seatReq'[c].open
               PROVE  /\ seatReq'[c].delta # 0
                      /\ seatReq'[c].delta < 0 => seatReq'[c].mode = "optimistic"
                      /\ seatReq'[c].at <= moment'
                      /\ \A p \in seatReq'[c].seen : seatRow'[p[1]].status # "absent"
    BY DEF RequestsSound
  <2>1. /\ seatReq'[c] = seatReq[c]
        /\ seatReq[c].at \in Nat /\ moment \in Nat /\ moment' \in Nat
        /\ \A p \in seatReq[c].seen : p[1] \in SeatRowIds
    BY DEF SeatInv, SlotsTypeOK, Moments
  <2> QED BY <2>1 DEF SeatInv, RequestsSound
<1>4. CountsBounded => CountsBounded'
  BY <1>1, <1>2 DEF CountsBounded
<1>5. CountsExact => CountsExact'
  BY <1>1, <1>2 DEF CountsExact
<1> QED BY <1>3, <1>4, <1>5 DEF SeatInv

-----------------------------------------------------------------------------
(* The steps.                                                              *)

SeatRowSet == [status : SeatStatuses, delta : Changes \cup {0}, prev : Int,
               effective : Moments, at : Moments]
SeatReqSet == [open : BOOLEAN, delta : Changes \cup {0}, mode : SeatModes,
               at : Moments, effective : Moments, prev : Int,
               seen : SUBSET (SeatRowIds \X SeatStatuses)]

LEMMA NoSeatReqTyped == NoSeatReq \in SeatReqSet /\ ~ NoSeatReq.open
<1>1. 0 \in Moments
  BY SlotsAssumption DEF Moments
<1> QED BY <1>1 DEF NoSeatReq, SeatReqSet, SeatModes

\* The clock and the period go on.
LEMMA ClockTyped ==
    ASSUME SlotsTypeOK
    PROVE  /\ Tick => moment' \in 0 .. LastMoment /\ moment' = moment + 1
           /\ moment \in 0 .. LastMoment /\ periodEnd \in Moments
           /\ \A t \in 0 .. LastMoment : t \in Moments
           /\ moment >= periodEnd => periodEnd + PeriodLength \in Moments
           /\ moment \in Nat /\ periodEnd \in Nat /\ PeriodLength \in Nat \ {0}
BY SlotsAssumption DEF SlotsTypeOK, Tick, Moments

\* The clock ticks, a period begins, or nothing happens.
LEMMA QuietStep ==
    ASSUME SeatInv, UNCHANGED <<seatRow, irregular>>,
           \A c \in Clients : seatReq'[c].open => seatReq'[c] = seatReq[c],
           seatReq' \in [Clients -> SeatReqSet],
           \/ UNCHANGED <<moment, periodEnd>>
           \/ Tick /\ UNCHANGED periodEnd
           \/ moment >= periodEnd /\ periodEnd' = periodEnd + PeriodLength /\ UNCHANGED moment
    PROVE  SeatInv'
<1>1. SlotsTypeOK'
  BY ClockTyped DEF SeatInv, SlotsTypeOK, SeatReqSet
<1>2. moment <= moment'
  BY ClockTyped DEF SeatInv
<1>3. RowsSound'
  <2>1. \A i \in SeatRowIds : seatRow[i].at \in Nat
    BY SeatRowTyped DEF SeatInv
  <2>2. moment \in Nat /\ moment' \in Nat
    BY ClockTyped DEF SeatInv
  <2> QED BY <1>2, <2>1, <2>2 DEF SeatInv, RowsSound, Written
<1>4. ASSUME "late" \notin irregular PROVE EffectsInTime'
  <2>0. EffectsInTime
    BY <1>4 DEF SeatInv
  <2>1. ASSUME NEW i \in SeatRowIds, seatRow'[i].status = "Active"
        PROVE  \/ seatRow'[i].effective <= moment'
               \/ seatRow'[i].delta < 0 /\ seatRow'[i].effective = periodEnd'
    <3>1. /\ seatRow'[i] = seatRow[i] /\ seatRow[i].effective \in Nat
          /\ seatRow[i].delta \in Int
      BY SeatRowTyped DEF SeatInv
    <3>2. \/ seatRow[i].effective <= moment
          \/ seatRow[i].delta < 0 /\ seatRow[i].effective = periodEnd
      BY <2>0, <2>1, <3>1 DEF EffectsInTime
    <3> QED BY <1>2, <3>1, <3>2, ClockTyped DEF SeatInv
  <2>2. ASSUME NEW c \in Clients, seatReq'[c].open
        PROVE  \/ seatReq'[c].delta > 0 /\ seatReq'[c].effective = seatReq'[c].at
               \/ /\ seatReq'[c].delta < 0 /\ seatReq'[c].at < seatReq'[c].effective
                  /\ \/ seatReq'[c].effective = periodEnd'
                     \/ seatReq'[c].effective <= periodEnd' - PeriodLength
    <3>1. seatReq'[c] = seatReq[c] /\ seatReq[c].effective \in Nat
      BY <2>2 DEF SeatInv, SlotsTypeOK, Moments
    <3>2. \/ seatReq[c].delta > 0 /\ seatReq[c].effective = seatReq[c].at
          \/ /\ seatReq[c].delta < 0 /\ seatReq[c].at < seatReq[c].effective
             /\ \/ seatReq[c].effective = periodEnd
                \/ seatReq[c].effective <= periodEnd - PeriodLength
      BY <2>0, <2>2, <3>1 DEF EffectsInTime
    <3>3. /\ periodEnd \in Nat /\ PeriodLength \in Nat
          /\ periodEnd' = periodEnd \/ periodEnd' = periodEnd + PeriodLength
      BY ClockTyped DEF SeatInv
    <3> QED BY <3>1, <3>2, <3>3
  <2> QED BY <2>1, <2>2 DEF EffectsInTime
<1>5. UNCHANGED <<seatRow, irregular>>
  OBVIOUS
<1>6. \A i \in SeatRowIds : Written(i)' <=> Written(i)
  BY DEF Written
<1> QED BY <1>1, <1>2, <1>3, <1>4, <1>6, PastStep

\* A pending transaction is paid, or one not yet in effect is cancelled.
LEMMA RowStep ==
    ASSUME SeatInv, NEW i \in SeatRowIds, SeatsPaid(i) \/ CancelSeats(i)
    PROVE  SeatInv'
<1>1. /\ UNCHANGED <<periodEnd, seatReq, irregular>>
      /\ \/ Tick /\ seatRow[i].status = "Pending"
         \/ moment' = moment /\ seatRow[i].status = "Active" /\ seatRow[i].effective > moment
  BY DEF SeatsPaid, CancelSeats, ActiveSeats
<1>2. seatRow \in [SeatRowIds -> SeatRowSet]
  BY DEF SeatInv, SlotsTypeOK, SeatRowSet
<1>3. \/ /\ SeatsPaid(i)
         /\ seatRow[i].status = "Pending" /\ moment + 1 \in Moments /\ moment' = moment + 1
         /\ seatRow' = [seatRow EXCEPT ![i] =
                          [seatRow[i] EXCEPT !.status = "Active", !.effective = moment + 1]]
      \/ /\ CancelSeats(i)
         /\ seatRow[i].status = "Active" /\ seatRow[i].effective > moment /\ moment' = moment
         /\ seatRow' = [seatRow EXCEPT ![i] = [Unwritten EXCEPT !.status = "deleted"]]
  <2>1. CASE SeatsPaid(i)
    <3>1. moment' = moment + 1 /\ moment' \in Moments
      BY <2>1, ClockTyped DEF SeatsPaid, SeatInv
    <3>2. seatRow' = [seatRow EXCEPT ![i].status = "Active", ![i].effective = moment + 1]
      BY <2>1 DEF SeatsPaid
    <3>3. [seatRow EXCEPT ![i].status = "Active", ![i].effective = moment + 1]
            = [seatRow EXCEPT ![i] =
                          [seatRow[i] EXCEPT !.status = "Active", !.effective = moment + 1]]
      BY <1>2 DEF SeatRowSet
    <3> QED BY <2>1, <3>1, <3>2, <3>3 DEF SeatsPaid
  <2>2. CASE CancelSeats(i)
    BY <2>2 DEF CancelSeats, ActiveSeats
  <2> QED BY <2>1, <2>2
<1>4. [Unwritten EXCEPT !.status = "deleted"] \in SeatRowSet
  <2>1. 0 \in Moments
    BY SlotsAssumption DEF Moments
  <2>2. Unwritten \in SeatRowSet
    BY <2>1 DEF Unwritten, SeatRowSet, SeatStatuses
  <2> QED BY <2>2 DEF SeatRowSet, SeatStatuses
<1>5. SeatsPaid(i) => [seatRow[i] EXCEPT !.status = "Active", !.effective = moment + 1] \in SeatRowSet
  <2>1. SeatsPaid(i) => moment + 1 \in Moments
    BY ClockTyped DEF SeatsPaid, SeatInv
  <2> QED BY <1>2, <2>1 DEF SeatRowSet, SeatStatuses
<1>6. SlotsTypeOK'
  <2>1. seatRow' \in [SeatRowIds -> SeatRowSet]
    BY <1>2, <1>3, <1>4, <1>5
  <2> QED BY <1>1, <2>1, ClockTyped DEF SeatInv, SlotsTypeOK, SeatRowSet
<1>7. /\ \A j \in SeatRowIds : j # i => seatRow'[j] = seatRow[j]
      /\ \/ /\ seatRow[i].status = "Pending" /\ moment' = moment + 1
            /\ seatRow'[i].status = "Active" /\ seatRow'[i].effective = moment + 1
            /\ seatRow'[i].prev = seatRow[i].prev /\ seatRow'[i].at = seatRow[i].at
            /\ seatRow'[i].delta = seatRow[i].delta
         \/ /\ seatRow[i].status = "Active" /\ seatRow[i].effective > moment /\ moment' = moment
            /\ seatRow'[i].status = "deleted"
  <2>1. [Unwritten EXCEPT !.status = "deleted"].status = "deleted"
    BY DEF Unwritten
  <2>2. seatRow[i] \in SeatRowSet
    BY <1>2
  <2>3. LET r == [seatRow[i] EXCEPT !.status = "Active", !.effective = moment + 1]
        IN  /\ r.status = "Active" /\ r.effective = moment + 1 /\ r.prev = seatRow[i].prev
            /\ r.at = seatRow[i].at /\ r.delta = seatRow[i].delta
    BY <2>2 DEF SeatRowSet
  <2> QED BY <1>2, <1>3, <2>1, <2>3
<1>8. moment <= moment' /\ moment \in Nat
  BY <1>7, ClockTyped DEF SeatInv
<1>9. ASSUME NEW j \in SeatRowIds, NEW s \in 0 .. moment
      PROVE  PartOf(seatRow'[j], s) = PartOf(seatRow[j], s)
  <2>1. seatRow[i].effective \in Nat
    BY SeatRowTyped DEF SeatInv
  <2> QED BY <1>7, <1>8, <2>1 DEF PartOf
<1>10. \A j \in SeatRowIds : Written(j)' => Written(j) /\ seatRow'[j].prev = seatRow[j].prev
                                                       /\ seatRow'[j].at = seatRow[j].at
  BY <1>7 DEF Written
<1>11. \A j \in SeatRowIds : seatRow[j].status # "absent" => seatRow'[j].status # "absent"
  BY <1>7
<1>12. RowsSound'
  <2>1. i # 0 /\ 0 \in SeatRowIds
    BY <1>7, <1>8, SlotsAssumption DEF SeatInv, RowsSound, SeatRowIds
  <2>2. \A j \in SeatRowIds : seatRow[j].at \in Nat
    BY SeatRowTyped DEF SeatInv
  <2>3. moment' \in Nat
    BY <1>7, <1>8
  <2>4. ASSUME NEW j \in SeatRowIds, Written(j)' PROVE seatRow'[j].at <= moment'
    BY <1>8, <1>10, <2>2, <2>3, <2>4 DEF SeatInv, RowsSound
  <2>5. \A j \in SeatRowIds : seatRow'[j].status = "Pending" => seatRow'[j].delta > 0
    BY <1>7 DEF SeatInv, RowsSound
  <2> QED BY <1>7, <2>1, <2>4, <2>5 DEF SeatInv, RowsSound
<1>13. ASSUME "late" \notin irregular PROVE EffectsInTime'
  <2>1. EffectsInTime
    BY <1>13 DEF SeatInv
  <2>2. ASSUME NEW j \in SeatRowIds, seatRow'[j].status = "Active"
        PROVE  \/ seatRow'[j].effective <= moment'
               \/ seatRow'[j].delta < 0 /\ seatRow'[j].effective = periodEnd'
    <3>1. seatRow[j].effective \in Nat /\ moment' \in Nat
      BY SeatRowTyped, <1>7, <1>8 DEF SeatInv
    <3>2. CASE j = i
      BY <1>7, <1>8, <2>2, <3>2
    <3>3. CASE j # i
      BY <1>1, <1>7, <1>8, <2>1, <2>2, <3>1, <3>3 DEF EffectsInTime
    <3> QED BY <3>2, <3>3
  <2> QED BY <1>1, <2>1, <2>2 DEF EffectsInTime
<1>14. /\ UNCHANGED irregular
       /\ \A c \in Clients : seatReq'[c].open => seatReq'[c] = seatReq[c]
  BY <1>1
<1> QED BY <1>6, <1>8, <1>9, <1>10, <1>11, <1>12, <1>13, <1>14, PastStep

\* A request reads the count: at most, or exactly, what is bought before its
\* moment, because what is not in effect by then is a reduction, or nothing.
LEMMA AskCounts ==
    ASSUME SeatInv, NEW delta \in Changes, moment < LastMoment, moment + 1 < periodEnd
    PROVE  LET seats == SeatsAt(EffectiveAt(delta, moment + 1)) IN
           /\ "late" \notin irregular => seats <= SeatsBefore(moment + 1)
           /\ irregular = {} /\ (delta < 0 => Reductions = {}) => seats = SeatsBefore(moment + 1)
<1> DEFINE t == EffectiveAt(delta, moment + 1)
<1>1. /\ t = IF delta > 0 THEN moment + 1 ELSE periodEnd
      /\ t \in Nat /\ moment + 1 <= t /\ moment \in Nat /\ delta \in Int /\ delta # 0
  BY ClockTyped, SlotsAssumption DEF SeatInv, EffectiveAt
<1> HIDE DEF t
<1>2. /\ SeatsAt(t) \in Int
      /\ CountsBounded => SeatsAt(t) <= SeatsBefore(t + 1)
      /\ CountsExact => SeatsAt(t) = SeatsBefore(t + 1)
  BY <1>1, CountIs DEF SeatInv, CountsBounded, CountsExact
<1>3. \A i \in SeatRowIds : /\ seatRow[i].delta \in Int /\ seatRow[i].effective \in Nat
  BY SeatRowTyped DEF SeatInv
<1>4. ChangesBefore(seatRow, t + 1) \in Int /\ ChangesBefore(seatRow, moment + 1) \in Int
      /\ InitialSeats \in Int
  BY <1>3, ChangesCompared, SlotsAssumption
<1>5. ASSUME "late" \notin irregular PROVE SeatsAt(t) <= SeatsBefore(moment + 1)
  <2>1. EffectsInTime /\ CountsBounded
    BY <1>5 DEF SeatInv
  <2>2. ASSUME NEW i \in SeatRowIds
        PROVE  PartOf(seatRow[i], t + 1) <= PartOf(seatRow[i], moment + 1)
    <3>1. seatRow[i].status = "Active" => \/ seatRow[i].effective <= moment
                                          \/ seatRow[i].delta < 0 /\ seatRow[i].effective = periodEnd
      BY <2>1 DEF EffectsInTime
    <3> QED BY <1>1, <1>3, <3>1 DEF PartOf
  <2>3. ChangesBefore(seatRow, t + 1) <= ChangesBefore(seatRow, moment + 1)
    BY <1>3, <2>2, ChangesCompared
  <2> QED BY <1>2, <1>4, <2>1, <2>3 DEF SeatsBefore
<1>6. ASSUME irregular = {}, delta < 0 => Reductions = {}
      PROVE  SeatsAt(t) = SeatsBefore(moment + 1)
  <2>1. EffectsInTime /\ CountsExact
    BY <1>6 DEF SeatInv
  <2>2. ASSUME NEW i \in SeatRowIds
        PROVE  PartOf(seatRow[i], t + 1) = PartOf(seatRow[i], moment + 1)
    <3>1. seatRow[i].status = "Active" => \/ seatRow[i].effective <= moment
                                          \/ seatRow[i].delta < 0 /\ seatRow[i].effective = periodEnd
      BY <2>1 DEF EffectsInTime
    <3>2. CASE delta > 0
      BY <1>1, <1>3, <3>1, <3>2 DEF PartOf
    <3>3. CASE delta < 0
      <4>1. ~ (seatRow[i].status = "Active" /\ seatRow[i].delta < 0 /\ seatRow[i].effective > moment)
        BY <1>6, <3>3 DEF Reductions, ActiveSeats
      <4> QED BY <1>1, <1>3, <3>1, <4>1 DEF PartOf
    <3> QED BY <1>1, <3>2, <3>3
  <2>3. ChangesBefore(seatRow, t + 1) = ChangesBefore(seatRow, moment + 1)
    BY <1>3, <2>2, ChangesCompared
  <2> QED BY <1>2, <2>1, <2>3 DEF SeatsBefore
<1> QED BY <1>5, <1>6 DEF t

\* A request is opened.
LEMMA AskStep ==
    ASSUME SeatInv, NEW c \in Clients, NEW delta \in Changes, NEW mode \in SeatModes,
           AskSeats(c, delta, mode)
    PROVE  SeatInv'
<1> DEFINE t == EffectiveAt(delta, moment + 1)
           new == [open |-> TRUE, delta |-> delta, mode |-> mode, at |-> moment + 1,
                   effective |-> t, prev |-> SeatsAt(t), seen |-> WrittenSeats]
<1>1. /\ seatReq' = [seatReq EXCEPT ![c] = new]
      /\ UNCHANGED <<periodEnd, seatRow>> /\ Tick
      /\ delta < 0 => mode = "optimistic"
      /\ irregular \subseteq irregular' /\ irregular' \subseteq irregular \cup Irregularities
      /\ "late" \notin irregular' => moment + 1 < periodEnd
      /\ irregular' = {} => irregular = {} /\ (delta < 0 => Reductions = {})
  <2>1. moment \in Nat /\ periodEnd \in Nat
    BY ClockTyped DEF SeatInv
  <2> QED BY <2>1 DEF AskSeats, Irregularities
<1>2. /\ moment' = moment + 1 /\ moment' \in 0 .. LastMoment /\ moment + 1 \in Moments
      /\ moment \in Nat /\ moment < LastMoment /\ periodEnd \in Nat /\ periodEnd \in Moments
  BY <1>1, ClockTyped DEF SeatInv, Tick
<1>3. /\ t \in Moments /\ t \in Nat
      /\ moment + 1 < periodEnd => /\ t = IF delta > 0 THEN moment + 1 ELSE periodEnd
                                   /\ moment <= t
      /\ delta \in Int /\ delta # 0
  BY <1>2, SlotsAssumption DEF EffectiveAt, Moments
<1>4. SeatsAt(t) \in Int
  BY <1>2, <1>3, CountIs DEF SeatInv, EffectiveAt
<1>5. WrittenSeats \subseteq SeatRowIds \X SeatStatuses
  BY DEF WrittenSeats, SeatInv, SlotsTypeOK
<1> HIDE DEF t
<1>6. new \in SeatReqSet
  BY <1>2, <1>3, <1>4, <1>5 DEF SeatReqSet
<1>7. /\ new.open /\ new.delta = delta /\ new.mode = mode /\ new.at = moment + 1
      /\ new.effective = t /\ new.prev = SeatsAt(t) /\ new.seen = WrittenSeats
  OBVIOUS
<1> HIDE DEF new
<1>8. seatReq \in [Clients -> SeatReqSet]
  BY DEF SeatInv, SlotsTypeOK, SeatReqSet
<1>9. seatReq'[c] = new /\ \A d \in Clients : d # c => seatReq'[d] = seatReq[d]
  BY <1>1, <1>8
<1>10. SlotsTypeOK'
  <2>1. seatReq' \in [Clients -> SeatReqSet]
    BY <1>1, <1>6, <1>8
  <2> QED BY <1>1, <1>2, <2>1 DEF SeatInv, SlotsTypeOK, SeatReqSet
<1>11. /\ \A i \in SeatRowIds : seatRow'[i] = seatRow[i]
       /\ \A i \in SeatRowIds : Written(i)' <=> Written(i)
       /\ \A i \in SeatRowIds : seatRow[i].at \in Nat /\ seatRow[i].effective \in Nat
       /\ \A i \in SeatRowIds : Written(i) => seatRow[i].at <= moment
  BY <1>1, SeatRowTyped DEF Written, SeatInv, RowsSound
<1>12. RowsSound'
  BY <1>2, <1>11, <1>1 DEF RowsSound, SeatInv
<1>13. ASSUME NEW d \in Clients, d # c
       PROVE  /\ RequestBounded(d) => RequestBounded(d)'
              /\ RequestExact(d) => RequestExact(d)'
  BY <1>1, <1>9, <1>13 DEF RequestBounded, RequestExact, Written, NothingNew, SeatsBefore
<1>14. \A i \in SeatRowIds : (RowBounded(i) => RowBounded(i)') /\ (RowExact(i) => RowExact(i)')
  BY <1>1 DEF RowBounded, RowExact, Written, SeatsBefore
<1>15. RequestsSound'
  <2> SUFFICES ASSUME NEW d \in Clients, seatReq'[d].open
               PROVE  /\ seatReq'[d].delta # 0
                      /\ seatReq'[d].delta < 0 => seatReq'[d].mode = "optimistic"
                      /\ seatReq'[d].at <= moment'
                      /\ \A p \in seatReq'[d].seen : seatRow'[p[1]].status # "absent"
    BY DEF RequestsSound
  <2>1. CASE d = c
    <3>1. \A p \in WrittenSeats : seatRow[p[1]].status # "absent"
      BY DEF WrittenSeats
    <3> QED BY <1>1, <1>2, <1>3, <1>7, <1>9, <2>1, <3>1
  <2>2. CASE d # c
    <3>1. seatReq[d].at \in Nat
      BY <1>8 DEF SeatReqSet, Moments
    <3> QED BY <1>1, <1>2, <1>9, <2>2, <3>1 DEF SeatInv, RequestsSound
  <2> QED BY <2>1, <2>2
<1>16. ASSUME "late" \notin irregular' PROVE EffectsInTime' /\ CountsBounded'
  <2>1. EffectsInTime /\ CountsBounded /\ moment + 1 < periodEnd /\ "late" \notin irregular
    BY <1>1, <1>16 DEF SeatInv
  <2>2. ASSUME NEW i \in SeatRowIds, seatRow'[i].status = "Active"
        PROVE  \/ seatRow'[i].effective <= moment'
               \/ seatRow'[i].delta < 0 /\ seatRow'[i].effective = periodEnd'
    BY <1>1, <1>2, <1>11, <2>1, <2>2 DEF EffectsInTime
  <2>3. ASSUME NEW d \in Clients, seatReq'[d].open
        PROVE  \/ seatReq'[d].delta > 0 /\ seatReq'[d].effective = seatReq'[d].at
               \/ /\ seatReq'[d].delta < 0 /\ seatReq'[d].at < seatReq'[d].effective
                  /\ \/ seatReq'[d].effective = periodEnd'
                     \/ seatReq'[d].effective <= periodEnd' - PeriodLength
    <3>1. CASE d = c
      BY <1>1, <1>2, <1>3, <1>7, <1>9, <2>1, <3>1
    <3>2. CASE d # c
      BY <1>1, <1>9, <2>1, <2>3, <3>2 DEF EffectsInTime
    <3> QED BY <3>1, <3>2
  <2>4. EffectsInTime'
    BY <2>2, <2>3 DEF EffectsInTime
  <2>5. SeatsAt(t) <= SeatsBefore(moment + 1)
    BY <1>2, <2>1, AskCounts DEF t
  <2>6. RequestBounded(c)'
    BY <1>1, <1>2, <1>7, <1>9, <2>5 DEF RequestBounded, SeatsBefore
  <2> QED BY <1>13, <1>14, <2>1, <2>4, <2>6 DEF CountsBounded
<1>17. ASSUME irregular' = {} PROVE CountsExact'
  <2>1. CountsExact /\ moment + 1 < periodEnd /\ irregular = {} /\ (delta < 0 => Reductions = {})
    BY <1>1, <1>17 DEF SeatInv
  <2>2. SeatsAt(t) = SeatsBefore(moment + 1)
    BY <1>2, <2>1, AskCounts DEF t
  <2>3. \A i \in SeatRowIds : Written(i)' => seatRow'[i].at < moment + 1
    BY <1>2, <1>11
  <2>4. RequestExact(c)'
    BY <1>1, <1>2, <1>7, <1>9, <2>2, <2>3 DEF RequestExact, SeatsBefore
  <2> QED BY <1>13, <1>14, <2>1, <2>4 DEF CountsExact
<1> QED BY <1>10, <1>12, <1>15, <1>16, <1>17 DEF SeatInv

\* The first free row is one.
LEMMA FirstFree ==
    ASSUME FreeSeatRows # {}
    PROVE  Min(FreeSeatRows) \in FreeSeatRows
<1>1. FreeSeatRows \subseteq Nat
  BY DEF FreeSeatRows, SeatRowIds
<1>2. PICK n \in FreeSeatRows : \A m \in FreeSeatRows : n <= m
  BY <1>1, LeastOf
<1> QED BY <1>2 DEF Min

\* A request writes its row.
LEMMA WriteStep ==
    ASSUME SeatInv, NEW c \in Clients, WriteSeats(c)
    PROVE  SeatInv'
<1> DEFINE r == seatReq[c]
           n == Min(FreeSeatRows)
           row == [status |-> IF r.mode = "on_paid" THEN "Pending" ELSE "Active",
                   delta |-> r.delta, prev |-> r.prev, effective |-> r.effective, at |-> r.at]
<1>1. /\ r.open /\ n \in SeatRowIds /\ seatRow[n].status = "absent"
      /\ seatRow' = [seatRow EXCEPT ![n] = row]
      /\ seatReq' = [seatReq EXCEPT ![c] = NoSeatReq]
      /\ UNCHANGED <<moment, periodEnd>>
  BY FirstFree DEF WriteSeats, CloseSeatReq, FreeSeatRows
<1>2. /\ irregular \subseteq irregular' /\ irregular' \subseteq irregular \cup Irregularities
      /\ "late" \notin irregular' => ~ (moment >= periodEnd \/ r.at <= periodEnd - PeriodLength)
      /\ irregular' = {} => WrittenSeats = r.seen
  BY DEF WriteSeats, Irregularities
<1>3. /\ seatReq \in [Clients -> SeatReqSet] /\ seatRow \in [SeatRowIds -> SeatRowSet]
      /\ moment \in Nat /\ periodEnd \in Nat /\ PeriodLength \in Nat \ {0}
  BY ClockTyped DEF SeatInv, SlotsTypeOK, SeatReqSet, SeatRowSet
<1>4. r \in SeatReqSet
  BY <1>3
<1>5. /\ r.delta \in Int /\ r.delta # 0 /\ r.at \in Nat /\ r.effective \in Nat /\ r.prev \in Int
      /\ r.at <= moment /\ (r.delta < 0 => r.mode = "optimistic")
  <2>1. Changes \cup {0} \subseteq Int /\ Moments \subseteq Nat
    BY SlotsAssumption DEF Moments
  <2> QED BY <1>1, <1>4, <2>1 DEF SeatReqSet, SeatInv, RequestsSound
<1>6. row \in SeatRowSet
  BY <1>4 DEF SeatReqSet, SeatRowSet, SeatStatuses
<1>7. /\ row.status \in {"Pending", "Active"} /\ row.delta = r.delta /\ row.prev = r.prev
      /\ row.effective = r.effective /\ row.at = r.at
      /\ row.status = "Pending" => r.mode = "on_paid"
  OBVIOUS
<1> HIDE DEF row, n, r
<1>8. /\ seatRow'[n] = row /\ \A j \in SeatRowIds : j # n => seatRow'[j] = seatRow[j]
      /\ seatReq'[c] = NoSeatReq /\ \A d \in Clients : d # c => seatReq'[d] = seatReq[d]
  BY <1>1, <1>3
<1>9. SlotsTypeOK'
  <2>1. seatRow' \in [SeatRowIds -> SeatRowSet]
    BY <1>1, <1>3, <1>6
  <2>2. seatReq' \in [Clients -> SeatReqSet]
    BY <1>1, <1>3, NoSeatReqTyped
  <2> QED BY <1>1, <1>2, <2>1, <2>2 DEF SeatInv, SlotsTypeOK, SeatReqSet, SeatRowSet
<1>10. /\ \A j \in SeatRowIds : seatRow[j].at \in Nat /\ seatRow[j].delta \in Int
       /\ \A j \in SeatRowIds : seatRow'[j].delta \in Int
       /\ \A j \in SeatRowIds : Written(j) => seatRow[j].at <= moment
  BY <1>5, <1>7, <1>8, SeatRowTyped DEF SeatInv, RowsSound
<1>11. /\ \A j \in SeatRowIds : j # n => (Written(j)' <=> Written(j))
       /\ ~ Written(n)
  BY <1>1, <1>8 DEF Written
<1>12. RowsSound'
  <2>1. n # 0 /\ 0 \in SeatRowIds
    BY <1>1, SlotsAssumption DEF SeatInv, RowsSound, SeatRowIds
  <2>2. \A j \in SeatRowIds : Written(j)' => seatRow'[j].at <= moment'
    BY <1>1, <1>5, <1>7, <1>8, <1>10, <1>11
  <2>3. ASSUME NEW j \in SeatRowIds, seatRow'[j].status = "Pending"
        PROVE  seatRow'[j].delta > 0
    <3>1. CASE j = n
      BY <1>5, <1>7, <1>8, <2>3, <3>1
    <3>2. CASE j # n
      BY <1>8, <2>3, <3>2 DEF SeatInv, RowsSound
    <3> QED BY <3>1, <3>2
  <2> QED BY <1>8, <2>1, <2>2, <2>3 DEF SeatInv, RowsSound
<1>13. RequestsSound'
  <2> SUFFICES ASSUME NEW d \in Clients, seatReq'[d].open
               PROVE  /\ seatReq'[d].delta # 0
                      /\ seatReq'[d].delta < 0 => seatReq'[d].mode = "optimistic"
                      /\ seatReq'[d].at <= moment'
                      /\ \A p \in seatReq'[d].seen : seatRow'[p[1]].status # "absent"
    BY DEF RequestsSound
  <2>1. d # c /\ seatReq'[d] = seatReq[d]
    BY <1>8, NoSeatReqTyped
  <2>2. ASSUME NEW p \in seatReq[d].seen PROVE seatRow'[p[1]].status # "absent"
    <3>1. p[1] \in SeatRowIds /\ seatRow[p[1]].status # "absent"
      BY <1>3, <2>1 DEF SeatReqSet, SeatInv, RequestsSound
    <3> QED BY <1>7, <1>8, <3>1
  <2> QED BY <1>1, <2>1, <2>2 DEF SeatInv, RequestsSound
<1>14. ASSUME "late" \notin irregular' PROVE EffectsInTime' /\ CountsBounded'
  <2>1. /\ EffectsInTime /\ CountsBounded
        /\ moment < periodEnd /\ r.at > periodEnd - PeriodLength
    BY <1>2, <1>3, <1>5, <1>14 DEF SeatInv
  <2>2. IF r.delta > 0 THEN r.effective <= moment ELSE r.effective = periodEnd
    BY <1>1, <1>3, <1>5, <2>1 DEF EffectsInTime, r
  <2>3. EffectsInTime'
    <3>1. ASSUME NEW j \in SeatRowIds, seatRow'[j].status = "Active"
          PROVE  \/ seatRow'[j].effective <= moment'
                 \/ seatRow'[j].delta < 0 /\ seatRow'[j].effective = periodEnd'
      <4>1. CASE j = n
        BY <1>1, <1>5, <1>7, <1>8, <2>2, <4>1
      <4>2. CASE j # n
        BY <1>1, <1>8, <2>1, <3>1, <4>2 DEF EffectsInTime
      <4> QED BY <4>1, <4>2
    <3>2. \A d \in Clients : seatReq'[d].open => seatReq'[d] = seatReq[d]
      BY <1>8, NoSeatReqTyped
    <3> QED BY <1>1, <2>1, <3>1, <3>2 DEF EffectsInTime
  <2>4. ASSUME NEW s \in 0 .. moment
        PROVE  SeatsBefore(s) <= InitialSeats + ChangesBefore(seatRow', s)
    <3>1. ASSUME NEW j \in SeatRowIds PROVE PartOf(seatRow[j], s) <= PartOf(seatRow'[j], s)
      <4>1. CASE j = n
        BY <1>1, <1>3, <1>5, <1>7, <1>8, <2>1, <2>2, <4>1 DEF PartOf
      <4>2. CASE j # n
        BY <1>8, <1>10, <4>2 DEF PartOf
      <4> QED BY <4>1, <4>2
    <3>2. /\ ChangesBefore(seatRow, s) <= ChangesBefore(seatRow', s)
          /\ ChangesBefore(seatRow, s) \in Int /\ ChangesBefore(seatRow', s) \in Int
      BY <1>10, <3>1, ChangesCompared
    <3> QED BY <3>2, SlotsAssumption DEF SeatsBefore
  <2>5. \A s \in 0 .. moment : SeatsBefore(s) \in Int /\ InitialSeats + ChangesBefore(seatRow', s) \in Int
    BY <1>10, ChangesCompared, SlotsAssumption DEF SeatsBefore
  <2>6. ASSUME NEW j \in SeatRowIds PROVE RowBounded(j)'
    <3>1. CASE j = n
      <4>1. r.prev <= SeatsBefore(r.at)
        BY <1>1, <2>1 DEF CountsBounded, RequestBounded, r
      <4>2. r.at \in 0 .. moment
        BY <1>3, <1>5
      <4>3. r.prev <= InitialSeats + ChangesBefore(seatRow', r.at)
        BY <1>5, <2>4, <2>5, <4>1, <4>2
      <4> QED BY <1>7, <1>8, <3>1, <4>3 DEF RowBounded, SeatsBefore
    <3>2. CASE j # n
      <4>1. Written(j)' => /\ seatRow[j].prev <= SeatsBefore(seatRow[j].at)
                           /\ seatRow[j].at \in 0 .. moment
        BY <1>3, <1>10, <1>11, <2>1, <3>2 DEF CountsBounded, RowBounded
      <4>2. seatRow[j].prev \in Int
        BY <1>3 DEF SeatRowSet
      <4>3. Written(j)' => seatRow[j].prev <= InitialSeats + ChangesBefore(seatRow', seatRow[j].at)
        BY <2>4, <2>5, <4>1, <4>2
      <4> QED BY <1>8, <3>2, <4>3 DEF RowBounded, SeatsBefore
    <3> QED BY <3>1, <3>2
  <2>7. ASSUME NEW d \in Clients PROVE RequestBounded(d)'
    <3>1. CASE d = c
      BY <1>8, <3>1, NoSeatReqTyped DEF RequestBounded
    <3>2. CASE d # c
      <4>1. seatReq[d].open => /\ seatReq[d].prev <= SeatsBefore(seatReq[d].at)
                               /\ seatReq[d].at \in 0 .. moment
        BY <1>3, <2>1 DEF CountsBounded, RequestBounded, SeatInv, RequestsSound,
                          SeatReqSet, Moments
      <4>2. seatReq[d].prev \in Int
        BY <1>3 DEF SeatReqSet
      <4>3. seatReq[d].open => seatReq[d].prev <= InitialSeats + ChangesBefore(seatRow', seatReq[d].at)
        BY <2>4, <2>5, <4>1, <4>2
      <4> QED BY <1>8, <3>2, <4>3 DEF RequestBounded, SeatsBefore
    <3> QED BY <3>1, <3>2
  <2> QED BY <2>3, <2>6, <2>7 DEF CountsBounded
<1>15. ASSUME irregular' = {} PROVE CountsExact'
  <2>1. /\ EffectsInTime /\ CountsExact /\ WrittenSeats = r.seen
        /\ moment < periodEnd /\ r.at > periodEnd - PeriodLength
    BY <1>2, <1>3, <1>5, <1>15 DEF SeatInv
  <2>2. r.at <= r.effective
    BY <1>1, <1>3, <1>5, <2>1 DEF EffectsInTime, r
  <2>3. NothingNew(c)
    <3>1. \A j \in SeatRowIds : seatRow[j].status # "absent" =>
              <<j, seatRow[j].status>> \in WrittenSeats /\ <<j, seatRow[j].status>>[1] = j
      BY DEF WrittenSeats
    <3> QED BY <2>1, <3>1 DEF NothingNew, r
  <2>4. r.prev = SeatsBefore(r.at) /\ \A j \in SeatRowIds : Written(j) => seatRow[j].at < r.at
    BY <1>1, <2>1, <2>3 DEF CountsExact, RequestExact, r
  <2>5. ASSUME NEW s \in Nat, s <= r.at
        PROVE  ChangesBefore(seatRow', s) = ChangesBefore(seatRow, s)
    <3>1. ASSUME NEW j \in SeatRowIds PROVE PartOf(seatRow'[j], s) = PartOf(seatRow[j], s)
      <4>1. CASE j = n
        BY <1>1, <1>5, <1>7, <1>8, <2>2, <2>5, <4>1 DEF PartOf
      <4>2. CASE j # n
        BY <1>8, <4>2
      <4> QED BY <4>1, <4>2
    <3> QED BY <1>9, <3>1, PastKept DEF SeatInv
  <2>6. ASSUME NEW j \in SeatRowIds PROVE RowExact(j)'
    <3>1. CASE j = n
      <4>1. r.prev = InitialSeats + ChangesBefore(seatRow', r.at)
        BY <1>5, <2>4, <2>5 DEF SeatsBefore
      <4> QED BY <1>7, <1>8, <3>1, <4>1 DEF RowExact, SeatsBefore
    <3>2. CASE j # n
      <4>1. Written(j)' => /\ seatRow[j].prev = SeatsBefore(seatRow[j].at)
                           /\ seatRow[j].at <= r.at
        BY <1>5, <1>10, <1>11, <2>1, <2>4, <3>2 DEF CountsExact, RowExact
      <4>2. Written(j)' => seatRow[j].prev = InitialSeats + ChangesBefore(seatRow', seatRow[j].at)
        BY <1>10, <2>5, <4>1 DEF SeatsBefore
      <4> QED BY <1>8, <3>2, <4>2 DEF RowExact, SeatsBefore
    <3> QED BY <3>1, <3>2
  <2>7. ASSUME NEW d \in Clients PROVE RequestExact(d)'
    <3>1. CASE d = c
      BY <1>8, <3>1, NoSeatReqTyped DEF RequestExact
    <3>2. CASE d # c
      <4>1. seatReq'[d] = seatReq[d]
        BY <1>8, <3>2
      <4>2. seatReq[d].open => \A p \in seatReq[d].seen : p[1] # n
        BY <1>1 DEF SeatInv, RequestsSound
      <4>3. seatReq[d].open => ~ NothingNew(d)'
        BY <1>1, <1>7, <1>8, <4>1, <4>2 DEF NothingNew
      <4> QED BY <4>1, <4>3 DEF RequestExact
    <3> QED BY <3>1, <3>2
  <2> QED BY <2>6, <2>7 DEF CountsExact
<1> QED BY <1>9, <1>12, <1>13, <1>14, <1>15 DEF SeatInv

LEMMA SeatInvStep == SeatInv /\ [SlotsNext]_slotVars => SeatInv'
<1> SUFFICES ASSUME SeatInv, [SlotsNext]_slotVars PROVE SeatInv'
  OBVIOUS
<1>1. seatReq \in [Clients -> SeatReqSet]
  BY DEF SeatInv, SlotsTypeOK, SeatReqSet
<1>2. ASSUME NEW c \in Clients, NEW delta \in Changes, NEW mode \in SeatModes,
             AskSeats(c, delta, mode)
      PROVE  SeatInv'
  BY <1>2, AskStep
<1>3. ASSUME NEW c \in Clients, WriteSeats(c) PROVE SeatInv'
  BY <1>3, WriteStep
<1>4. ASSUME NEW c \in Clients, DropSeats(c) PROVE SeatInv'
  <2>1. /\ seatReq' = [seatReq EXCEPT ![c] = NoSeatReq]
        /\ UNCHANGED <<moment, periodEnd, seatRow, irregular>>
    BY <1>4 DEF DropSeats, CloseSeatReq
  <2>2. /\ seatReq' \in [Clients -> SeatReqSet]
        /\ \A d \in Clients : seatReq'[d].open => seatReq'[d] = seatReq[d]
    BY <1>1, <2>1, NoSeatReqTyped
  <2> QED BY <2>1, <2>2, QuietStep
<1>5. ASSUME NEW i \in SeatRowIds, SeatsPaid(i) \/ CancelSeats(i) PROVE SeatInv'
  BY <1>5, RowStep
<1>6. CASE RenewSeats
  <2>1. /\ UNCHANGED <<seatRow, irregular, seatReq>> /\ UNCHANGED moment
        /\ moment >= periodEnd /\ periodEnd' = periodEnd + PeriodLength
    BY <1>6 DEF RenewSeats
  <2> QED BY <1>1, <2>1, QuietStep
<1>7. CASE PassTime
  <2>1. UNCHANGED <<seatRow, irregular, seatReq, periodEnd>> /\ Tick
    BY <1>7 DEF PassTime
  <2> QED BY <1>1, <2>1, QuietStep
<1>8. CASE UNCHANGED slotVars
  BY <1>1, <1>8, QuietStep DEF slotVars
<1> QED BY <1>2, <1>3, <1>4, <1>5, <1>6, <1>7, <1>8 DEF SlotsNext

LEMMA SeatsInvariant == SlotsSpec => []SeatInv
BY SeatInvInit, SeatInvStep, PTL DEF SlotsSpec

\* The variables of the seats keep their types.
THEOREM SeatsTypeCorrect == SlotsSpec => []SlotsTypeOK
<1>1. SeatInv => SlotsTypeOK
  BY DEF SeatInv
<1> QED BY <1>1, SeatsInvariant, PTL

\* What is bought and what is counted, now.
LEMMA CountNow ==
    SeatInv => SeatsAddUp /\ SeatsBought = SeatsBefore(moment + 1) /\ SeatsBought \in Int
<1> SUFFICES ASSUME SeatInv
             PROVE  SeatsAddUp /\ SeatsBought = SeatsBefore(moment + 1) /\ SeatsBought \in Int
  OBVIOUS
<1>1. SeatsBought = SeatsBefore(moment + 1) /\ SeatsBought \in Int
  BY BoughtIs DEF SeatInv
<1>2. /\ SeatsAt(moment) \in Int
      /\ CountsBounded => SeatsAt(moment) <= SeatsBefore(moment + 1)
      /\ CountsExact => SeatsAt(moment) = SeatsBefore(moment + 1)
  BY CountIs, ClockTyped DEF SeatInv, CountsBounded, CountsExact
<1> QED BY <1>1, <1>2 DEF SeatsAddUp, SeatInv

\* However many requests race, nobody has more seats than were bought, and
\* without anything irregular exactly as many.
THEOREM SeatsStayAddedUp == SlotsSpec => []SeatsAddUp
<1>1. SeatInv => SeatsAddUp
  BY CountNow
<1> QED BY <1>1, SeatsInvariant, PTL

\* Asking for fewer seats takes none away before the period ends.
THEOREM ReductionsWait == SlotsSpec => ReductionWaits
<1> DEFINE Bought == SeatsBought = SeatsBefore(moment + 1) /\ SeatsBought \in Int
           Waits == \A c \in Clients :
                       WritesReduction(c, {}) => SeatsAt(moment)' >= SeatsAt(moment)
<1>1. SeatInv => SeatsAddUp /\ Bought
  BY CountNow
<1>2. ASSUME SeatInv, SeatsAddUp, Bought, SeatInv', SeatsAddUp', Bought', [SlotsNext]_slotVars
      PROVE  [Waits]_slotVars
  <2> SUFFICES ASSUME NEW c \in Clients, WritesReduction(c, {})
               PROVE  SeatsAt(moment)' >= SeatsAt(moment)
    OBVIOUS
  <2>1. /\ irregular' = {} /\ irregular = {} /\ UNCHANGED <<moment, periodEnd>>
        /\ seatReq[c].delta < 0 /\ seatReq[c].open
        /\ moment < periodEnd /\ seatReq[c].at > periodEnd - PeriodLength
    <3>1. moment \in Nat /\ periodEnd \in Nat /\ PeriodLength \in Nat /\ seatReq[c].at \in Nat
      BY <1>2, ClockTyped DEF SeatInv, SlotsTypeOK, Moments
    <3> QED BY <3>1 DEF WritesReduction, WriteSeats
  <2>2. SeatsAt(moment) = SeatsBefore(moment + 1) /\ SeatsBefore(moment + 1) \in Int
    BY <1>2, <2>1 DEF SeatsAddUp
  <2>3. SeatsAt(moment)' = SeatsBefore(moment + 1)'
    BY <1>2, <2>1 DEF SeatsAddUp
  <2>4. seatReq[c].effective = periodEnd
    <3>1. /\ moment \in Nat /\ periodEnd \in Nat /\ PeriodLength \in Nat
          /\ seatReq[c].at \in Nat /\ seatReq[c].effective \in Nat /\ seatReq[c].delta \in Int
      <4>1. Changes \cup {0} \subseteq Int /\ Moments \subseteq Nat
        BY SlotsAssumption DEF Moments
      <4>2. seatReq[c].delta \in Changes \cup {0} /\ seatReq[c].effective \in Moments
        BY <1>2 DEF SeatInv, SlotsTypeOK
      <4> QED BY <1>2, <4>1, <4>2, ClockTyped DEF SeatInv, SlotsTypeOK
    <3> QED BY <1>2, <2>1, <3>1 DEF SeatInv, EffectsInTime
  <2>5. ChangesBefore(seatRow', moment + 1) = ChangesBefore(seatRow, moment + 1)
    <3> DEFINE n == Min(FreeSeatRows)
    <3>1. /\ n \in SeatRowIds /\ seatRow[n].status = "absent"
          /\ seatRow'[n].effective = periodEnd
          /\ \A j \in SeatRowIds : j # n => seatRow'[j] = seatRow[j]
      <4>1. n \in SeatRowIds /\ seatRow[n].status = "absent"
        BY FirstFree DEF WritesReduction, WriteSeats, FreeSeatRows
      <4> HIDE DEF n
      <4>2. /\ seatRow' = [seatRow EXCEPT ![n] =
                  [status |-> IF seatReq[c].mode = "on_paid" THEN "Pending" ELSE "Active",
                   delta |-> seatReq[c].delta, prev |-> seatReq[c].prev,
                   effective |-> seatReq[c].effective, at |-> seatReq[c].at]]
            /\ seatRow \in [SeatRowIds -> SeatRowSet]
        BY <1>2 DEF WritesReduction, WriteSeats, n, SeatInv, SlotsTypeOK, SeatRowSet
      <4> QED BY <2>4, <4>1, <4>2
    <3> HIDE DEF n
    <3>2. moment \in Nat /\ periodEnd \in Nat
      BY <1>2, ClockTyped DEF SeatInv
    <3>3. \A j \in SeatRowIds : PartOf(seatRow'[j], moment + 1) = PartOf(seatRow[j], moment + 1)
      BY <2>1, <3>1, <3>2 DEF PartOf
    <3> QED BY <1>2, <3>3, PastKept DEF SeatInv
  <2> QED BY <2>1, <2>2, <2>3, <2>5 DEF SeatsBefore
<1>3. SlotsSpec => [][Waits]_slotVars
  BY <1>1, <1>2, SeatsInvariant, PTL DEF SlotsSpec
<1> QED BY <1>3 DEF ReductionWaits

=============================================================================
