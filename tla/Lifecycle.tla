----------------------------- MODULE Lifecycle ------------------------------
(***************************************************************************)
(* The life of one subscription: its billing periods                       *)
(* (services/lifecycle/period_transitions.rs), the events scheduled for it *)
(* (billing_events.rs, query/scheduled_events.rs) and the requests that    *)
(* cancel it or change its plan (services/subscriptions).                  *)
(*                                                                         *)
(* Time is counted in days; what happens within minutes, the backoff of a  *)
(* retry and the expiry of a claim, is an action of its own.  A worker is  *)
(* given 10 seconds, after which its transactions are rolled back, so a    *)
(* claim of 5 minutes expires only after its worker is gone.               *)
(***************************************************************************)
EXTENDS Naturals, FiniteSets

CONSTANTS
    Plans,           \* plan versions
    Length,          \* plan -> its billing period, in days
    FreeTrials,      \* plans with a free trial
    Starts,          \* the subscriptions to begin with
    Horizon,         \* bound: the last day
    MaxEvents,       \* bound: events ever scheduled
    MaxErrors,       \* MAX_CYCLE_RETRIES
    MaxEventRetries, \* retries of an event before it fails
    CycleWorkers, EventWorkers, Users

NoDate == Horizon + 100     \* a date that is not set is later than any other

Days == 0 .. NoDate
SubStatus == {"PendingActivation", "TrialActive", "Active", "TrialExpired",
              "Cancelled", "Completed", "Errored"}
CycleActions == {"None", "ActivateSubscription", "RenewSubscription",
                 "EndTrial", "EndSubscription"}

\* How a free trial ends: on a free plan, committed and billed, at checkout
\* without a payment method, or charged.
TrialEnds == {"free", "bill", "checkout", "charge"}

SubRow == [status : SubStatus, action : CycleActions, start : Days, end : Days,
           until : Days, plan : Plans, trial : 0 .. 50, trialEnd : TrialEnds,
           errors : Nat, backoff : BOOLEAN, claimed : BOOLEAN]

EventTypes == {"CancelSubscription", "ApplyPlanChange", "ApplyAmendment", "EndTrial"}
EventStatus == {"absent", "Pending", "Processing", "Completed", "Canceled", "Failed"}
EventRow == [status : EventStatus, type : EventTypes, date : Days, from : Plans,
             plan : Plans, retries : Nat]
EventIds == 1 .. MaxEvents

\* What inserting a subscription leaves: billed for its first period, on a free
\* or on a paid trial, or to be activated on the day its period ends.  The first
\* period may begin or end after the end date, and every date that is set comes
\* before NoDate.
Inserted(s) ==
    /\ s.start <= s.end /\ s.end # NoDate /\ s.start + s.trial < NoDate
    /\ \/ s.status = "Active" /\ s.action = "RenewSubscription" /\ s.trial = 0
       \/ /\ s.status = "TrialActive" /\ s.trial # 0
          /\ \/ s.action = "RenewSubscription"
             \/ s.action = "EndTrial" /\ s.end = s.start + s.trial
       \/ /\ s.status = "PendingActivation" /\ s.action = "ActivateSubscription"
          /\ s.end <= s.until

ASSUME LifecycleAssumption ==
    /\ Plans # {} /\ Length \in [Plans -> 1 .. 50] /\ FreeTrials \subseteq Plans
    /\ Starts \subseteq SubRow /\ \A s \in Starts : Inserted(s)
    /\ Horizon \in Nat /\ MaxEvents \in Nat \ {0}
    /\ MaxErrors \in Nat \ {0} /\ MaxEventRetries \in Nat

VARIABLES
    today,    \* the date
    sub,      \* the subscription's row
    event,    \* scheduled_event, by order of creation
    cycle,    \* cycle worker -> has it claimed the subscription
    work,     \* event worker -> its step, and the event it has claimed
    request,  \* user -> an open cancellation, or the event a request has read
    billed,   \* dates of the recurring invoices
    unbilled  \* history: ends whose invoice failed within a cycle transition

lifeVars == <<today, sub, event, cycle, work, request, billed, unbilled>>

NoWork == [step |-> "idle", event |-> 0]
NoRequest == [op |-> "none", date |-> 0, events |-> {}]

\* What an event carries is kept as long as it may be processed.
NewEvent(type, date, from, plan) ==
    [status |-> "Pending", type |-> type, date |-> date, from |-> from,
     plan |-> plan, retries |-> 0]

AnyPlan == CHOOSE p \in Plans : TRUE    \* of an event that has none

Over(row, status) ==
    [NewEvent(row.type, 0, AnyPlan, AnyPlan) EXCEPT !.status = status]

\* A subscription inserted on a paid trial renews like any other, and an event
\* ends the trial.
PaidTrial(s) == s.status = "TrialActive" /\ s.action = "RenewSubscription"

\* A plan change asks the plan whether the trial is free.
FreeTrial(s) == s.status = "TrialActive" /\ s.plan \in FreeTrials

LifeInit ==
    /\ today = 0
    /\ sub \in Starts
    /\ event = [i \in EventIds |->
                    IF i = 1 /\ PaidTrial(sub)
                    THEN NewEvent("EndTrial", sub.start + sub.trial, AnyPlan, AnyPlan)
                    ELSE Over([type |-> "EndTrial"], "absent")]
    /\ cycle = [w \in CycleWorkers |-> "idle"]
    /\ work = [v \in EventWorkers |-> NoWork]
    /\ request = [u \in Users |-> NoRequest]
    /\ billed = IF sub.action = "RenewSubscription" THEN {sub.start} ELSE {}
    /\ unbilled = {}

-----------------------------------------------------------------------------
(* Events.                                                                 *)

\* What a user schedules for the end of a period, and what ending a
\* subscription makes moot.
LifecycleTypes == {"CancelSubscription", "ApplyPlanChange"}
SubscriptionTypes == LifecycleTypes \cup {"EndTrial"}

Pending(types) ==
    {i \in EventIds : event[i].status = "Pending" /\ event[i].type \in types}

\* Rows an open cancellation has updated: FOR UPDATE SKIP LOCKED passes over
\* them, another UPDATE waits for them.
Held == UNION {request[u].events : u \in {v \in Users : request[v].op = "cancel"}}

CanCancel(types) == Held \cap Pending(types) = {}

\* cancel_pending_lifecycle_events, cancel_pending_subscription_events.
CancelPending(ev, types) ==
    [i \in EventIds |->
        IF ev[i].status = "Pending" /\ ev[i].type \in types
        THEN Over(ev[i], "Canceled") ELSE ev[i]]

Unused == {i \in EventIds : event[i].status = "absent"}

\* schedule_events.
Schedule(ev, row) ==
    [ev EXCEPT ![CHOOSE i \in Unused : \A j \in Unused : i <= j] = row]

\* retry_event or mark_as_failed; the error was caught inside the transaction,
\* without a savepoint, and what was written before it stays.
AfterFailure(row) ==
    IF row.retries < MaxEventRetries
    THEN [row EXCEPT !.status = "Pending", !.date = today, !.retries = @ + 1]
    ELSE Over(row, "Failed")

Completed(ev, i) == [ev EXCEPT ![i] = Over(@, "Completed")]
Failed(ev, i) == [ev EXCEPT ![i] = AfterFailure(@)]

Running(s) == s.status \in {"Active", "TrialActive"}
Ended(s) == s.status \in {"Cancelled", "Completed"}

\* Mutant: the period's end is kept.
TerminatedKeepingEnd(s, date) ==
    [s EXCEPT !.status = "Cancelled", !.action = "None", !.start = date]

\* terminate_subscription, before it bills.
Terminated(s, date) ==
    [s EXCEPT !.status = "Cancelled", !.action = "None", !.start = date,
              !.end = NoDate]

\* process_apply_plan_change does something: no other plan change has landed
\* since it was scheduled.
Applies(s, row) == s.plan = row.from /\ Running(s)

-----------------------------------------------------------------------------
(* The cycle worker.                                                       *)

Due(s) ==
    /\ s.end <= today /\ ~s.backoff
    /\ s.status \in {"PendingActivation", "TrialActive", "Active"}

\* claim_due_subscriptions.
ClaimDue(w) ==
    /\ cycle[w] = "idle"
    /\ Due(sub) /\ ~sub.claimed
    /\ sub' = [sub EXCEPT !.claimed = TRUE]
    /\ cycle' = [cycle EXCEPT ![w] = "claimed"]
    /\ UNCHANGED <<today, event, work, request, billed, unbilled>>

\* The claim of a worker that is gone runs out.
ClaimExpires ==
    /\ sub.claimed
    /\ \A w \in CycleWorkers : cycle[w] = "idle"
    /\ sub' = [sub EXCEPT !.claimed = FALSE]
    /\ UNCHANGED <<today, event, cycle, work, request, billed, unbilled>>

\* next_retry is reached.
BackoffEnds ==
    /\ sub.backoff
    /\ sub' = [sub EXCEPT !.backoff = FALSE]
    /\ UNCHANGED <<today, event, cycle, work, request, billed, unbilled>>

LetGo(w) == cycle' = [cycle EXCEPT ![w] = "idle"]

\* The period after this one.  Its length is that of the plan of the row as it
\* was locked, before an event changes the plan.
Renewed(s) ==
    [s EXCEPT !.status = "Active", !.action = "RenewSubscription",
              !.start = s.end, !.end = s.end + Length[s.plan]]

NextCycle(s) ==
    CASE s.action = "RenewSubscription" -> Renewed(s)
      [] s.action = "ActivateSubscription" ->
            IF s.trial = 0 THEN Renewed(s)
            ELSE [Renewed(s) EXCEPT !.status = "TrialActive", !.action = "EndTrial",
                                    !.end = s.end + s.trial]
      [] s.action = "EndTrial" ->
            IF s.trialEnd \in {"free", "bill"} THEN Renewed(s)
            ELSE [Renewed(s) EXCEPT !.status = "TrialExpired", !.action = "None"]
      [] s.action = "EndSubscription" ->
            [s EXCEPT !.status = "Completed", !.action = "None",
                      !.start = s.end, !.end = NoDate]

\* end_date falls within the period: it ends there, and the transition after
\* it ends the subscription.
Clamped(n) ==
    IF n.end # NoDate /\ n.until <= n.end
    THEN [n EXCEPT !.action = "EndSubscription", !.end = n.until] ELSE n

\* Mutant: the end date is compared with the end of the period.
ShouldBillUncut(s, n) ==
    /\ n.end = NoDate \/ n.until > n.end
    /\ s.action = "ActivateSubscription" => s.trial = 0
    /\ s.action = "EndTrial" => s.trialEnd \in {"bill", "charge"}

\* Mutant: the end date itself is still billed.
ShouldBillOnEndDate(s, n) ==
    /\ n.end = NoDate \/ n.until >= n.start
    /\ s.action = "ActivateSubscription" => s.trial = 0
    /\ s.action = "EndTrial" => s.trialEnd \in {"bill", "charge"}

ShouldBill(s, n) ==
    /\ n.end = NoDate \/ n.until > n.start
    /\ s.action = "ActivateSubscription" => s.trial = 0
    /\ s.action = "EndTrial" => s.trialEnd \in {"bill", "charge"}

\* Mutant: the oldest event of the day.
OldestEvent(date) ==
    {i \in Pending(EventTypes \ {"EndTrial"}) \ Held :
        event[i].date = date /\ \A j \in Pending(EventTypes \ {"EndTrial"}) \ Held :
                                    event[j].date = date => i <= j}

\* get_event_by_types_and_date_for_update: the newest event of the day, alone.
EventOf(date) ==
    {i \in Pending(EventTypes \ {"EndTrial"}) \ Held :
        event[i].date = date /\ \A j \in Pending(EventTypes \ {"EndTrial"}) \ Held :
                                    event[j].date = date => j <= i}

\* The transaction has the row and finds the subscription still due.
Transition(w) == cycle[w] = "claimed" /\ Due(sub) /\ sub.action # "None"

NextPeriod(s) == Clamped(NextCycle(s))

\* What the transition writes last: the cycle patch and the cleared errors.
Settled(s) == [s EXCEPT !.errors = 0, !.backoff = FALSE, !.claimed = FALSE]

Bill(date) == billed' = billed \cup {date}

\* No longer due: the claim was for nothing.
CycleSkips(w) ==
    /\ cycle[w] = "claimed" /\ ~Due(sub)
    /\ LetGo(w)
    /\ UNCHANGED <<today, sub, event, work, request, billed, unbilled>>

\* Nothing is scheduled for the day, or the subscription ends.
CycleAdvances(w) ==
    LET n == NextPeriod(sub) IN
    /\ Transition(w)
    /\ n.status = "Completed" \/ EventOf(n.start) = {}
    /\ sub' = Settled(n)
    /\ IF ShouldBill(sub, n) THEN Bill(n.start) ELSE UNCHANGED billed
    /\ LetGo(w)
    /\ UNCHANGED <<today, event, work, request, unbilled>>

\* A cancellation is due with the period: it stops the cycle.  The event is
\* completed even when the final invoice could not be made.
CycleCancels(w) ==
    LET date == NextPeriod(sub).start IN
    /\ Transition(w) /\ NextPeriod(sub).status # "Completed"
    /\ CanCancel(SubscriptionTypes)
    /\ \E i \in EventOf(date) :
        /\ event[i].type = "CancelSubscription"
        /\ event' = CancelPending(Completed(event, i), SubscriptionTypes)
    /\ sub' = Settled(Terminated(sub, date))
    /\ \/ Bill(date) /\ UNCHANGED unbilled
       \/ unbilled' = unbilled \cup {date} /\ UNCHANGED billed
    /\ LetGo(w)
    /\ UNCHANGED <<today, work, request>>

\* A plan change or an amendment is due with the period: it is applied, or
\* fails and is completed all the same, and the period is renewed and billed.
CycleChanges(w) ==
    LET n == NextPeriod(sub) IN
    /\ Transition(w) /\ n.status # "Completed"
    /\ CanCancel(SubscriptionTypes)
    /\ \E i \in EventOf(n.start), fails \in BOOLEAN :
        LET row == event[i]
            done == Completed(event, i)
            changes == row.type = "ApplyPlanChange" /\ Applies(sub, row)
        IN
        /\ row.type # "CancelSubscription"
        /\ event' = IF changes /\ ~fails /\ sub.status = "TrialActive"
                    THEN CancelPending(done, SubscriptionTypes) ELSE done
        /\ sub' = Settled([n EXCEPT !.plan = IF changes THEN row.plan ELSE @])
    /\ IF ShouldBill(sub, n) THEN Bill(n.start) ELSE UNCHANGED billed
    /\ LetGo(w)
    /\ UNCHANGED <<today, work, request, unbilled>>

\* The savepoint is rolled back and the error counted.  The claim stays.
CycleFails(w) ==
    LET e == sub.errors + 1 IN
    /\ Transition(w)
    /\ sub' = IF e >= MaxErrors
              THEN [sub EXCEPT !.errors = e, !.status = "Errored"]
              ELSE [sub EXCEPT !.errors = e, !.backoff = TRUE]
    /\ LetGo(w)
    /\ UNCHANGED <<today, event, work, request, billed, unbilled>>

\* The worker's time is up, or its process ends.
CycleGone(w) ==
    /\ cycle[w] = "claimed"
    /\ LetGo(w)
    /\ UNCHANGED <<today, sub, event, work, request, billed, unbilled>>

-----------------------------------------------------------------------------
(* The event worker.                                                       *)

\* An event at the end of the period is left to the cycle worker.
Claimable(i) ==
    /\ event[i].status = "Pending" /\ event[i].date <= today
    /\ sub.end > event[i].date

\* find_and_claim_due_events.
ClaimEvent(v, i) ==
    /\ work[v].step = "idle"
    /\ Claimable(i) /\ i \notin Held
    /\ event' = [event EXCEPT ![i].status = "Processing"]
    /\ work' = [work EXCEPT ![v] = [step |-> "run", event |-> i]]
    /\ UNCHANGED <<today, sub, cycle, request, billed, unbilled>>

Runs(v, type) ==
    /\ work[v].step = "run"
    /\ event[work[v].event].type = type

Done(v) == work' = [work EXCEPT ![v] = NoWork]

\* Mutant: completed whether or not it was billed.
RunCancelOnce(v) ==
    LET i == work[v].event
        ev == CancelPending(event, SubscriptionTypes)
    IN
    /\ Runs(v, "CancelSubscription")
    /\ CanCancel(SubscriptionTypes)
    /\ sub' = Terminated(sub, event[i].date)
    /\ event' = Completed(ev, i)
    /\ Bill(event[i].date) \/ UNCHANGED billed
    /\ Done(v)
    /\ UNCHANGED <<today, cycle, request, unbilled>>

\* process_cancel_subscription: without its invoice it is tried again, but the
\* subscription has ended.
RunCancel(v) ==
    LET i == work[v].event
        ev == CancelPending(event, SubscriptionTypes)
    IN
    /\ Runs(v, "CancelSubscription")
    /\ CanCancel(SubscriptionTypes)
    /\ sub' = Terminated(sub, event[i].date)
    /\ \/ event' = Completed(ev, i) /\ Bill(event[i].date)
       \/ event' = Failed(ev, i) /\ UNCHANGED billed
    /\ Done(v)
    /\ UNCHANGED <<today, cycle, request, unbilled>>

\* process_apply_plan_change: superseded, refused for a subscription that does
\* not run, applied (a paid trial ends with it), or interrupted after the
\* plan was written.
RunPlanChange(v) ==
    LET i == work[v].event
        row == event[i]
    IN
    /\ Runs(v, "ApplyPlanChange")
    /\ CanCancel(SubscriptionTypes)
    /\ \/ /\ sub.plan # row.from
          /\ event' = Completed(event, i) /\ UNCHANGED sub
       \/ /\ sub.plan = row.from /\ ~Running(sub)
          /\ event' = Failed(event, i) /\ UNCHANGED sub
       \/ /\ Applies(sub, row)
          /\ event' = IF sub.status = "TrialActive"
                      THEN CancelPending(Completed(event, i), SubscriptionTypes)
                      ELSE Completed(event, i)
          /\ sub' = [sub EXCEPT !.plan = row.plan, !.status = "Active"]
       \/ /\ Applies(sub, row)
          /\ event' = Failed(event, i)
          /\ sub' = [sub EXCEPT !.plan = row.plan]
    /\ Done(v)
    /\ UNCHANGED <<today, cycle, request, billed, unbilled>>

\* process_apply_amendment: fails for a subscription that does not run.
RunAmendment(v) ==
    LET i == work[v].event IN
    /\ Runs(v, "ApplyAmendment")
    /\ \/ Running(sub) /\ event' = Completed(event, i)
       \/ event' = Failed(event, i)
    /\ Done(v)
    /\ UNCHANGED <<today, sub, cycle, request, billed, unbilled>>

\* process_end_trial reads the subscription without a lock ...
ReadTrial(v) ==
    LET i == work[v].event IN
    /\ Runs(v, "EndTrial")
    /\ IF sub.status = "TrialActive"
       THEN work' = [work EXCEPT ![v].step = "patch"] /\ UNCHANGED event
       ELSE event' = Completed(event, i) /\ Done(v)
    /\ UNCHANGED <<today, sub, cycle, request, billed, unbilled>>

\* ... and makes it active, whatever it has become.
EndTrial(v) ==
    /\ work[v].step = "patch"
    /\ sub' = [sub EXCEPT !.status = "Active"]
    /\ event' = Completed(event, work[v].event)
    /\ Done(v)
    /\ UNCHANGED <<today, cycle, request, billed, unbilled>>

\* The worker's time is up, or its process ends.
WorkerGone(v) ==
    /\ work[v].step # "idle"
    /\ Done(v)
    /\ UNCHANGED <<today, sub, event, cycle, request, billed, unbilled>>

\* retry_timeout_events, for an event whose worker is gone.  Bound: its
\* retries.
EventTimesOut(i) ==
    /\ event[i].status = "Processing" /\ event[i].retries < MaxEventRetries
    /\ \A v \in EventWorkers : work[v].step # "idle" => work[v].event # i
    /\ event' = [event EXCEPT ![i].status = "Pending", ![i].date = today,
                              ![i].retries = @ + 1]
    /\ UNCHANGED <<today, sub, cycle, work, request, billed, unbilled>>

-----------------------------------------------------------------------------
(* Requests.                                                               *)

\* The end of the period that holds today, counted from the row's dates.
PeriodEnd ==
    LET l == Length[sub.plan]
    IN sub.start + l * ((today - sub.start) \div l + 1)

\* cancel_subscription, at once or at the end of the period.  It locks no more
\* than the events it replaces, and looks at no status.
CancelBegin(u, date) ==
    /\ request[u].op = "none"
    /\ CanCancel(LifecycleTypes)
    /\ request' = [request EXCEPT ![u] =
          [op |-> "cancel", date |-> date, events |-> Pending(LifecycleTypes)]]
    /\ UNCHANGED <<today, sub, event, cycle, work, billed, unbilled>>

Close(u) == request' = [request EXCEPT ![u] = NoRequest]

CancelCommit(u) ==
    LET r == request[u]
        ev == [i \in EventIds |-> IF i \in r.events
                                  THEN Over(event[i], "Canceled")
                                  ELSE event[i]]
    IN
    /\ r.op = "cancel" /\ Unused # {}
    /\ event' = Schedule(ev, NewEvent("CancelSubscription", r.date, AnyPlan, AnyPlan))
    /\ Close(u)
    /\ UNCHANGED <<today, sub, cycle, work, billed, unbilled>>

CancelAborts(u) ==
    /\ request[u].op = "cancel"
    /\ Close(u)
    /\ UNCHANGED <<today, sub, event, cycle, work, billed, unbilled>>

\* schedule_plan_change.
SchedulePlanChange(p) ==
    /\ Running(sub) /\ p # sub.plan /\ sub.end # NoDate
    /\ CanCancel(LifecycleTypes) /\ Unused # {}
    /\ event' = Schedule(CancelPending(event, LifecycleTypes),
                         NewEvent("ApplyPlanChange", sub.end, sub.plan, p))
    /\ UNCHANGED <<today, sub, cycle, work, request, billed, unbilled>>

\* apply_plan_change_immediate: a free trial ends in a period that begins today.
ChangePlanNow(p) ==
    /\ Running(sub) /\ p # sub.plan /\ sub.end # NoDate
    /\ today \in sub.start .. sub.end
    /\ CanCancel(SubscriptionTypes)
    /\ event' = CancelPending(event, IF sub.status = "TrialActive" /\ ~FreeTrial(sub)
                                     THEN SubscriptionTypes ELSE LifecycleTypes)
    /\ IF FreeTrial(sub)
       THEN /\ sub' = [sub EXCEPT !.status = "Active", !.plan = p,
                                  !.action = "RenewSubscription", !.start = today,
                                  !.end = today + Length[p]]
            /\ Bill(today)
       ELSE sub' = [sub EXCEPT !.status = "Active", !.plan = p] /\ UNCHANGED billed
    /\ UNCHANGED <<today, cycle, work, request, unbilled>>

\* schedule_amendment: beside a cancellation, but not beside a plan change.
ScheduleAmendment ==
    /\ Running(sub) /\ sub.end # NoDate /\ Unused # {}
    /\ Pending({"ApplyPlanChange"}) = {}
    /\ event' = Schedule(CancelPending(event, {"ApplyAmendment"}),
                         NewEvent("ApplyAmendment", sub.end, AnyPlan, AnyPlan))
    /\ UNCHANGED <<today, sub, cycle, work, request, billed, unbilled>>

\* cancel_scheduled_event, cancel_plan_change and cancel_amendment: the event
\* is pending when it is read, and canceled whatever it has become since.
UndoRead(u, i) ==
    /\ request[u].op = "none"
    /\ i \in Pending(EventTypes \ {"EndTrial"})
    /\ request' = [request EXCEPT ![u] = [op |-> "undo", date |-> 0, events |-> {i}]]
    /\ UNCHANGED <<today, sub, event, cycle, work, billed, unbilled>>

UndoWrite(u) ==
    /\ request[u].op = "undo"
    /\ request[u].events \cap Held = {}
    /\ event' = [i \in EventIds |-> IF i \in request[u].events
                                    THEN Over(event[i], "Canceled")
                                    ELSE event[i]]
    /\ Close(u)
    /\ UNCHANGED <<today, sub, cycle, work, billed, unbilled>>

\* Mutant: the status is not part of the update's condition.
TrialPaidWhenever ==
    /\ sub.start \in billed /\ sub.status # "Active"
    /\ sub' = [sub EXCEPT !.status = "Active", !.action = "RenewSubscription",
                          !.end = sub.start + Length[sub.plan]]
    /\ UNCHANGED <<today, event, cycle, work, request, billed, unbilled>>

\* The invoice made when the trial expired is paid
\* (activate_trial_expired_subscription).
TrialPaid ==
    /\ sub.status = "TrialExpired" /\ sub.start \in billed
    /\ sub' = [sub EXCEPT !.status = "Active", !.action = "RenewSubscription",
                          !.end = sub.start + Length[sub.plan]]
    /\ UNCHANGED <<today, event, cycle, work, request, billed, unbilled>>

NextDay ==
    /\ today < Horizon
    /\ today' = today + 1
    /\ UNCHANGED <<sub, event, cycle, work, request, billed, unbilled>>

LifeNext ==
    \/ \E w \in CycleWorkers :
        \/ ClaimDue(w) \/ CycleSkips(w) \/ CycleAdvances(w) \/ CycleCancels(w)
        \/ CycleChanges(w) \/ CycleFails(w) \/ CycleGone(w)
    \/ ClaimExpires \/ BackoffEnds
    \/ \E v \in EventWorkers :
        \/ \E i \in EventIds : ClaimEvent(v, i)
        \/ RunCancel(v) \/ RunPlanChange(v) \/ RunAmendment(v)
        \/ ReadTrial(v) \/ EndTrial(v) \/ WorkerGone(v)
    \/ \E i \in EventIds : EventTimesOut(i)
    \/ \E u \in Users :
        \/ \E date \in {today, PeriodEnd} : CancelBegin(u, date)
        \/ CancelCommit(u) \/ CancelAborts(u)
        \/ \E i \in EventIds : UndoRead(u, i)
        \/ UndoWrite(u)
    \/ \E p \in Plans : SchedulePlanChange(p) \/ ChangePlanNow(p)
    \/ ScheduleAmendment \/ TrialPaid
    \/ NextDay

LifeSpec == LifeInit /\ [][LifeNext]_lifeVars

-----------------------------------------------------------------------------
(* Properties.                                                             *)

\* Every variable has its type, and no invoice but the first is dated ahead of
\* its day.
LifeTypeOK ==
    /\ today \in 0 .. Horizon
    /\ sub \in SubRow
    /\ event \in [EventIds -> EventRow]
    /\ cycle \in [CycleWorkers -> {"idle", "claimed"}]
    /\ work \in [EventWorkers -> [step : {"idle", "run", "patch"},
                                  event : EventIds \cup {0}]]
    /\ request \in [Users -> [op : {"none", "cancel", "undo"}, date : Days,
                              events : SUBSET EventIds]]
    /\ billed \cup unbilled \subseteq 0 .. today \cup {s.start : s \in Starts}

\* A subscription that has ended does not come back, whatever a worker had
\* claimed or read before it ended.  The exception is the end of a paid trial
\* that read the subscription first: it makes it active again, without a
\* period or a next action.
EndedStaysEnded ==
    [][Ended(sub) /\ ~Ended(sub') => \E v \in EventWorkers : work[v].step = "patch"
      ]_lifeVars

\* Every period a subscription is active in has its invoice, through failures
\* of the transition, events applied within it and trials that end.  A free
\* plan has none for the period after its trial, and nothing is billed from
\* the end date on.  The exception is a trial that a plan change ends and that
\* is_free_trial does not see: one of a paid plan activated after it was
\* inserted, which is given no invoice for its days.
PeriodsBilled ==
    sub.status = "Active" /\ sub.start < sub.end /\ sub.end # NoDate =>
        \/ sub.start \in billed \/ sub.trialEnd = "free"
        \/ sub.action \in {"EndTrial", "EndSubscription"} /\ sub.end <= sub.start + sub.trial

\* The first day is not before the end date.
BeganLate(date) == \E s \in Starts : s.start = date /\ s.until <= date

\* The end date of a subscription without a trial is kept: no period it runs
\* in but the first begins on that day or later, and unless it was cancelled
\* it has no later invoice after that day, and on that day only the final one.
\* (A plan change in a free trial begins a period that is not cut at the end
\* date, and neither is the first one.)
EndDateRespected ==
    sub.trial = 0 =>
        /\ Running(sub) /\ sub.start < sub.end => sub.start < sub.until \/ BeganLate(sub.start)
        /\ sub.status # "Cancelled" => \A d \in billed :
              \/ d < sub.until \/ BeganLate(d)
              \/ d = sub.until /\ sub.status = "Completed"

\* A cancellation committed for the end of the period stops the renewal, the
\* step of a cycle worker that begins a period at the end of the last.  The
\* exception is a change scheduled after it for the same day, an amendment, or
\* a plan change that did not find the cancellation pending because a worker
\* had it: the period is renewed and billed, and the cancellation comes later.
CancellationStopsRenewal ==
    [][cycle' # cycle /\ <<sub'.start, sub'.end>> # <<sub.start, sub.end>>
       /\ sub'.start = sub.end /\ Running(sub') =>
        \A i \in Pending({"CancelSubscription"}) \ Held : event[i].date = sub.end =>
            \E j \in Pending({"ApplyAmendment", "ApplyPlanChange"}) : j > i /\ event[j].date = sub.end
      ]_lifeVars

\* A cancelled subscription has its final invoice, or the cancellation is
\* still to be tried again, has used up its retries, or was undone while it
\* ran.  The exception is an invoice that fails in a cycle transition, which
\* completes the event over its retry.
FinalInvoice ==
    sub.status = "Cancelled" /\ sub.start \notin billed \cup unbilled =>
        \E i \in EventIds :
            /\ event[i].type = "CancelSubscription"
            /\ event[i].status \in {"Pending", "Processing", "Failed", "Canceled"}

\* An event whose day has come is picked up: by the event worker, or by the
\* cycle worker because the period it waits for is over.  A subscription that
\* failed too often or whose trial expired keeps the end of a period that no
\* worker will close, and the events at that end wait with it.
NoEventStranded ==
    \A i \in Pending(EventTypes) : event[i].date <= today =>
        \/ Claimable(i)
        \/ sub.end <= today /\ sub.status \in {"PendingActivation", "TrialActive", "Active"}
        \/ sub.status \in {"Errored", "TrialExpired"}

=============================================================================
