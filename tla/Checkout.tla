------------------------------ MODULE Checkout -------------------------------
(***************************************************************************)
(* One checkout session (services/edge.rs, complete_checkout and what it   *)
(* calls; orchestration/payment_transaction_settled.rs;                    *)
(* query/checkout_sessions.rs).                                            *)
(*                                                                         *)
(* complete_checkout charges the customer inside the database transaction  *)
(* that holds the session's row.  A charge that settles at once delivers   *)
(* what was bought in that transaction; a charge the provider leaves       *)
(* pending is recorded, and the event of its settlement delivers later.    *)
(* The handler of that event reads the session without locking its row.    *)
(*                                                                         *)
(* Purchases for nothing are left out, and so are the activations of a     *)
(* subscription, whose charges are payments of its invoice.                *)
(***************************************************************************)
EXTENDS Naturals

CONSTANTS
    Charges,     \* calls of complete_checkout, each with its own charge
    Settlers,    \* workers that handle settled events
    NoCharge

ASSUME CheckoutAssumption == NoCharge \notin Charges

\* A new subscription, an add-on, and the change of a free trial's plan are
\* settled through the session; the change of another plan through an invoice.
Purchases == {"SelfServe", "AddonPurchase", "TrialPlanChange", "PlanChange"}

CheckoutStatus == {"Created", "AwaitingPayment", "Completed", "Expired", "Cancelled"}
CallSteps == {"new", "charging", "over"}
ChargeStatus == {"none", "pending", "settled", "failed"}

VARIABLES
    purchase,     \* checkout_type
    session,      \* checkout_session.status
    overdue,      \* expires_at is past
    callStep,     \* complete_checkout, per charge
    provider,     \* the provider's payment intent
    recorded,     \* payment_transaction.status
    events,       \* charges whose settled event waits in its queue
    settling,     \* settler -> the charge it delivers, NoCharge if none
    onNewPlan,    \* the subscription has the plan the session is for
    delivered,    \* history: how often a charge has delivered
    overlapped    \* history: a settler worked beside another or a call

checkoutVars == <<purchase, session, overdue, callStep, provider, recorded, events,
                  settling, onNewPlan, delivered, overlapped>>

CheckoutInit ==
    /\ purchase \in Purchases
    /\ session = "Created"
    /\ overdue = FALSE
    /\ callStep = [c \in Charges |-> "new"]
    /\ provider = [c \in Charges |-> "none"]
    /\ recorded = [c \in Charges |-> "none"]
    /\ events = {}
    /\ settling = [w \in Settlers |-> NoCharge]
    /\ onNewPlan = FALSE
    /\ delivered = [c \in Charges |-> 0]
    /\ overlapped = FALSE

\* No call holds the session's row.
SessionFree == \A c \in Charges : callStep[c] # "charging"
SettlersIdle == \A w \in Settlers : settling[w] = NoCharge

ChangesPlan == purchase \in {"TrialPlanChange", "PlanChange"}

\* can_complete.
CanComplete == session \in {"Created", "AwaitingPayment"} /\ ~overdue

-----------------------------------------------------------------------------
(* complete_checkout.                                                      *)

\* Mutant: the session is read without locking its row.
BeginCheckoutUnlocked(c) ==
    /\ callStep[c] = "new"
    /\ CanComplete
    /\ ChangesPlan => ~onNewPlan
    /\ callStep' = [callStep EXCEPT ![c] = "charging"]
    /\ overlapped' = (overlapped \/ ~SettlersIdle)
    /\ UNCHANGED <<purchase, session, overdue, provider, recorded, events, settling,
                   onNewPlan, delivered>>

\* complete_checkout up to its call of the provider.  A change to the plan the
\* subscription has is refused.
BeginCheckout(c) ==
    /\ callStep[c] = "new" /\ SessionFree
    /\ CanComplete
    /\ ChangesPlan => ~onNewPlan
    /\ callStep' = [callStep EXCEPT ![c] = "charging"]
    /\ overlapped' = (overlapped \/ ~SettlersIdle)
    /\ UNCHANGED <<purchase, session, overdue, provider, recorded, events, settling,
                   onNewPlan, delivered>>

\* The provider receives the charge, perhaps after its caller has given up.
ProviderCharges(c) ==
    /\ callStep[c] # "new" /\ provider[c] = "none"
    /\ \E s \in {"pending", "settled", "failed"} : provider' = [provider EXCEPT ![c] = s]
    /\ UNCHANGED <<purchase, session, overdue, callStep, recorded, events, settling,
                   onNewPlan, delivered, overlapped>>

ProviderDecides(c) ==
    /\ provider[c] = "pending"
    /\ \E s \in {"settled", "failed"} : provider' = [provider EXCEPT ![c] = s]
    /\ UNCHANGED <<purchase, session, overdue, callStep, recorded, events, settling,
                   onNewPlan, delivered, overlapped>>

Deliver(c) == delivered' = [delivered EXCEPT ![c] = @ + 1]

\* Mutant: what was bought is delivered while its charge is pending.
AwaitPaymentDelivering(c) ==
    /\ recorded' = [recorded EXCEPT ![c] = "pending"]
    /\ session' = "AwaitingPayment"
    /\ Deliver(c)

\* A pending charge is recorded; only add-ons are inserted by then.
AwaitPayment(c) ==
    /\ recorded' = [recorded EXCEPT ![c] = "pending"]
    /\ session' = "AwaitingPayment"
    /\ IF purchase = "AddonPurchase" THEN Deliver(c) ELSE UNCHANGED delivered

\* The provider answered, and the transaction is committed with that answer.
CheckoutReturns(c) ==
    /\ callStep[c] = "charging"
    /\ \/ /\ provider[c] = "settled"
          /\ recorded' = [recorded EXCEPT ![c] = "settled"]
          /\ session' = "Completed"
          /\ onNewPlan' = ChangesPlan
          /\ Deliver(c)
       \/ /\ provider[c] \in {"pending", "settled", "failed"}    \* pending when it answered
          /\ AwaitPayment(c)
          /\ UNCHANGED onNewPlan
    /\ callStep' = [callStep EXCEPT ![c] = "over"]
    /\ UNCHANGED <<purchase, overdue, provider, events, settling, overlapped>>

\* The charge is refused, or an error, a timeout or a crash comes before the
\* commit: everything is rolled back but the charge.
CheckoutFails(c) ==
    /\ callStep[c] = "charging"
    /\ callStep' = [callStep EXCEPT ![c] = "over"]
    /\ UNCHANGED <<purchase, session, overdue, provider, recorded, events, settling,
                   onNewPlan, delivered, overlapped>>

-----------------------------------------------------------------------------
(* The settlement of a pending charge.                                     *)

\* The provider's webhook, as in InvoicePayments.
ChargeWebhook(c) ==
    /\ recorded[c] = "pending" /\ provider[c] \in {"settled", "failed"}
    /\ recorded' = [recorded EXCEPT ![c] = provider[c]]
    /\ events' = events \cup (IF provider[c] = "settled" THEN {c} ELSE {})
    /\ UNCHANGED <<purchase, session, overdue, callStep, provider, settling, onNewPlan,
                   delivered, overlapped>>

\* Mutant: only a session that awaits a payment is worth a delivery.
SettledAlreadyUnlessAwaiting == session # "AwaitingPayment"

\* on_checkout_payment_settled leaves a completed session as it is.
SettledAlready == session = "Completed"

SettledExpired == session = "Expired" \/ overdue

\* on_checkout_payment_settled reads the session.  An event whose visibility
\* timeout is over comes to a second settler.
TakeEvent(w, c) ==
    /\ purchase # "PlanChange"
    /\ c \in events /\ settling[w] = NoCharge
    /\ ~SettledAlready /\ ~SettledExpired
    /\ settling' = [settling EXCEPT ![w] = c]
    /\ overlapped' = (overlapped \/ ~SettlersIdle \/ ~SessionFree)
    /\ UNCHANGED <<purchase, session, overdue, callStep, provider, recorded, events,
                   onNewPlan, delivered>>

\* Its message is acknowledged, or left for another delivery by a crash.
Acknowledge(c) == events' \in {events, events \ {c}}

\* The rest of it, in one transaction that ends with the update of the session.
SettleCheckout(w) ==
    LET c == settling[w] IN
    /\ c # NoCharge /\ SessionFree
    /\ ChangesPlan => ~onNewPlan
    /\ Deliver(c)
    /\ session' = "Completed"
    /\ onNewPlan' = ChangesPlan
    /\ settling' = [settling EXCEPT ![w] = NoCharge]
    /\ Acknowledge(c)
    /\ UNCHANGED <<purchase, overdue, callStep, provider, recorded, overlapped>>

\* It is rolled back, and its message comes again.
SettlementFails(w) ==
    /\ settling[w] # NoCharge
    /\ settling' = [settling EXCEPT ![w] = NoCharge]
    /\ UNCHANGED <<purchase, session, overdue, callStep, provider, recorded, events,
                   onNewPlan, delivered, overlapped>>

\* "already completed, ignoring duplicate webhook".
IgnoreEvent(c) ==
    /\ purchase # "PlanChange" /\ c \in events
    /\ SettledAlready
    /\ events' = events \ {c}
    /\ UNCHANGED <<purchase, session, overdue, callStep, provider, recorded, settling,
                   onNewPlan, delivered, overlapped>>

\* on_invoice_payment_settled, of a change of plan.  The subscription's row is
\* locked by a call that charges; the event of an invoice that was paid finds
\* nothing to deliver.  The session is not touched.
SettleInvoice(c) ==
    /\ purchase = "PlanChange" /\ c \in events /\ SessionFree
    /\ \/ /\ ~onNewPlan /\ delivered[c] = 0
          /\ Deliver(c) /\ onNewPlan' = TRUE
       \/ delivered[c] > 0 /\ UNCHANGED <<delivered, onNewPlan>>
    /\ Acknowledge(c)
    /\ UNCHANGED <<purchase, session, overdue, callStep, provider, recorded, settling,
                   overlapped>>

\* An event whose handler can only fail is dead-lettered.
EventDies(c) ==
    /\ c \in events
    /\ \/ purchase # "PlanChange" /\ ~SettledAlready /\ SettledExpired
       \/ purchase = "PlanChange" /\ onNewPlan /\ delivered[c] = 0
    /\ events' = events \ {c}
    /\ UNCHANGED <<purchase, session, overdue, callStep, provider, recorded, settling,
                   onNewPlan, delivered, overlapped>>

-----------------------------------------------------------------------------
(* The session without its customer.                                       *)

SessionOverdue ==
    /\ ~overdue /\ overdue' = TRUE
    /\ UNCHANGED <<purchase, session, callStep, provider, recorded, events, settling,
                   onNewPlan, delivered, overlapped>>

CloseSession(from, to) ==
    /\ session \in from /\ SessionFree
    /\ session' = to
    /\ UNCHANGED <<purchase, overdue, callStep, provider, recorded, events, settling,
                   onNewPlan, delivered, overlapped>>

\* mark_expired_batch.
ExpireSession == overdue /\ CloseSession({"Created"}, "Expired")

\* mark_cancelled.
CancelSession == CloseSession({"Created", "AwaitingPayment"}, "Cancelled")

CheckoutNext ==
    \/ \E c \in Charges :
        \/ BeginCheckout(c) \/ CheckoutReturns(c) \/ CheckoutFails(c)
        \/ ProviderCharges(c) \/ ProviderDecides(c) \/ ChargeWebhook(c)
        \/ IgnoreEvent(c) \/ SettleInvoice(c) \/ EventDies(c)
        \/ \E w \in Settlers : TakeEvent(w, c)
    \/ \E w \in Settlers : SettleCheckout(w) \/ SettlementFails(w)
    \/ SessionOverdue \/ ExpireSession \/ CancelSession

CheckoutSpec == CheckoutInit /\ [][CheckoutNext]_checkoutVars

-----------------------------------------------------------------------------
(* Properties.                                                             *)

\* Every variable has its type.
CheckoutTypeOK ==
    /\ purchase \in Purchases
    /\ session \in CheckoutStatus
    /\ overdue \in BOOLEAN
    /\ callStep \in [Charges -> CallSteps]
    /\ provider \in [Charges -> ChargeStatus]
    /\ recorded \in [Charges -> ChargeStatus]
    /\ events \subseteq Charges
    /\ settling \in [Settlers -> Charges \cup {NoCharge}]
    /\ onNewPlan \in BOOLEAN
    /\ delivered \in [Charges -> Nat]
    /\ overlapped \in BOOLEAN

\* A recorded charge that has settled is not forgotten: it has delivered, or
\* will, whether its session is cancelled meanwhile or not, unless the session
\* is overdue or another charge has delivered (payment_transaction_settled.rs).
MoneyAccounted ==
    \A c \in Charges :
        recorded[c] = "settled" =>
            \/ delivered[c] > 0
            \/ c \in events
            \/ overdue
            \/ \E d \in Charges \ {c} : delivered[d] > 0

\* Nothing but an add-on is delivered before its charge has settled.  Customers
\* who try again while a charge is pending may pay twice, but get what they
\* bought once, unless a settler worked beside another settler or a call; a
\* change of plan not even then.
DeliveredOnce ==
    purchase # "AddonPurchase" =>
        /\ \A c \in Charges : delivered[c] > 0 => provider[c] = "settled"
        /\ ~overlapped \/ ChangesPlan =>
              \A c, d \in Charges :
                  /\ delivered[c] <= 1
                  /\ delivered[c] > 0 /\ delivered[d] > 0 => c = d

\* A completed session stays completed: no call that found it open writes over
\* the completion by another.
CompletedStays == [][session = "Completed" => session' = "Completed"]_checkoutVars

=============================================================================
