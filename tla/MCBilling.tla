----------------------------- MODULE MCBilling ------------------------------
(***************************************************************************)
(* One instance each of five modules that share no state.  A behaviour is  *)
(* one of one of them: part says which, the others stay as they begin.     *)
(***************************************************************************)
EXTENDS CreditNotes, Lifecycle, Slots, Checkout, Entitlements, TLC

CONSTANTS l1, l2, c1, c2, p1, p2

VARIABLE part

allVars == <<part, notesVars, lifeVars, slotVars, checkoutVars, entitlementVars>>

\* Credit notes: requests for the whole of one line of two.
LinePrices == l1 :> 2 @@ l2 :> 1
LinesAsked == {l1 :> 2 @@ l2 :> 0}

\* Lifecycle: plans billed every second day and every day, the second with a
\* free trial.
Lengths == p1 :> 2 @@ p2 :> 1

StartRow(plan, status, action, end, until, trial, trialEnd) ==
    [status |-> status, action |-> action, start |-> 0, end |-> end, until |-> until,
     plan |-> plan, trial |-> trial, trialEnd |-> trialEnd, errors |-> 0,
     backoff |-> FALSE, claimed |-> FALSE]

\* Two whose first period ends before and on the end date, one that is to be
\* activated for a day, three free trials, committed, charged for and cut by
\* the end date, two paid trials, and one of a paid plan to be activated.
StartRows ==
    {StartRow(p1, "Active", "RenewSubscription", 1, 2, 0, "bill"),
     StartRow(p1, "Active", "RenewSubscription", 1, 1, 0, "bill"),
     StartRow(p1, "PendingActivation", "ActivateSubscription", 0, 1, 0, "bill"),
     StartRow(p2, "TrialActive", "EndTrial", 1, NoDate, 1, "bill"),
     StartRow(p2, "PendingActivation", "ActivateSubscription", 0, NoDate, 1, "charge"),
     StartRow(p2, "PendingActivation", "ActivateSubscription", 0, 1, 1, "bill"),
     StartRow(p1, "TrialActive", "RenewSubscription", 1, NoDate, 1, "bill"),
     StartRow(p1, "TrialActive", "RenewSubscription", 2, NoDate, 1, "bill"),
     StartRow(p1, "PendingActivation", "ActivateSubscription", 0, NoDate, 1, "bill")}

SeatChanges == {-1, 1}

\* Entitlements: one that warns, one that is switched off, one without a limit.
Grant(limit, warning, enabled) == [limit |-> limit, warning |-> warning, enabled |-> enabled]
Grants == {Grant(1, 80, TRUE), Grant(2, Unset, FALSE), Grant(Unlimited, 50, FALSE)}

BillingInit ==
    /\ part \in {"notes", "life", "slots", "checkout", "entitlements"}
    /\ NotesInit /\ LifeInit /\ SlotsInit /\ CheckoutInit /\ EntitlementInit
    /\ part # "life" => sub = CHOOSE s \in StartRows : TRUE
    /\ part # "checkout" => purchase = "SelfServe"
    /\ part # "entitlements" => multiple = {} /\ ~active

BillingNext ==
    /\ UNCHANGED part
    /\ \/ /\ part = "notes" /\ NotesNext
          /\ UNCHANGED <<lifeVars, slotVars, checkoutVars, entitlementVars>>
       \/ /\ part = "life" /\ LifeNext
          /\ UNCHANGED <<notesVars, slotVars, checkoutVars, entitlementVars>>
       \/ /\ part = "slots" /\ SlotsNext
          /\ UNCHANGED <<notesVars, lifeVars, checkoutVars, entitlementVars>>
       \/ /\ part = "checkout" /\ CheckoutNext
          /\ UNCHANGED <<notesVars, lifeVars, slotVars, entitlementVars>>
       \/ /\ part = "entitlements" /\ EntitlementNext
          /\ UNCHANGED <<notesVars, lifeVars, slotVars, checkoutVars>>

BillingSpec == BillingInit /\ [][BillingNext]_allVars

\* The type invariants of the five modules.
TypesOK ==
    /\ part = "notes" => NotesTypeOK
    /\ part = "life" => LifeTypeOK
    /\ part = "slots" => SlotsTypeOK
    /\ part = "checkout" => CheckoutTypeOK
    /\ part = "entitlements" => EntitlementTypeOK

=============================================================================
