---------------------------- MODULE Entitlements -----------------------------
(***************************************************************************)
(* What a subscription is entitled to of one metered feature               *)
(* (repositories/entitlements.rs).                                         *)
(*                                                                         *)
(* Entities own at most one entitlement of the feature each.  Resolution   *)
(* takes those of the entities in the subscription's chain, sorts them by  *)
(* priority and age, and folds them: a higher priority replaces what was   *)
(* accumulated, the same priority is merged with it.  The reset period and *)
(* the overage behaviour are left out; the latest entitlement's are kept.  *)
(***************************************************************************)
EXTENDS Integers, Sequences, FiniteSets, Functions, SequencesExt, FiniteSetsExt

CONSTANTS
    Scopes,            \* what may own an entitlement beside add-ons
    AddOns,
    Values,            \* what an entitlement may grant
    Unlimited, Unset,  \* a limit and a warning that are NULL
    MaxEntitlements    \* bound: rows

ASSUME EntitlementAssumption ==
    /\ Scopes \subseteq {"Feature", "Plan", "PlanVersion", "Subscription"}
    /\ AddOns \cap {"Feature", "Plan", "PlanVersion", "Subscription"} = {}
    /\ Unlimited \notin Nat /\ Unset \notin Nat
    /\ \A v \in Values : /\ v.limit \in Nat \cup {Unlimited}
                         /\ v.warning \in Nat \cup {Unset}
                         /\ v.enabled \in BOOLEAN

Entities == Scopes \cup AddOns

VARIABLES
    granted,    \* the entitlement rows, in the order of their creation
    attached,   \* add-ons of the subscription
    multiple,   \* multi-instance add-ons: max_instances_per_subscription > 1
    active      \* feature.status

entitlementVars == <<granted, attached, multiple, active>>

EntitlementInit ==
    /\ granted = <<>>
    /\ attached = {}
    /\ multiple \in SUBSET AddOns
    /\ active \in BOOLEAN

-----------------------------------------------------------------------------
(* resolve.                                                                *)

Priority(e) ==
    CASE e = "Feature" -> 0 [] e = "Plan" -> 1 [] e \in AddOns -> 2
      [] e = "PlanVersion" -> 3 [] e = "Subscription" -> 4

\* prev_dominates_under_permissive.
Dominates(prev, new) ==
    prev.limit = Unlimited \/ (new.limit # Unlimited /\ prev.limit >= new.limit)

\* The larger of two limits.
LargerLimit(a, b) ==
    IF Unlimited \in {a, b} THEN Unlimited ELSE IF a >= b THEN a ELSE b

\* merge_permissive.
MergePermissive(a, b) ==
    [limit |-> LargerLimit(a.limit, b.limit),
     warning |-> IF a.warning = Unset THEN b.warning
                 ELSE IF b.warning = Unset \/ a.warning <= b.warning THEN a.warning
                 ELSE b.warning,
     enabled |-> a.enabled \/ b.enabled]

\* merge_additive.
MergeAdditive(a, b) ==
    [limit |-> IF Unlimited \in {a.limit, b.limit} THEN Unlimited ELSE a.limit + b.limit,
     warning |-> IF b.warning = Unset THEN a.warning ELSE b.warning,
     enabled |-> a.enabled \/ b.enabled]

Nothing == [priority |-> -1]

\* Mutant: whatever comes first is merged, not the same priority alone.
MergeWithAny(row, acc) ==
    LET ours == [priority |-> Priority(row.owner), origin |-> row.owner, value |-> row.value]
    IN  IF acc = Nothing THEN ours
        ELSE [ours EXCEPT !.origin = IF Dominates(acc.value, row.value) THEN acc.origin ELSE @,
                          !.value = MergePermissive(acc.value, @)]

\* One entitlement on top of those before it.
MergeEntitlement(row, acc) ==
    LET ours == [priority |-> Priority(row.owner), origin |-> row.owner, value |-> row.value]
    IN  IF acc.priority # ours.priority THEN ours
        ELSE IF row.owner \in multiple
        THEN [acc EXCEPT !.value = MergeAdditive(@, row.value)]
        ELSE [ours EXCEPT !.origin = IF Dominates(acc.value, row.value) THEN acc.origin ELSE @,
                          !.value = MergePermissive(acc.value, @)]

\* plan_version_chain, build_chain_for_subscription, and the feature's own.
InChain(e) == e \in AddOns => e \in attached

Chain == {i \in DOMAIN granted : InChain(granted[i].owner)}
Rank(i) == Priority(granted[i].owner)

\* The last of some rows by priority and age.
LastOf(rows) ==
    CHOOSE i \in rows : \A k \in rows : Rank(k) < Rank(i) \/ (Rank(k) = Rank(i) /\ k <= i)

\* The walk through the sorted rows, from its end.  A feature that is not active
\* entitles to nothing.
Resolved ==
    IF active
    THEN MapThenFoldSet(MergeEntitlement, Nothing, LAMBDA i : granted[i], LastOf, Chain)
    ELSE Nothing

-----------------------------------------------------------------------------
(* Operations.                                                             *)

\* create_entitlement; an entity has one of each feature.
CreateEntitlement(e, v) ==
    /\ Len(granted) < MaxEntitlements
    /\ e \notin {granted[i].owner : i \in DOMAIN granted}
    /\ granted' = Append(granted, [owner |-> e, value |-> v])
    /\ UNCHANGED <<attached, multiple, active>>

\* update_entitlement does not change its age.
UpdateEntitlement(i, v) ==
    /\ granted' = [granted EXCEPT ![i].value = v]
    /\ UNCHANGED <<attached, multiple, active>>

DeleteEntitlement(i) ==
    /\ granted' = RemoveAt(granted, i)
    /\ UNCHANGED <<attached, multiple, active>>

\* Add-ons come to the subscription and go.
AttachAddOn(a) ==
    /\ attached' = SymDiff(attached, {a})
    /\ UNCHANGED <<granted, multiple, active>>

\* update_feature, set_feature_status.
SwitchFeature ==
    /\ active' = ~active
    /\ UNCHANGED <<granted, attached, multiple>>

EntitlementNext ==
    \/ \E e \in Entities, v \in Values : CreateEntitlement(e, v)
    \/ \E i \in DOMAIN granted : DeleteEntitlement(i) \/ \E v \in Values : UpdateEntitlement(i, v)
    \/ \E a \in AddOns : AttachAddOn(a)
    \/ SwitchFeature

EntitlementSpec == EntitlementInit /\ [][EntitlementNext]_entitlementVars

-----------------------------------------------------------------------------
(* Properties.                                                             *)

\* Every variable has its type, and an entity owns one entitlement.
EntitlementTypeOK ==
    /\ granted \in Seq([owner : Entities, value : Values])
    /\ \A i, k \in DOMAIN granted : granted[i].owner = granted[k].owner => i = k
    /\ attached \subseteq AddOns /\ multiple \subseteq AddOns
    /\ active \in BOOLEAN

\* The rows that count: those of the highest priority there is.
TopRows == {i \in Chain : \A k \in Chain : Rank(k) <= Rank(i)}

AtLeast(a, b) == a = Unlimited \/ (b # Unlimited /\ a >= b)

\* The documentation of resolve, field by field: what counts is the highest
\* priority; there, one enabled grant enables; the limit is the sum of the grants
\* of multi-instance add-ons, and the largest of others', which is its origin's;
\* among both kinds it is at least the largest; the earliest threshold warns,
\* where no multi-instance add-on sets another.
ResolvesAsDocumented ==
    LET value(i) == granted[i].value
        top == TopRows
        stacked == {i \in top : granted[i].owner \in multiple}
    IN
    IF ~active \/ top = {} THEN Resolved = Nothing ELSE
        /\ Resolved.origin \in {granted[i].owner : i \in top}
        /\ Resolved.value.enabled = \E i \in top : value(i).enabled
        /\ \A i \in top : AtLeast(Resolved.value.limit, value(i).limit)
        /\ stacked = top /\ (\A i \in top : value(i).limit # Unlimited) =>
              Resolved.value.limit = SumFunctionOnSet([i \in Chain |-> value(i).limit], top)
        /\ stacked = {} =>
              /\ \E i \in top : /\ granted[i].owner = Resolved.origin
                                /\ value(i).limit = Resolved.value.limit
              /\ \A i \in top : value(i).warning # Unset =>
                    Resolved.value.warning # Unset
                      /\ Resolved.value.warning <= value(i).warning

=============================================================================
