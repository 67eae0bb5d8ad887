---------------------------- MODULE DraftBilling ----------------------------
(***************************************************************************)
(* What the billing of recurring drafts promises, without transactions,    *)
(* locks or retries: each step takes open drafts and bills them, alone or  *)
(* together with those of the same seller that are paid for alike, for     *)
(* good.  Only then is the event of a draft closed.                        *)
(***************************************************************************)
CONSTANTS Drafts, Payment, Sellers, Consolidating, FirstSeller

VARIABLES
    seller,     \* draft -> the invoicing entity it is billed by
    alone,      \* drafts that were finalized
    groups,     \* the sets of drafts that were billed on one invoice
    gone,       \* deleted drafts
    closed,     \* drafts whose event is over
    moved       \* drafts given to another seller while they were looked for

draftsVars == <<seller, alone, groups, gone, closed, moved>>

\* Drafts nobody has billed or deleted.
OpenDrafts == Drafts \ (alone \cup gone \cup (UNION groups))

DraftsInit ==
    /\ seller = FirstSeller
    /\ alone = {} /\ groups = {} /\ gone = {} /\ closed = {} /\ moved = {}

\* By a user, or by its event, which is over then.
BillAlone(d) ==
    /\ d \in OpenDrafts
    /\ alone' = alone \cup {d}
    /\ closed' \in {closed, closed \cup {d}}
    /\ UNCHANGED <<seller, groups, gone, moved>>

\* By the event of d.
BillTogether(d, S) ==
    /\ S \subseteq OpenDrafts /\ d \in S /\ S # {d}
    /\ seller[d] \in Consolidating
    /\ \A e \in S : seller[e] = seller[d] /\ Payment[e] = Payment[d]
    /\ groups' = groups \cup {S}
    /\ closed' = closed \cup {d}
    /\ UNCHANGED <<seller, alone, gone, moved>>

\* Somebody has dealt with the draft, or has moved it out of sight.
Close(d) ==
    /\ d \notin OpenDrafts \/ d \in moved
    /\ closed' = closed \cup {d}
    /\ UNCHANGED <<seller, alone, groups, gone, moved>>

\* A worker that is late fails the event another has closed.
Reopen(d) ==
    /\ closed' = closed \ {d}
    /\ UNCHANGED <<seller, alone, groups, gone, moved>>

Reassign(d, s) ==
    /\ d \in OpenDrafts
    /\ seller' = [seller EXCEPT ![d] = s]
    /\ moved' \in {moved, moved \cup {d}}
    /\ UNCHANGED <<alone, groups, gone, closed>>

\* A member of a group may still be deleted.
Delete(d) ==
    /\ d \notin alone \cup gone
    /\ gone' = gone \cup {d}
    /\ UNCHANGED <<seller, alone, groups, closed, moved>>

DraftsNext ==
    \E d \in Drafts :
        \/ Reopen(d) \/ Close(d) \/ Delete(d) \/ BillAlone(d)
        \/ \E S \in SUBSET Drafts : BillTogether(d, S)
        \/ \E s \in Sellers : Reassign(d, s)

DraftsSpec == DraftsInit /\ [][DraftsNext]_draftsVars

=============================================================================
