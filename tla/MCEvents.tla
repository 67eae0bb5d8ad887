------------------------------ MODULE MCEvents ------------------------------
(***************************************************************************)
(* The queue of jobs, and the events of drafts: modules that share no      *)
(* state.  A behaviour is one of one of them, as part says.                *)
(***************************************************************************)
EXTENDS MessageQueue, Consolidation

CONSTANTS j1, w1, a1, a2

VARIABLE part

allVars == <<part, vars, mergeVars>>

\* Drafts of one seller, paid for alike.
PaidAlike == [d \in Drafts |-> "card"]
OneSeller == [d \in Drafts |-> "merges"]

EventsInit == part \in {"queue", "drafts"} /\ Init /\ MergeInit

\* Once every draft is gone or merged and no event is due, nothing may happen any
\* more; an event a worker left behind would be due again but for the bound.
AtRest == \A d \in Drafts :
    /\ recurring[d].status = "deleted" \/ recurring[d].into # 0
    /\ schedule[d].status # "Pending"

EventsNext ==
    /\ UNCHANGED part
    /\ \/ part = "queue" /\ Next /\ UNCHANGED mergeVars
       \/ part = "drafts" /\ MergeNext /\ UNCHANGED vars
       \/ part = "drafts" /\ AtRest /\ UNCHANGED <<vars, mergeVars>>

EventsSpec == EventsInit /\ [][EventsNext]_allVars

=============================================================================
