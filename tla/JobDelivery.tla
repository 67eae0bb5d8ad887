---------------------------- MODULE JobDelivery -----------------------------
(***************************************************************************)
(* What a queue promises the rest of the system, in terms of jobs alone:   *)
(* at-least-once processing.  A job is owed from the moment it is          *)
(* accepted; it stops waiting only when it was processed, was put on the   *)
(* shelf of dead letters, or is on record as lost.  It may wait or be      *)
(* processed again after that.                                             *)
(***************************************************************************)
CONSTANT Jobs

VARIABLES
    waiting,    \* jobs a worker can be given
    finished,   \* jobs that were processed at least once
    shelved,    \* jobs an operator decides about
    lost        \* jobs that met an error that is only logged

deliveryVars == <<waiting, finished, shelved, lost>>

\* Jobs that are known, and those that are settled.
Accepted == waiting \cup finished \cup shelved \cup lost
Settled == finished \cup shelved \cup lost

DeliveryInit == waiting = {} /\ finished = {} /\ shelved = {} /\ lost = {}

\* A new job.
Accept(j) ==
    /\ j \notin Accepted
    /\ waiting' = waiting \cup {j}
    /\ UNCHANGED <<finished, shelved, lost>>

\* Only accepted jobs are processed, some of them not for the first time.
Finish(S) ==
    /\ finished' = finished \cup S
    /\ UNCHANGED <<waiting, shelved, lost>>

\* Nothing waits any longer for what is settled.
Retire(S) ==
    /\ S \subseteq Settled
    /\ waiting' = waiting \ S
    /\ UNCHANGED <<finished, shelved, lost>>

\* Jobs are given up for now.
Shelve(S) ==
    /\ shelved' = shelved \cup S
    /\ UNCHANGED <<waiting, finished, lost>>

\* Jobs are off the shelf, as they wait again or are otherwise settled.
Unshelve(S) ==
    /\ S \subseteq waiting \cup finished \cup lost
    /\ shelved' = shelved \ S
    /\ UNCHANGED <<waiting, finished, lost>>

\* An operator has a job processed again; the shelf may be done with it.
Requeue(j) ==
    /\ waiting' = waiting \cup {j}
    /\ shelved' \in {shelved, shelved \ {j}}
    /\ UNCHANGED <<finished, lost>>

\* The one way to fail the promise.
Lose(S, T) ==
    /\ T \subseteq lost'
    /\ lost' = lost \cup S
    /\ shelved' = shelved \ T
    /\ UNCHANGED <<waiting, finished>>

DeliveryNext ==
    \/ \E j \in Jobs : Accept(j)
    \/ \E j \in Accepted : Requeue(j)
    \/ \E S \in SUBSET Accepted :
        Finish(S) \/ Retire(S) \/ Shelve(S) \/ Unshelve(S)
    \/ \E S, T \in SUBSET Accepted : Lose(S, T)

DeliverySpec == DeliveryInit /\ [][DeliveryNext]_deliveryVars

=============================================================================
