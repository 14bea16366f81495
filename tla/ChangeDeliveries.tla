-------------------------- MODULE ChangeDeliveries --------------------------
(***************************************************************************)
(* The outbox of Change Center: notifications and webhooks that the events *)
(* of a change have queued (config_change_deliveries), and the one run of  *)
(* the scheduler job that claims a batch, sends it one after the other and *)
(* writes all outcomes in one transaction (app/modules/change/             *)
(* automation.py, app/modules/db/change.py, app/jobs.py).                  *)
(*                                                                         *)
(* The job runs in the single scheduler process with max_instances = 1, so *)
(* there is one run at a time.  It may be lost at any point: the process   *)
(* dies or the final write is refused by a busy database.                  *)
(***************************************************************************)
EXTENDS Integers, FiniteSets

CONSTANTS
  Deliveries,
  DeliveryAttempts,   \* DELIVERY_ATTEMPTS
  Limit,              \* rows claimed by one run
  MaxLost             \* bound: runs lost with the same delivery in hand

ASSUME DeliveryAssumption ==
  /\ IsFiniteSet(Deliveries)
  /\ DeliveryAttempts \in Nat \ {0} /\ Limit \in Nat \ {0} /\ MaxLost \in Nat

VARIABLES
  status,     \* ConfigChangeDelivery.status, "none" before the row exists
  attempts,   \* ConfigChangeDelivery.attempts
  due,        \* rows whose next_attempt_at has passed; of those in delivery, the ones
              \* whose claim is 5 minutes old
  batch,      \* rows claimed by the current run; {} when none is under way
  outcome,    \* what the run has in memory for them
  received,   \* copies that reached the destination
  unsure,     \* history: attempts reported as failed after the destination had it
  lost        \* history: runs lost with the delivery in hand

vars == <<status, attempts, due, batch, outcome, received, unsure, lost>>

Init ==
  /\ status = [d \in Deliveries |-> "none"]
  /\ attempts = [d \in Deliveries |-> 0]
  /\ due = {} /\ batch = {}
  /\ outcome = [d \in Deliveries |-> "unsent"]
  /\ received = [d \in Deliveries |-> 0]
  /\ unsure = [d \in Deliveries |-> 0]
  /\ lost = [d \in Deliveries |-> 0]

\* record_event inserts the rows of all destinations of an event at once.
RecordEvent(S) ==
  /\ S # {} /\ \A d \in S : status[d] = "none"
  /\ status' = [d \in Deliveries |-> IF d \in S THEN "pending" ELSE status[d]]
  /\ due' = due \cup S
  /\ UNCHANGED <<attempts, batch, outcome, received, unsure, lost>>

\* next_attempt_at, or the 5 minutes after which a claim is stale, pass.
Expire(d) ==
  /\ status[d] \in {"failed", "delivering", "abandoned"} /\ d \notin due
  /\ due' = due \cup {d}
  /\ UNCHANGED <<status, attempts, batch, outcome, received, unsure, lost>>

\* Mutant: a claim that was abandoned is not taken over.
ReadyUnclaimed == {d \in due : status[d] \in {"pending", "failed"}}

\* Mutant: the status of the row is not looked at.
ReadyAny == due

\* The rows that claim_due_deliveries selects from.
Ready == {d \in due : status[d] \in {"pending", "failed", "delivering"}}

ClaimDue ==
  /\ batch = {}
  /\ \E S \in SUBSET Ready :
       /\ S # {} /\ Cardinality(S) <= Limit
       /\ S = Ready \/ Cardinality(S) = Limit
       /\ status' = [d \in Deliveries |-> IF d \in S THEN "delivering" ELSE status[d]]
       /\ attempts' = [d \in Deliveries |-> IF d \in S THEN attempts[d] + 1
                                            ELSE attempts[d]]
       /\ due' = due \ S
       /\ batch' = S
  /\ outcome' = [d \in Deliveries |-> "unsent"]
  /\ UNCHANGED <<received, unsure, lost>>

\* Mutant: an attempt too many.
FailureLate(d) == IF attempts[d] > DeliveryAttempts THEN "abandoned" ELSE "failed"

Failure(d) == IF attempts[d] >= DeliveryAttempts THEN "abandoned" ELSE "failed"

\* One turn of the loop.  A destination may have processed what the sender sees
\* fail, for example when its answer is late.
Send(d) ==
  /\ d \in batch /\ outcome[d] = "unsent"
  /\ \/ /\ outcome' = [outcome EXCEPT ![d] = "delivered"]
        /\ received' = [received EXCEPT ![d] = @ + 1]
        /\ UNCHANGED unsure
     \/ /\ outcome' = [outcome EXCEPT ![d] = Failure(d)]
        /\ UNCHANGED <<received, unsure>>
     \/ /\ outcome' = [outcome EXCEPT ![d] = Failure(d)]
        /\ received' = [received EXCEPT ![d] = @ + 1]
        /\ unsure' = [unsure EXCEPT ![d] = @ + 1]
  /\ UNCHANGED <<status, attempts, due, batch, lost>>

\* Mutant: one outcome for the whole batch.
PersistOneOutcome ==
  /\ batch # {}
  /\ \A d \in batch : outcome[d] # "unsent"
  /\ \E o \in {outcome[d] : d \in batch} :
       status' = [d \in Deliveries |-> IF d \in batch THEN o ELSE status[d]]
  /\ due' = (due \ batch) \cup {d \in batch : status'[d] = "delivered"}
  /\ batch' = {}
  /\ UNCHANGED <<attempts, outcome, received, unsure, lost>>

\* update_deliveries.  next_attempt_at stays in the past for what was delivered.
Persist ==
  /\ batch # {}
  /\ \A d \in batch : outcome[d] # "unsent"
  /\ status' = [d \in Deliveries |-> IF d \in batch THEN outcome[d] ELSE status[d]]
  /\ due' = (due \ batch) \cup {d \in batch : outcome[d] = "delivered"}
  /\ batch' = {}
  /\ UNCHANGED <<attempts, outcome, received, unsure, lost>>

LoseRun ==
  /\ batch # {}
  /\ \A d \in batch : lost[d] < MaxLost
  /\ lost' = [d \in Deliveries |-> IF d \in batch THEN lost[d] + 1 ELSE lost[d]]
  /\ batch' = {}
  /\ UNCHANGED <<status, attempts, due, outcome, received, unsure>>

Next ==
  \/ \E S \in SUBSET Deliveries : RecordEvent(S)
  \/ \E d \in Deliveries : Expire(d) \/ Send(d)
  \/ ClaimDue \/ Persist \/ LoseRun

Spec == Init /\ [][Next]_vars
\* The scheduler starts the job again and again, a run goes on, time passes.
FairSpec == /\ Spec
            /\ WF_vars(ClaimDue) /\ WF_vars(Persist)
            /\ \A d \in Deliveries : WF_vars(Expire(d)) /\ WF_vars(Send(d))

-----------------------------------------------------------------------------
\* Type invariant.
TypeOK ==
  /\ status \in [Deliveries ->
                   {"none", "pending", "delivering", "failed", "delivered", "abandoned"}]
  /\ attempts \in [Deliveries -> Nat]
  /\ due \subseteq Deliveries /\ batch \subseteq Deliveries
  /\ outcome \in [Deliveries -> {"unsent", "delivered", "failed", "abandoned"}]
  /\ received \in [Deliveries -> Nat]
  /\ unsure \in [Deliveries -> Nat] /\ lost \in [Deliveries -> Nat]

\* A delivery that reads 'delivered' has reached its destination, although outcomes
\* are written for a whole batch and batches are taken over from lost runs.
DeliveredReceived == \A d \in Deliveries : status[d] = "delivered" => received[d] > 0

\* A destination gets a second copy only when a run was lost with the first one in
\* hand, or when the first one was reported as failed.
CopiesExplained == \A d \in Deliveries : received[d] <= 1 + lost[d] + unsure[d]

\* Retries are bounded: no delivery is attempted more than DELIVERY_ATTEMPTS times,
\* not counting the runs that were lost.
RetriesBounded == \A d \in Deliveries : attempts[d] <= DeliveryAttempts + lost[d]

\* Every send and every copy has its reason: a due attempt, a lost run, or a failure
\* that was none.
SendsExplained == CopiesExplained /\ RetriesBounded

\* Every queued delivery is delivered or abandoned in the end, those of lost runs too.
EveryDeliverySettles ==
  \A d \in Deliveries :
    status[d] # "none" ~> status[d] \in {"delivered", "abandoned"}
=============================================================================
