------------------------ MODULE OperationQueueProofs ------------------------
(***************************************************************************)
(* Proofs about the operations queue, for any number of tasks, changes,    *)
(* workers, faults and outages; about the assignments of the monitoring    *)
(* workers, for any forms and any numbers of changes and upsets; and about *)
(* both beside one another.                                                *)
(***************************************************************************)
EXTENDS OperationQueue, ServiceAssignments, MCRequests, FiniteSetTheorems,
        WellFoundedInduction, TLAPS

\* Counting one more at any point keeps a function of natural numbers one.
LEMMA CountUp ==
  ASSUME NEW S, NEW f \in [S -> Nat], NEW x
  PROVE  [f EXCEPT ![x] = @ + 1] \in [S -> Nat]
<1>1. CASE x \in S
  <2>1. f[x] + 1 \in Nat BY <1>1
  <2> QED BY <2>1, <1>1
<1>2. CASE x \notin S
  <2>1. [f EXCEPT ![x] = @ + 1] = f BY <1>2
  <2> QED BY <2>1
<1> QED BY <1>1, <1>2

\* The variables keep their types: in particular a ready count never falls
\* below zero and no worker leaves the program (queue.py, worker.py).
THEOREM TypeCorrect == Spec => []TypeOK
<1>1. Init => TypeOK
  BY DEF Init, TypeOK, Statuses
<1>2. TypeOK /\ [Next]_vars => TypeOK'
  <2> SUFFICES ASSUME TypeOK, [Next]_vars PROVE TypeOK'
    OBVIOUS
  <2> USE BoundAssumption DEF TypeOK, Statuses, Claimable, Terminal, Executing,
          taskVars, changeVars, pubVars, workVars, Fault, Step, Leave, Redelivered
  <2>1. CASE Publisher
    <3>1. CASE RecoverStale BY <3>1 DEF RecoverStale
    <3>2. CASE SelectCreated BY <3>2 DEF SelectCreated
    <3>3. CASE MarkPublished BY <3>3 DEF MarkPublished
    <3>4. CASE PublisherDone BY <3>4 DEF PublisherDone
    <3>5. ASSUME NEW t \in Tasks, PublishConfirmed(t) PROVE TypeOK'
      BY <3>5 DEF PublishConfirmed
    <3> QED BY <2>1, <3>1, <3>2, <3>3, <3>4, <3>5 DEF Publisher
  <2>2. ASSUME NEW w \in Workers, Delivery(w) PROVE TypeOK'
    <3>1. CASE Claim(w) BY <3>1 DEF Claim
    <3>2. CASE Ack(w) BY <3>2 DEF Ack
    <3>3. ASSUME NEW t \in Tasks, Fetch(w, t) PROVE TypeOK'
      BY <3>3 DEF Fetch
    <3> QED BY <2>2, <3>1, <3>2, <3>3 DEF Delivery
  <2>3. ASSUME NEW w \in Workers, Execute(w) PROVE TypeOK'
    <3>1. CASE EnterAnsible(w) BY <3>1 DEF EnterAnsible
    <3>2. CASE EnterChange(w) BY <3>2 DEF EnterChange
    <3>3. CASE LockChange(w) BY <3>3 DEF LockChange
    <3>4. CASE Recheck(w) BY <3>4 DEF Recheck
    <3>5. CASE MarkStarted(w) BY <3>5 DEF MarkStarted
    <3>6. CASE StartRemote(w) BY <3>6, CountUp DEF StartRemote
    <3>7. CASE FinishAnsible(w) BY <3>7 DEF FinishAnsible
    <3>8. CASE FinishChange(w) BY <3>8 DEF FinishChange
    <3> QED BY <2>3, <3>1, <3>2, <3>3, <3>4, <3>5, <3>6, <3>7, <3>8 DEF Execute
  <2>4. ASSUME NEW w \in Workers, Renew(w) PROVE TypeOK'
    BY <2>4 DEF Renew
  <2>5. ASSUME NEW t \in Tasks, LeaseExpires(t) PROVE TypeOK'
    BY <2>5 DEF LeaseExpires
  <2>6. CASE Environment
    <3>1. CASE PublisherCrash BY <3>1 DEF PublisherCrash
    <3>2. ASSUME NEW t \in Tasks,
                 CreateAnsible(t) \/ EnqueueChange(t) \/ Prune(t)
          PROVE  TypeOK'
      BY <3>2, KindAssumption DEF CreateAnsible, EnqueueChange, Prune
    <3>3. ASSUME NEW t \in Tasks, PublishFailed(t) PROVE TypeOK'
      BY <3>3, CountUp DEF PublishFailed
    <3>4. ASSUME NEW w \in Workers, Nack(w) PROVE TypeOK'
      BY <3>4, CountUp DEF Nack
    <3>5. ASSUME NEW w \in Workers, ConnectionLost(w) PROVE TypeOK'
      BY <3>5, CountUp DEF ConnectionLost
    <3>6. ASSUME NEW w \in Workers, GiveUp(w) PROVE TypeOK'
      BY <3>6 DEF GiveUp
    <3>7. ASSUME NEW w \in Workers, WorkerCrash(w) PROVE TypeOK'
      BY <3>7, CountUp DEF WorkerCrash
    <3> QED BY <2>6, <3>1, <3>2, <3>3, <3>4, <3>5, <3>6, <3>7 DEF Environment
  <2>7. CASE UNCHANGED vars
    BY <2>7 DEF vars
  <2> QED BY <2>1, <2>2, <2>3, <2>4, <2>5, <2>6, <2>7 DEF Next
<1> QED BY <1>1, <1>2, PTL DEF Spec

-----------------------------------------------------------------------------
(* Change commands.  The lock of the change makes the reading of "started", *)
(* the marker and the start of the remote work one critical section, and    *)
(* the reservation can only be released by the command that holds it.       *)

OnChange(w) == job[w] \in ChangeTasks

CommandInv ==
  /\ \A w \in Workers :
       /\ pc[w] # "idle" => job[w] \in Tasks
       /\ pc[w] \in {"waiting", "locked", "checked", "marked", "failing"} => OnChange(w)
       /\ pc[w] \in Holding /\ OnChange(w) => lock[ChangeOf[job[w]]] = w
       /\ pc[w] \in {"checked", "marked", "remote", "failing"} /\ OnChange(w)
            => active[ChangeOf[job[w]]] = job[w]
       /\ pc[w] = "checked" => ~started[job[w]]
       /\ pc[w] = "marked" => started[job[w]] /\ starts[job[w]] = 0
  /\ \A t \in ChangeTasks :
       /\ starts[t] <= 1
       /\ ~started[t] => starts[t] = 0

\* The steps of another worker's execution and of everybody else leave the
\* critical section alone.
LEMMA CommandInvInductive ==
  TypeOK /\ CommandInv /\ [Next]_vars => CommandInv'
<1> SUFFICES ASSUME TypeOK, CommandInv, [Next]_vars PROVE CommandInv'
  OBVIOUS
<1> USE KindAssumption, SentinelAssumption
    DEF TypeOK, CommandInv, OnChange, Holding, Executing, taskVars, changeVars,
        pubVars, workVars, Fault, Step, Leave
<1>1. CASE Publisher
  <2>1. CASE RecoverStale BY <2>1 DEF RecoverStale
  <2>2. CASE SelectCreated BY <2>2 DEF SelectCreated
  <2>3. CASE MarkPublished BY <2>3 DEF MarkPublished
  <2>4. CASE PublisherDone BY <2>4 DEF PublisherDone
  <2>5. ASSUME NEW t \in Tasks, PublishConfirmed(t) PROVE CommandInv'
    BY <2>5 DEF PublishConfirmed
  <2> QED BY <1>1, <2>1, <2>2, <2>3, <2>4, <2>5 DEF Publisher
<1>2. ASSUME NEW w \in Workers, Delivery(w) PROVE CommandInv'
  <2>1. CASE Claim(w) BY <2>1 DEF Claim
  <2>2. CASE Ack(w) BY <2>2 DEF Ack
  <2>3. ASSUME NEW t \in Tasks, Fetch(w, t) PROVE CommandInv'
    BY <2>3 DEF Fetch
  <2> QED BY <1>2, <2>1, <2>2, <2>3 DEF Delivery
<1>3. ASSUME NEW w \in Workers, Execute(w) PROVE CommandInv'
  <2>1. CASE EnterAnsible(w) BY <2>1 DEF EnterAnsible
  <2>2. CASE EnterChange(w) BY <2>2 DEF EnterChange
  <2>3. CASE LockChange(w) BY <2>3 DEF LockChange
  <2>4. CASE Recheck(w) BY <2>4 DEF Recheck
  <2>5. CASE MarkStarted(w) BY <2>5 DEF MarkStarted
  <2>6. CASE StartRemote(w) BY <2>6 DEF StartRemote
  <2>7. CASE FinishAnsible(w) BY <2>7 DEF FinishAnsible
  <2>8. CASE FinishChange(w) BY <2>8 DEF FinishChange
  <2> QED BY <1>3, <2>1, <2>2, <2>3, <2>4, <2>5, <2>6, <2>7, <2>8 DEF Execute
<1>4. ASSUME NEW w \in Workers, Renew(w) PROVE CommandInv'
  BY <1>4 DEF Renew
<1>5. ASSUME NEW t \in Tasks, LeaseExpires(t) PROVE CommandInv'
  BY <1>5 DEF LeaseExpires
<1>6. CASE Environment
  <2>1. CASE PublisherCrash BY <2>1 DEF PublisherCrash
  <2>2. ASSUME NEW t \in Tasks, CreateAnsible(t) PROVE CommandInv'
    BY <2>2 DEF CreateAnsible
  <2>3. ASSUME NEW t \in Tasks, EnqueueChange(t) PROVE CommandInv'
    BY <2>3 DEF EnqueueChange
  <2>4. ASSUME NEW t \in Tasks, Prune(t) PROVE CommandInv'
    BY <2>4 DEF Prune
  <2>5. ASSUME NEW t \in Tasks, PublishFailed(t) PROVE CommandInv'
    BY <2>5 DEF PublishFailed
  <2>6. ASSUME NEW w \in Workers, Nack(w) PROVE CommandInv'
    BY <2>6 DEF Nack
  <2>7. ASSUME NEW w \in Workers, ConnectionLost(w) PROVE CommandInv'
    BY <2>7 DEF ConnectionLost
  <2>8. ASSUME NEW w \in Workers, GiveUp(w) PROVE CommandInv'
    BY <2>8 DEF GiveUp
  <2>9. ASSUME NEW w \in Workers, WorkerCrash(w) PROVE CommandInv'
    BY <2>9 DEF WorkerCrash
  <2> QED BY <1>6, <2>1, <2>2, <2>3, <2>4, <2>5, <2>6, <2>7, <2>8, <2>9 DEF Environment
<1>7. CASE UNCHANGED vars
  BY <1>7 DEF vars
<1> QED BY <1>1, <1>2, <1>3, <1>4, <1>5, <1>6, <1>7 DEF Next

\* The critical section of a change command is kept by every behaviour.
LEMMA CommandInvariant == Spec => []CommandInv
<1>1. Init => CommandInv
  BY KindAssumption DEF Init, CommandInv, OnChange, Holding
<1> QED BY <1>1, TypeCorrect, CommandInvInductive, PTL DEF Spec

\* Whatever crashes, is redelivered or outlives its lease, the remote work of
\* a change command begins at most once (change/operations.py, execute).
THEOREM RemoteWorkOnce == Spec => []ChangeRunsOnce
<1>1. CommandInv => ChangeRunsOnce
  BY DEF CommandInv, ChangeRunsOnce
<1> QED BY <1>1, CommandInvariant, PTL

\* Remote work on a change is done under the change's reservation and by one
\* worker at a time (file_lock, _finish, enqueue).
THEOREM RemoteWorkUnderReservation == Spec => []RemoteWorkReserved
<1>1. TypeOK /\ CommandInv => RemoteWorkReserved
  BY DEF CommandInv, RemoteWorkReserved, OnChange, Holding
<1> QED BY <1>1, TypeCorrect, CommandInvariant, PTL

-----------------------------------------------------------------------------
(* Leases.  Without an outage a task that somebody executes is "running"    *)
(* under a fresh lease, so nobody else can claim it.                        *)

LeaseInv ==
  outages = 0 =>
    \A w \in Workers : pc[w] \in Executing =>
      /\ status[job[w]] = "running" /\ lease[job[w]]
      /\ \A v \in Workers : pc[v] \in Executing /\ job[v] = job[w] => v = w

\* Claims need a row nobody executes, and recovery needs an expired lease.
LEMMA LeaseInvInductive ==
  TypeOK /\ CommandInv /\ LeaseInv /\ [Next]_vars => LeaseInv'
<1> SUFFICES ASSUME TypeOK, CommandInv, LeaseInv, [Next]_vars PROVE LeaseInv'
  OBVIOUS
<1> USE KindAssumption, SentinelAssumption, BoundAssumption
    DEF TypeOK, LeaseInv, Executing, Claimable, Terminal, ExecutedBy, taskVars,
        changeVars, pubVars, workVars, Fault, Step, Leave
<1>0. \A w \in Workers : pc[w] # "idle" => job[w] \in Tasks
  BY DEF CommandInv
<1>1. CASE Publisher
  <2>1. CASE RecoverStale BY <2>1, <1>0 DEF RecoverStale
  <2>2. CASE SelectCreated BY <2>2 DEF SelectCreated
  <2>3. CASE MarkPublished BY <2>3 DEF MarkPublished
  <2>4. CASE PublisherDone BY <2>4 DEF PublisherDone
  <2>5. ASSUME NEW t \in Tasks, PublishConfirmed(t) PROVE LeaseInv'
    BY <2>5 DEF PublishConfirmed
  <2> QED BY <1>1, <2>1, <2>2, <2>3, <2>4, <2>5 DEF Publisher
<1>2. ASSUME NEW w \in Workers, Delivery(w) PROVE LeaseInv'
  <2>1. CASE Claim(w) BY <2>1, <1>0 DEF Claim
  <2>2. CASE Ack(w) BY <2>2 DEF Ack
  <2>3. ASSUME NEW t \in Tasks, Fetch(w, t) PROVE LeaseInv'
    BY <2>3 DEF Fetch
  <2> QED BY <1>2, <2>1, <2>2, <2>3 DEF Delivery
<1>3. ASSUME NEW w \in Workers, Execute(w) PROVE LeaseInv'
  <2>1. CASE EnterAnsible(w) BY <2>1 DEF EnterAnsible
  <2>2. CASE EnterChange(w) BY <2>2, <1>0 DEF EnterChange
  <2>3. CASE LockChange(w) BY <2>3 DEF LockChange
  <2>4. CASE Recheck(w) BY <2>4 DEF Recheck
  <2>5. CASE MarkStarted(w) BY <2>5 DEF MarkStarted
  <2>6. CASE StartRemote(w) BY <2>6 DEF StartRemote
  <2>7. CASE FinishAnsible(w) BY <2>7 DEF FinishAnsible
  <2>8. CASE FinishChange(w) BY <2>8, <1>0 DEF FinishChange
  <2> QED BY <1>3, <2>1, <2>2, <2>3, <2>4, <2>5, <2>6, <2>7, <2>8 DEF Execute
<1>4. ASSUME NEW w \in Workers, Renew(w) PROVE LeaseInv'
  BY <1>4 DEF Renew
<1>5. ASSUME NEW t \in Tasks, LeaseExpires(t) PROVE LeaseInv'
  BY <1>5 DEF LeaseExpires
<1>6. CASE Environment
  <2>1. CASE PublisherCrash BY <2>1 DEF PublisherCrash
  <2>2. ASSUME NEW t \in Tasks, CreateAnsible(t) PROVE LeaseInv'
    BY <2>2 DEF CreateAnsible
  <2>3. ASSUME NEW t \in Tasks, EnqueueChange(t) PROVE LeaseInv'
    BY <2>3 DEF EnqueueChange
  <2>4. ASSUME NEW t \in Tasks, Prune(t) PROVE LeaseInv'
    BY <2>4 DEF Prune
  <2>5. ASSUME NEW t \in Tasks, PublishFailed(t) PROVE LeaseInv'
    BY <2>5 DEF PublishFailed
  <2>6. ASSUME NEW w \in Workers, Nack(w) PROVE LeaseInv'
    BY <2>6 DEF Nack
  <2>7. ASSUME NEW w \in Workers, ConnectionLost(w) PROVE LeaseInv'
    BY <2>7 DEF ConnectionLost
  <2>8. ASSUME NEW w \in Workers, GiveUp(w) PROVE LeaseInv'
    BY <2>8 DEF GiveUp
  <2>9. ASSUME NEW w \in Workers, WorkerCrash(w) PROVE LeaseInv'
    BY <2>9 DEF WorkerCrash
  <2> QED BY <1>6, <2>1, <2>2, <2>3, <2>4, <2>5, <2>6, <2>7, <2>8, <2>9 DEF Environment
<1>7. CASE UNCHANGED vars
  BY <1>7 DEF vars
<1> QED BY <1>1, <1>2, <1>3, <1>4, <1>5, <1>6, <1>7 DEF Next

\* A task in execution is running under a fresh lease, without outages.
LEMMA LeaseInvariant == Spec => []LeaseInv
<1>1. Init => LeaseInv
  BY DEF Init, LeaseInv, Executing
<1> QED BY <1>1, TypeCorrect, CommandInvariant, LeaseInvInductive, PTL DEF Spec

\* As long as no lease expires under a live worker, no task is ever executed
\* by two workers (claim_operation, renew_operation_lease).
THEOREM TaskExclusive == Spec => []ExclusiveExecution
<1>1. LeaseInv => ExclusiveExecution
  BY DEF LeaseInv, ExclusiveExecution, ExecutedBy
<1> QED BY <1>1, LeaseInvariant, PTL

-----------------------------------------------------------------------------
(* Wake-ups.  Between its confirmation and the update of its row, a message *)
(* can only disappear by a claim, which takes the row out of "created".     *)

WakeupInv ==
  /\ pubpc = "sent" => sending \in Tasks
  /\ \A t \in batch : status[t] # "none"
  /\ sending \in Tasks => status[sending] # "none"
  /\ pubpc = "sent" /\ status[sending] = "created" => HasWakeup(sending)
  /\ \A t \in Tasks : status[t] = "published" => HasWakeup(t)

\* Every step that consumes a wake-up takes the row out of the outbox.
LEMMA WakeupInvInductive ==
  TypeOK /\ CommandInv /\ WakeupInv /\ [Next]_vars => WakeupInv'
<1> SUFFICES ASSUME TypeOK, CommandInv, WakeupInv, [Next]_vars PROVE WakeupInv'
  OBVIOUS
<1> USE KindAssumption, SentinelAssumption, BoundAssumption
    DEF TypeOK, WakeupInv, HasWakeup, Executing, Claimable, Terminal, taskVars, changeVars,
        pubVars, workVars, Fault, Step, Leave, Redelivered
<1>0. \A w \in Workers : pc[w] # "idle" => job[w] \in Tasks
  BY DEF CommandInv
<1>1. CASE Publisher
  <2>1. CASE RecoverStale BY <2>1 DEF RecoverStale
  <2>2. CASE SelectCreated BY <2>2 DEF SelectCreated
  <2>3. CASE MarkPublished BY <2>3 DEF MarkPublished
  <2>4. CASE PublisherDone BY <2>4 DEF PublisherDone
  <2>5. ASSUME NEW t \in Tasks, PublishConfirmed(t) PROVE WakeupInv'
    BY <2>5 DEF PublishConfirmed
  <2> QED BY <1>1, <2>1, <2>2, <2>3, <2>4, <2>5 DEF Publisher
<1>2. ASSUME NEW w \in Workers, Delivery(w) PROVE WakeupInv'
  <2>1. CASE Claim(w) BY <2>1 DEF Claim
  <2>2. CASE Ack(w) BY <2>2 DEF Ack
  <2>3. ASSUME NEW t \in Tasks, Fetch(w, t) PROVE WakeupInv'
    BY <2>3 DEF Fetch
  <2> QED BY <1>2, <2>1, <2>2, <2>3 DEF Delivery
<1>3. ASSUME NEW w \in Workers, Execute(w) PROVE WakeupInv'
  <2>1. CASE EnterAnsible(w) BY <2>1 DEF EnterAnsible
  <2>2. CASE EnterChange(w) BY <2>2 DEF EnterChange
  <2>3. CASE LockChange(w) BY <2>3 DEF LockChange
  <2>4. CASE Recheck(w) BY <2>4 DEF Recheck
  <2>5. CASE MarkStarted(w) BY <2>5 DEF MarkStarted
  <2>6. CASE StartRemote(w) BY <2>6 DEF StartRemote
  <2>7. CASE FinishAnsible(w) BY <2>7 DEF FinishAnsible
  <2>8. CASE FinishChange(w) BY <2>8 DEF FinishChange
  <2> QED BY <1>3, <2>1, <2>2, <2>3, <2>4, <2>5, <2>6, <2>7, <2>8 DEF Execute
<1>4. ASSUME NEW w \in Workers, Renew(w) PROVE WakeupInv'
  BY <1>4 DEF Renew
<1>5. ASSUME NEW t \in Tasks, LeaseExpires(t) PROVE WakeupInv'
  BY <1>5 DEF LeaseExpires
<1>6. CASE Environment
  <2>1. CASE PublisherCrash BY <2>1 DEF PublisherCrash
  <2>2. ASSUME NEW t \in Tasks, CreateAnsible(t) PROVE WakeupInv'
    BY <2>2 DEF CreateAnsible
  <2>3. ASSUME NEW t \in Tasks, EnqueueChange(t) PROVE WakeupInv'
    BY <2>3 DEF EnqueueChange
  <2>4. ASSUME NEW t \in Tasks, Prune(t) PROVE WakeupInv'
    BY <2>4 DEF Prune
  <2>5. ASSUME NEW t \in Tasks, PublishFailed(t) PROVE WakeupInv'
    BY <2>5 DEF PublishFailed
  <2>6. ASSUME NEW w \in Workers, Nack(w) PROVE WakeupInv'
    BY <2>6 DEF Nack
  <2>7. ASSUME NEW w \in Workers, ConnectionLost(w) PROVE WakeupInv'
    BY <2>7 DEF ConnectionLost
  <2>8. ASSUME NEW w \in Workers, GiveUp(w) PROVE WakeupInv'
    BY <2>8 DEF GiveUp
  <2>9. ASSUME NEW w \in Workers, WorkerCrash(w) PROVE WakeupInv'
    BY <2>9 DEF WorkerCrash
  <2> QED BY <1>6, <2>1, <2>2, <2>3, <2>4, <2>5, <2>6, <2>7, <2>8, <2>9 DEF Environment
<1>7. CASE UNCHANGED vars
  BY <1>7 DEF vars
<1> QED BY <1>1, <1>2, <1>3, <1>4, <1>5, <1>6, <1>7 DEF Next

\* RabbitMQ always has the wake-up message of a published row, so the rows the
\* recovery does not look at are never stranded (publish_pending_operations).
THEOREM WakeupNeverLost == Spec => []PublishedHasWakeup
<1>1. Init => WakeupInv
  BY SentinelAssumption DEF Init, WakeupInv
<1>2. WakeupInv => PublishedHasWakeup
  BY DEF WakeupInv, PublishedHasWakeup
<1> QED BY <1>1, <1>2, TypeCorrect, CommandInvariant, WakeupInvInductive, PTL DEF Spec

-----------------------------------------------------------------------------
(* Reservations and outcomes. *)

ReservationInv ==
  \A c \in Changes : active[c] # NoTask =>
    /\ active[c] \in ChangeTasks /\ ChangeOf[active[c]] = c
    /\ status[active[c]] \in Claimable \cup {"running"}

\* A reservation is released in the step that ends its command.
LEMMA ReservationInvInductive ==
  TypeOK /\ CommandInv /\ ReservationInv /\ [Next]_vars => ReservationInv'
<1> SUFFICES ASSUME TypeOK, CommandInv, ReservationInv, [Next]_vars PROVE ReservationInv'
  OBVIOUS
<1> USE KindAssumption, SentinelAssumption, BoundAssumption
    DEF TypeOK, ReservationInv, Claimable, Terminal, taskVars, changeVars, pubVars,
        workVars, Fault, Step, Leave
<1>0. \A w \in Workers : pc[w] # "idle" => job[w] \in Tasks
  BY DEF CommandInv
<1>1. CASE Publisher
  <2>1. CASE RecoverStale BY <2>1 DEF RecoverStale
  <2>2. CASE SelectCreated BY <2>2 DEF SelectCreated
  <2>3. CASE MarkPublished BY <2>3 DEF MarkPublished
  <2>4. CASE PublisherDone BY <2>4 DEF PublisherDone
  <2>5. ASSUME NEW t \in Tasks, PublishConfirmed(t) PROVE ReservationInv'
    BY <2>5 DEF PublishConfirmed
  <2> QED BY <1>1, <2>1, <2>2, <2>3, <2>4, <2>5 DEF Publisher
<1>2. ASSUME NEW w \in Workers, Delivery(w) PROVE ReservationInv'
  <2>1. CASE Claim(w) BY <2>1 DEF Claim
  <2>2. CASE Ack(w) BY <2>2 DEF Ack
  <2>3. ASSUME NEW t \in Tasks, Fetch(w, t) PROVE ReservationInv'
    BY <2>3 DEF Fetch
  <2> QED BY <1>2, <2>1, <2>2, <2>3 DEF Delivery
<1>3. ASSUME NEW w \in Workers, Execute(w) PROVE ReservationInv'
  <2>1. CASE EnterAnsible(w) BY <2>1 DEF EnterAnsible
  <2>2. CASE EnterChange(w) BY <2>2 DEF EnterChange
  <2>3. CASE LockChange(w) BY <2>3 DEF LockChange
  <2>4. CASE Recheck(w) BY <2>4 DEF Recheck
  <2>5. CASE MarkStarted(w) BY <2>5 DEF MarkStarted
  <2>6. CASE StartRemote(w) BY <2>6 DEF StartRemote
  <2>7. CASE FinishAnsible(w) BY <2>7 DEF FinishAnsible
  <2>8. CASE FinishChange(w) BY <2>8 DEF FinishChange
  <2> QED BY <1>3, <2>1, <2>2, <2>3, <2>4, <2>5, <2>6, <2>7, <2>8 DEF Execute
<1>4. ASSUME NEW w \in Workers, Renew(w) PROVE ReservationInv'
  BY <1>4 DEF Renew
<1>5. ASSUME NEW t \in Tasks, LeaseExpires(t) PROVE ReservationInv'
  BY <1>5 DEF LeaseExpires
<1>6. CASE Environment
  <2>1. CASE PublisherCrash BY <2>1 DEF PublisherCrash
  <2>2. ASSUME NEW t \in Tasks, CreateAnsible(t) PROVE ReservationInv'
    BY <2>2 DEF CreateAnsible
  <2>3. ASSUME NEW t \in Tasks, EnqueueChange(t) PROVE ReservationInv'
    BY <2>3 DEF EnqueueChange
  <2>4. ASSUME NEW t \in Tasks, Prune(t) PROVE ReservationInv'
    BY <2>4 DEF Prune
  <2>5. ASSUME NEW t \in Tasks, PublishFailed(t) PROVE ReservationInv'
    BY <2>5 DEF PublishFailed
  <2>6. ASSUME NEW w \in Workers, Nack(w) PROVE ReservationInv'
    BY <2>6 DEF Nack
  <2>7. ASSUME NEW w \in Workers, ConnectionLost(w) PROVE ReservationInv'
    BY <2>7 DEF ConnectionLost
  <2>8. ASSUME NEW w \in Workers, GiveUp(w) PROVE ReservationInv'
    BY <2>8 DEF GiveUp
  <2>9. ASSUME NEW w \in Workers, WorkerCrash(w) PROVE ReservationInv'
    BY <2>9 DEF WorkerCrash
  <2> QED BY <1>6, <2>1, <2>2, <2>3, <2>4, <2>5, <2>6, <2>7, <2>8, <2>9 DEF Environment
<1>7. CASE UNCHANGED vars
  BY <1>7 DEF vars
<1> QED BY <1>1, <1>2, <1>3, <1>4, <1>5, <1>6, <1>7 DEF Next

\* Every reservation names a command of its own change that has not ended.
LEMMA ReservationInvariant == Spec => []ReservationInv
<1>1. Init => ReservationInv
  BY DEF Init, ReservationInv
<1> QED BY <1>1, TypeCorrect, CommandInvariant, ReservationInvInductive, PTL DEF Spec

\* A reservation always names a command that is still to end, so a change is
\* never blocked by one that has (enqueue, _finish).
THEOREM ReservationNeverLeaks == Spec => []ReservationLive
<1>1. ReservationInv => ReservationLive
  BY DEF ReservationInv, ReservationLive
<1> QED BY <1>1, ReservationInvariant, PTL

\* What OutcomeFinal says of one step.
KeepsOutcomes ==
  \A t \in Tasks :
    /\ status[t] \in Terminal
    /\ t \in ChangeTasks \/ outages = 0
    => status'[t] \in {status[t], "pruned"}

\* No single step overwrites an outcome.
LEMMA OutcomesKept ==
  TypeOK /\ CommandInv /\ LeaseInv /\ ReservationInv /\ [Next]_vars => KeepsOutcomes
<1> SUFFICES ASSUME TypeOK, CommandInv, LeaseInv, ReservationInv, [Next]_vars PROVE KeepsOutcomes
  OBVIOUS
<1> USE KindAssumption, SentinelAssumption, BoundAssumption
    DEF TypeOK, KeepsOutcomes, Claimable, Terminal, taskVars, changeVars, pubVars,
        workVars, Fault, Step, Leave
<1>0. /\ \A w \in Workers : pc[w] # "idle" => job[w] \in Tasks
      /\ \A w \in Workers : pc[w] = "remote" /\ outages = 0 => status[job[w]] = "running"
      /\ \A t \in ChangeTasks : active[ChangeOf[t]] = t =>
           status[t] \in {"created", "published", "running"}
  BY DEF CommandInv, LeaseInv, Executing, ReservationInv
<1>1. CASE Publisher
  <2>1. CASE RecoverStale BY <2>1 DEF RecoverStale
  <2>2. CASE SelectCreated BY <2>2 DEF SelectCreated
  <2>3. CASE MarkPublished BY <2>3 DEF MarkPublished
  <2>4. CASE PublisherDone BY <2>4 DEF PublisherDone
  <2>5. ASSUME NEW t \in Tasks, PublishConfirmed(t) PROVE KeepsOutcomes
    BY <2>5 DEF PublishConfirmed
  <2> QED BY <1>1, <2>1, <2>2, <2>3, <2>4, <2>5 DEF Publisher
<1>2. ASSUME NEW w \in Workers, Delivery(w) PROVE KeepsOutcomes
  <2>1. CASE Claim(w) BY <2>1 DEF Claim
  <2>2. CASE Ack(w) BY <2>2 DEF Ack
  <2>3. ASSUME NEW t \in Tasks, Fetch(w, t) PROVE KeepsOutcomes
    BY <2>3 DEF Fetch
  <2> QED BY <1>2, <2>1, <2>2, <2>3 DEF Delivery
<1>3. ASSUME NEW w \in Workers, Execute(w) PROVE KeepsOutcomes
  <2>1. CASE EnterAnsible(w) BY <2>1 DEF EnterAnsible
  <2>2. CASE EnterChange(w) BY <2>2 DEF EnterChange
  <2>3. CASE LockChange(w) BY <2>3 DEF LockChange
  <2>4. CASE Recheck(w) BY <2>4 DEF Recheck
  <2>5. CASE MarkStarted(w) BY <2>5 DEF MarkStarted
  <2>6. CASE StartRemote(w) BY <2>6 DEF StartRemote
  <2>7. CASE FinishAnsible(w) BY <2>7, <1>0 DEF FinishAnsible
  <2>8. CASE FinishChange(w) BY <2>8, <1>0 DEF FinishChange
  <2> QED BY <1>3, <2>1, <2>2, <2>3, <2>4, <2>5, <2>6, <2>7, <2>8 DEF Execute
<1>4. ASSUME NEW w \in Workers, Renew(w) PROVE KeepsOutcomes
  BY <1>4 DEF Renew
<1>5. ASSUME NEW t \in Tasks, LeaseExpires(t) PROVE KeepsOutcomes
  BY <1>5 DEF LeaseExpires
<1>6. CASE Environment
  <2>1. CASE PublisherCrash BY <2>1 DEF PublisherCrash
  <2>2. ASSUME NEW t \in Tasks, CreateAnsible(t) PROVE KeepsOutcomes
    BY <2>2 DEF CreateAnsible
  <2>3. ASSUME NEW t \in Tasks, EnqueueChange(t) PROVE KeepsOutcomes
    BY <2>3 DEF EnqueueChange
  <2>4. ASSUME NEW t \in Tasks, Prune(t) PROVE KeepsOutcomes
    BY <2>4 DEF Prune
  <2>5. ASSUME NEW t \in Tasks, PublishFailed(t) PROVE KeepsOutcomes
    BY <2>5 DEF PublishFailed
  <2>6. ASSUME NEW w \in Workers, Nack(w) PROVE KeepsOutcomes
    BY <2>6 DEF Nack
  <2>7. ASSUME NEW w \in Workers, ConnectionLost(w) PROVE KeepsOutcomes
    BY <2>7 DEF ConnectionLost
  <2>8. ASSUME NEW w \in Workers, GiveUp(w) PROVE KeepsOutcomes
    BY <2>8 DEF GiveUp
  <2>9. ASSUME NEW w \in Workers, WorkerCrash(w) PROVE KeepsOutcomes
    BY <2>9 DEF WorkerCrash
  <2> QED BY <1>6, <2>1, <2>2, <2>3, <2>4, <2>5, <2>6, <2>7, <2>8, <2>9 DEF Environment
<1>7. CASE UNCHANGED vars
  BY <1>7 DEF vars
<1> QED BY <1>1, <1>2, <1>3, <1>4, <1>5, <1>6, <1>7 DEF Next

\* The outcome of a change command is written once, whatever its leases do;
\* so is that of an Ansible run while no live worker loses its lease.
THEOREM OutcomesFinal == Spec => OutcomeFinal
<1>1. TypeOK /\ CommandInv /\ LeaseInv /\ ReservationInv /\ [Next]_vars
        => [KeepsOutcomes]_vars
  BY OutcomesKept
<1>2. Spec => [][KeepsOutcomes]_vars
  BY <1>1, TypeCorrect, CommandInvariant, LeaseInvariant, ReservationInvariant,
     PTL DEF Spec
<1> QED BY <1>2 DEF OutcomeFinal, KeepsOutcomes

-----------------------------------------------------------------------------
(* Refinement.  In a behaviour without outages every step is a step of      *)
(* TaskLease or leaves phases and owners alone.                             *)

Phases == [t \in Tasks |-> PhaseOf(status[t])]
Owners == [t \in Tasks |-> OwnerOf(t)]

\* Which phase each status stands for.
LEMMA PhaseValues ==
  /\ PhaseOf("none") = "new" /\ PhaseOf("pruned") = "gone"
  /\ PhaseOf("running") = "running"
  /\ PhaseOf("created") = "queued" /\ PhaseOf("published") = "queued"
  /\ \A s \in Claimable : PhaseOf(s) = "queued"
  /\ \A s \in Terminal : PhaseOf(s) = "settled"
BY DEF PhaseOf, Claimable, Terminal

\* A task that nobody executes has no owner.
LEMMA Unowned ==
  ASSUME NEW t, \A w \in Workers : ~ExecutedBy(t, w)
  PROVE  OwnerOf(t) = NoWorker
BY DEF OwnerOf

\* The only executor of a task is its owner.
LEMMA Owned ==
  ASSUME NEW t, NEW w \in Workers, ExecutedBy(t, w),
         \A v \in Workers : ExecutedBy(t, v) => v = w
  PROVE  OwnerOf(t) = w
BY DEF OwnerOf

\* The same two facts about the state after a step.
LEMMA UnownedAfter ==
  ASSUME NEW t, \A w \in Workers : ~ExecutedBy(t, w)'
  PROVE  OwnerOf(t)' = NoWorker
BY DEF OwnerOf

LEMMA OwnedAfter ==
  ASSUME NEW t, NEW w \in Workers, ExecutedBy(t, w)',
         \A v \in Workers : ExecutedBy(t, v)' => v = w
  PROVE  OwnerOf(t)' = w
BY DEF OwnerOf

\* Without outages a task has one executor at most, and is running then.
LEMMA Exclusive ==
  ASSUME LeaseInv, outages = 0, NEW t, NEW w \in Workers, ExecutedBy(t, w)
  PROVE  /\ status[t] = "running" /\ lease[t]
         /\ \A v \in Workers : ExecutedBy(t, v) => v = w
         /\ OwnerOf(t) = w
<1>1. /\ status[t] = "running" /\ lease[t]
      /\ \A v \in Workers : ExecutedBy(t, v) => v = w
  BY DEF LeaseInv, ExecutedBy
<1> QED BY <1>1, Owned

\* A step that leaves the executors of a task alone leaves its owner alone.
LEMMA OwnerKept ==
  ASSUME LeaseInv, outages = 0, NEW t,
         \A w \in Workers : ExecutedBy(t, w)' <=> ExecutedBy(t, w)
  PROVE  OwnerOf(t)' = OwnerOf(t)
<1>1. CASE \A w \in Workers : ~ExecutedBy(t, w)
  BY <1>1, Unowned, UnownedAfter
<1>2. ASSUME NEW w \in Workers, ExecutedBy(t, w) PROVE OwnerOf(t)' = OwnerOf(t)
  <2>1. OwnerOf(t) = w /\ \A v \in Workers : ExecutedBy(t, v) => v = w
    BY <1>2, Exclusive
  <2>2. ExecutedBy(t, w)' /\ \A v \in Workers : ExecutedBy(t, v)' => v = w
    BY <1>2, <2>1
  <2>3. OwnerOf(t)' = w BY <2>2, OwnedAfter
  <2> QED BY <2>1, <2>3
<1> QED BY <1>1, <1>2

\* The end of an execution takes the owner of its task away and no other.
LEMMA OwnerLeaves ==
  ASSUME TypeOK, LeaseInv, outages = 0, NEW t \in Tasks, NEW w \in Workers,
         ExecutedBy(t, w),
         pc' = [pc EXCEPT ![w] = "idle"], job' = [job EXCEPT ![w] = NoTask]
  PROVE  /\ OwnerOf(t) # NoWorker /\ status[t] = "running"
         /\ Owners' = [Owners EXCEPT ![t] = NoWorker]
<1>1. /\ OwnerOf(t) = w /\ status[t] = "running"
      /\ \A v \in Workers : ExecutedBy(t, v) => v = w
  BY Exclusive
<1>2. \A v \in Workers : v # w => pc'[v] = pc[v] /\ job'[v] = job[v]
  BY DEF TypeOK
<1>3. pc'[w] \notin Executing BY DEF TypeOK, Executing
<1>4. \A v \in Workers : ~ExecutedBy(t, v)'
  BY <1>1, <1>2, <1>3 DEF ExecutedBy
<1>5. OwnerOf(t)' = NoWorker BY <1>4, UnownedAfter
<1>6. ASSUME NEW u \in Tasks, u # t PROVE OwnerOf(u)' = OwnerOf(u)
  <2>1. ~ExecutedBy(u, w) BY <1>6 DEF ExecutedBy
  <2>2. \A v \in Workers : ExecutedBy(u, v)' <=> ExecutedBy(u, v)
    BY <1>2, <1>3, <2>1 DEF ExecutedBy
  <2> QED BY <2>2, OwnerKept
<1>7. Owners' = [Owners EXCEPT ![t] = NoWorker]
  <2>1. Owners' = [u \in Tasks |-> OwnerOf(u)'] BY DEF Owners
  <2>2. [Owners EXCEPT ![t] = NoWorker]
          = [u \in Tasks |-> IF u = t THEN NoWorker ELSE OwnerOf(u)]
    BY DEF Owners
  <2> QED BY <1>5, <1>6, <2>1, <2>2
<1>8. OwnerOf(t) # NoWorker BY <1>1, SentinelAssumption
<1> QED BY <1>1, <1>7, <1>8

\* A step that leaves statuses and executors alone is a stutter.
LEMMA Stutters ==
  ASSUME LeaseInv, outages = 0, status' = status,
         \A t \in Tasks : \A w \in Workers : ExecutedBy(t, w)' <=> ExecutedBy(t, w)
  PROVE  UNCHANGED <<Phases, Owners>>
<1>1. \A t \in Tasks : OwnerOf(t)' = OwnerOf(t)
  BY OwnerKept
<1>2. Owners' = Owners BY <1>1 DEF Owners
<1>3. Phases' = Phases BY DEF Phases
<1> QED BY <1>2, <1>3

\* So is one that touches no executing worker and no status.
LEMMA Untouched ==
  ASSUME LeaseInv, outages = 0, UNCHANGED <<status, pc, job>>
  PROVE  UNCHANGED <<Phases, Owners>>
<1>1. \A t \in Tasks : \A w \in Workers : ExecutedBy(t, w)' <=> ExecutedBy(t, w)
  BY DEF ExecutedBy
<1> QED BY <1>1, Stutters

\* A step of one worker within its execution, or outside of any, is a stutter.
LEMMA WorkerStutters ==
  ASSUME TypeOK, LeaseInv, outages = 0, NEW w \in Workers, status' = status,
         \A v \in Workers : v # w => pc'[v] = pc[v] /\ job'[v] = job[v],
         \/ pc[w] \in Executing /\ pc'[w] \in Executing /\ job'[w] = job[w]
         \/ pc[w] \notin Executing /\ pc'[w] \notin Executing
  PROVE  UNCHANGED <<Phases, Owners>>
<1>1. \A t \in Tasks : \A v \in Workers : ExecutedBy(t, v)' <=> ExecutedBy(t, v)
  BY DEF ExecutedBy
<1> QED BY <1>1, Stutters

\* The write of one row moves one phase.
LEMMA PhaseMoves ==
  ASSUME TypeOK, NEW t \in Tasks, NEW s, status' = [status EXCEPT ![t] = s]
  PROVE  Phases' = [Phases EXCEPT ![t] = PhaseOf(s)]
<1>1. Phases' = [u \in Tasks |-> PhaseOf(status'[u])] BY DEF Phases
<1>2. [Phases EXCEPT ![t] = PhaseOf(s)]
        = [u \in Tasks |-> IF u = t THEN PhaseOf(s) ELSE PhaseOf(status[u])]
  BY DEF Phases
<1>3. \A u \in Tasks : status'[u] = IF u = t THEN s ELSE status[u]
  BY DEF TypeOK
<1> QED BY <1>1, <1>2, <1>3

\* An execution that ends without an outcome abandons its task.
LEMMA Abandons ==
  ASSUME TypeOK, LeaseInv, outages = 0, NEW t \in Tasks, NEW w \in Workers,
         ExecutedBy(t, w), status' = status,
         pc' = [pc EXCEPT ![w] = "idle"], job' = [job EXCEPT ![w] = NoTask]
  PROVE  Abstract!Abandon(t)
<1>1. /\ OwnerOf(t) # NoWorker /\ status[t] = "running"
      /\ Owners' = [Owners EXCEPT ![t] = NoWorker]
  BY OwnerLeaves
<1>2. Owners[t] # NoWorker /\ Phases[t] = "running"
  BY <1>1, PhaseValues DEF Owners, Phases
<1>3. Phases' = [Phases EXCEPT ![t] = "running"]
  BY <1>2 DEF Phases
<1> QED BY <1>1, <1>2, <1>3 DEF Abstract!Abandon, Abstract!Move, Phases, Owners

\* One that ends with an outcome settles it.
LEMMA Settles ==
  ASSUME TypeOK, LeaseInv, outages = 0, NEW t \in Tasks, NEW w \in Workers,
         ExecutedBy(t, w), NEW o \in Terminal, status' = [status EXCEPT ![t] = o],
         pc' = [pc EXCEPT ![w] = "idle"], job' = [job EXCEPT ![w] = NoTask]
  PROVE  Abstract!Settle(t)
<1>1. /\ OwnerOf(t) # NoWorker /\ status[t] = "running"
      /\ Owners' = [Owners EXCEPT ![t] = NoWorker]
  BY OwnerLeaves
<1>2. Owners[t] # NoWorker /\ Phases[t] = "running"
  BY <1>1, PhaseValues DEF Owners, Phases
<1>3. Phases' = [Phases EXCEPT ![t] = "settled"]
  <2>1. Phases' = [Phases EXCEPT ![t] = PhaseOf(o)] BY PhaseMoves
  <2> QED BY <2>1, PhaseValues
<1> QED BY <1>1, <1>2, <1>3 DEF Abstract!Settle, Abstract!Move, Phases, Owners

\* What a step means to TaskLease.
Implemented == Abstract!Next \/ UNCHANGED <<Phases, Owners>>

\* The publisher: only the recovery moves phases, of tasks without an owner.
LEMMA PublisherImplements ==
  ASSUME TypeOK, LeaseInv, outages = 0, Publisher
  PROVE  Implemented
<1> USE DEF Implemented
<1>1. CASE RecoverStale
  <2> DEFINE S == {t \in Tasks : status[t] = "running" /\ ~lease[t]}
  <2>1. \A t \in S : OwnerOf(t) = NoWorker
    <3> SUFFICES ASSUME NEW t \in S PROVE OwnerOf(t) = NoWorker
      OBVIOUS
    <3>1. \A w \in Workers : ~ExecutedBy(t, w) BY Exclusive
    <3> QED BY <3>1, Unowned
  <2>2. S \subseteq {t \in Tasks : Phases[t] = "running" /\ Owners[t] = NoWorker}
    BY <2>1, PhaseValues DEF Phases, Owners
  <2>3. \A t \in Tasks : \A w \in Workers : ExecutedBy(t, w)' <=> ExecutedBy(t, w)
    BY <1>1 DEF RecoverStale, ExecutedBy, workVars
  <2>4. \A t \in Tasks : OwnerOf(t)' = OwnerOf(t) BY <2>3, OwnerKept
  <2>5. Owners' = Owners BY <2>4 DEF Owners
  <2>6. \A t \in Tasks : PhaseOf(status'[t]) = IF t \in S THEN "queued" ELSE Phases[t]
    <3> SUFFICES ASSUME NEW t \in Tasks
                 PROVE  PhaseOf(status'[t]) = IF t \in S THEN "queued" ELSE Phases[t]
      OBVIOUS
    <3>1. status'[t] = IF t \in S THEN "created" ELSE status[t]
      BY <1>1 DEF RecoverStale
    <3> QED BY <3>1, PhaseValues DEF Phases
  <2>7. Phases' = [t \in Tasks |-> IF t \in S THEN "queued" ELSE Phases[t]]
    BY <2>6 DEF Phases
  <2>8. Abstract!Requeue
    BY <2>2, <2>5, <2>7 DEF Abstract!Requeue, Phases, Owners
  <2> QED BY <2>8 DEF Abstract!Next
<1>2. CASE SelectCreated
  BY <1>2, Untouched DEF SelectCreated, taskVars, workVars
<1>3. CASE MarkPublished
  <2>1. CASE status[sending] = "created"
    <3>1. \A t \in Tasks : PhaseOf(status'[t]) = PhaseOf(status[t])
      <4> SUFFICES ASSUME NEW t \in Tasks PROVE PhaseOf(status'[t]) = PhaseOf(status[t])
        OBVIOUS
      <4>1. CASE t = sending
        <5>1. status[t] = "created" /\ status'[t] = "published"
          BY <1>3, <2>1, <4>1 DEF MarkPublished, TypeOK
        <5> QED BY <5>1, PhaseValues
      <4>2. CASE t # sending
        <5>1. status'[t] = status[t] BY <1>3, <2>1, <4>2 DEF MarkPublished, TypeOK
        <5> QED BY <5>1
      <4> QED BY <4>1, <4>2
    <3>2. \A t \in Tasks : \A w \in Workers : ExecutedBy(t, w)' <=> ExecutedBy(t, w)
      BY <1>3 DEF MarkPublished, ExecutedBy, workVars
    <3>3. \A t \in Tasks : OwnerOf(t)' = OwnerOf(t) BY <3>2, OwnerKept
    <3> QED BY <3>1, <3>3 DEF Phases, Owners
  <2>2. CASE status[sending] # "created"
    BY <1>3, <2>2, Untouched DEF MarkPublished, workVars
  <2> QED BY <2>1, <2>2
<1>4. CASE PublisherDone
  BY <1>4, Untouched DEF PublisherDone, taskVars, workVars
<1>5. ASSUME NEW t \in Tasks, PublishConfirmed(t) PROVE Implemented
  BY <1>5, Untouched DEF PublishConfirmed, taskVars, workVars
<1> QED BY <1>1, <1>2, <1>3, <1>4, <1>5 DEF Publisher

\* Delivery: a successful claim starts a queued task, the rest is not seen.
LEMMA DeliveryImplements ==
  ASSUME TypeOK, CommandInv, LeaseInv, outages = 0, NEW w \in Workers, Delivery(w)
  PROVE  Implemented
<1> USE DEF Implemented
<1>1. CASE Claim(w)
  <2>0. PICK t \in Tasks : job[w] = t
    BY <1>1 DEF Claim, CommandInv
  <2>1. CASE status[t] \in Claimable
    <3>1. /\ status' = [status EXCEPT ![t] = "running"]
          /\ pc' = [pc EXCEPT ![w] = "claimed"] /\ job' = job /\ pc[w] = "fetched"
      BY <1>1, <2>0, <2>1 DEF Claim
    <3>2. \A v \in Workers : ~ExecutedBy(t, v)
      BY <2>1, Exclusive DEF Claimable
    <3>3. \A v \in Workers : pc'[v] = IF v = w THEN "claimed" ELSE pc[v]
      BY <3>1 DEF TypeOK
    <3>4. ExecutedBy(t, w)' /\ \A v \in Workers : ExecutedBy(t, v)' => v = w
      BY <2>0, <3>1, <3>2, <3>3 DEF ExecutedBy, Executing
    <3>5. OwnerOf(t)' = w BY <3>4, OwnedAfter
    <3>6. ASSUME NEW u \in Tasks, u # t PROVE OwnerOf(u)' = OwnerOf(u)
      <4>1. \A v \in Workers : ExecutedBy(u, v)' <=> ExecutedBy(u, v)
        BY <2>0, <3>1, <3>3, <3>6 DEF ExecutedBy
      <4> QED BY <4>1, OwnerKept
    <3>7. Owners' = [Owners EXCEPT ![t] = w]
      <4>1. Owners' = [u \in Tasks |-> OwnerOf(u)'] BY DEF Owners
      <4>2. [Owners EXCEPT ![t] = w] = [u \in Tasks |-> IF u = t THEN w ELSE OwnerOf(u)]
        BY DEF Owners
      <4> QED BY <3>5, <3>6, <4>1, <4>2
    <3>8. Phases' = [Phases EXCEPT ![t] = "running"]
      <4>1. Phases' = [Phases EXCEPT ![t] = PhaseOf("running")] BY <3>1, PhaseMoves
      <4> QED BY <4>1, PhaseValues
    <3>9. Phases[t] = "queued" BY <2>1, PhaseValues DEF Phases
    <3>10. Abstract!Start(t, w)
      BY <3>7, <3>8, <3>9 DEF Abstract!Start, Abstract!Move, Phases, Owners
    <3> QED BY <3>10 DEF Abstract!Next
  <2>2. CASE status[t] \notin Claimable
    <3>1. /\ status' = status /\ pc[w] = "fetched" /\ job' = job
          /\ pc' = [pc EXCEPT ![w] = "duplicate"]
      BY <1>1, <2>0, <2>2 DEF Claim
    <3>2. /\ pc[w] \notin Executing /\ pc'[w] \notin Executing
          /\ \A v \in Workers : v # w => pc'[v] = pc[v] /\ job'[v] = job[v]
      BY <3>1 DEF TypeOK, Executing
    <3> QED BY <3>1, <3>2, WorkerStutters
  <2> QED BY <2>1, <2>2
<1>2. CASE Ack(w)
  <2>1. /\ status' = status
        /\ \A v \in Workers : v # w => pc'[v] = pc[v] /\ job'[v] = job[v]
        /\ \/ pc[w] \in Executing /\ pc'[w] \in Executing /\ job'[w] = job[w]
           \/ pc[w] \notin Executing /\ pc'[w] \notin Executing
    BY <1>2 DEF Ack, TypeOK, Executing, taskVars
  <2> QED BY <2>1, WorkerStutters
<1>3. ASSUME NEW t \in Tasks, Fetch(w, t) PROVE Implemented
  <2>1. /\ status' = status
        /\ \A v \in Workers : v # w => pc'[v] = pc[v] /\ job'[v] = job[v]
        /\ pc[w] \notin Executing /\ pc'[w] \notin Executing
    BY <1>3 DEF Fetch, TypeOK, Executing, taskVars
  <2> QED BY <2>1, WorkerStutters
<1> QED BY <1>1, <1>2, <1>3 DEF Delivery

\* Execution: it ends with an outcome or without one; its other steps are not seen.
LEMMA ExecutionImplements ==
  ASSUME TypeOK, CommandInv, LeaseInv, outages = 0, NEW w \in Workers, Execute(w)
  PROVE  Implemented
<1> USE DEF Implemented
<1>1. pc[w] \in Executing
  BY DEF Execute, EnterAnsible, EnterChange, LockChange, Recheck, MarkStarted,
         StartRemote, FinishAnsible, FinishChange, Step, Executing
<1>2. PICK t \in Tasks : job[w] = t
  BY <1>1 DEF CommandInv, Executing
<1>3. ExecutedBy(t, w) /\ status[t] = "running"
  BY <1>1, <1>2, Exclusive DEF ExecutedBy
<1>4. ASSUME NEW to \in Executing, NEW from, Step(w, from, to), status' = status, job' = job
      PROVE  Implemented
  <2>1. /\ \A v \in Workers : v # w => pc'[v] = pc[v] /\ job'[v] = job[v]
        /\ pc'[w] \in Executing /\ job'[w] = job[w]
    BY <1>4 DEF TypeOK, Step
  <2> QED BY <1>1, <1>4, <2>1, WorkerStutters
<1>5. ASSUME status' = status, Leave(w) PROVE Implemented
  <2>1. Abstract!Abandon(t) BY <1>3, <1>5, Abandons DEF Leave
  <2> QED BY <2>1 DEF Abstract!Next
<1>6. ASSUME NEW o \in Terminal, status' = [status EXCEPT ![t] = o], Leave(w)
      PROVE  Implemented
  <2>1. Abstract!Settle(t) BY <1>3, <1>6, Settles DEF Leave
  <2> QED BY <2>1 DEF Abstract!Next
<1>7. CASE EnterAnsible(w)
  BY <1>2, <1>3, <1>4, <1>7 DEF EnterAnsible, Terminal, Executing, taskVars
<1>8. CASE EnterChange(w)
  <2>1. status[t] \notin Terminal \cup {"pruned"} BY <1>3 DEF Terminal
  <2>2. CASE Step(w, "entered", "waiting") /\ UNCHANGED <<status, job, lock>>
    BY <1>4, <2>2 DEF Executing
  <2>3. CASE status' = [status EXCEPT ![t] = "failed"] /\ Leave(w)
    BY <1>6, <2>3 DEF Terminal
  <2> QED BY <1>2, <1>8, <2>1, <2>2, <2>3 DEF EnterChange
<1>9. CASE LockChange(w)
  BY <1>4, <1>9 DEF LockChange, Executing, taskVars
<1>10. CASE Recheck(w)
  <2>1. CASE Leave(w) BY <1>5, <1>10, <2>1 DEF Recheck, taskVars
  <2>2. ASSUME NEW to \in {"checked", "failing"}, Step(w, "locked", to), job' = job
        PROVE  Implemented
    BY <1>4, <1>10, <2>2 DEF Recheck, Executing, taskVars
  <2> QED BY <1>10, <2>1, <2>2 DEF Recheck, Step
<1>11. CASE MarkStarted(w)
  BY <1>4, <1>11 DEF MarkStarted, Executing
<1>12. CASE StartRemote(w)
  BY <1>4, <1>12 DEF StartRemote, Executing
<1>13. CASE FinishAnsible(w)
  BY <1>2, <1>6, <1>13 DEF FinishAnsible
<1>14. CASE FinishChange(w)
  <2>1. CASE status' = status BY <1>5, <1>14, <2>1 DEF FinishChange
  <2>2. ASSUME NEW o \in Terminal, status' = [status EXCEPT ![t] = o]
        PROVE  Implemented
    BY <1>6, <1>14, <2>2 DEF FinishChange
  <2>3. "failed" \in Terminal BY DEF Terminal
  <2> QED BY <1>2, <1>14, <2>1, <2>2, <2>3 DEF FinishChange
<1> QED BY <1>7, <1>8, <1>9, <1>10, <1>11, <1>12, <1>13, <1>14 DEF Execute

\* Users submit tasks, retention forgets them, and faults abandon them.
LEMMA EnvironmentImplements ==
  ASSUME TypeOK, CommandInv, LeaseInv, outages = 0, Environment
  PROVE  Implemented
<1> USE DEF Implemented
<1>1. ASSUME NEW t \in Tasks, status' = [status EXCEPT ![t] = "created"],
             status[t] = "none", UNCHANGED workVars
      PROVE  Implemented
  <2>1. OwnerOf(t) = NoWorker
    <3>1. \A w \in Workers : ~ExecutedBy(t, w) BY <1>1, Exclusive
    <3> QED BY <3>1, Unowned
  <2>2. \A u \in Tasks : \A w \in Workers : ExecutedBy(u, w)' <=> ExecutedBy(u, w)
    BY <1>1 DEF ExecutedBy, workVars
  <2>3. \A u \in Tasks : OwnerOf(u)' = OwnerOf(u) BY <2>2, OwnerKept
  <2>4. Owners' = [Owners EXCEPT ![t] = NoWorker] BY <2>1, <2>3 DEF Owners
  <2>5. Phases' = [Phases EXCEPT ![t] = "queued"]
    <3>1. Phases' = [Phases EXCEPT ![t] = PhaseOf("created")] BY <1>1, PhaseMoves
    <3> QED BY <3>1, PhaseValues
  <2>6. Phases[t] = "new" BY <1>1, PhaseValues DEF Phases
  <2>7. Abstract!Submit(t)
    BY <2>4, <2>5, <2>6 DEF Abstract!Submit, Abstract!Move, Phases, Owners
  <2> QED BY <2>7 DEF Abstract!Next
<1>2. ASSUME NEW t \in Tasks, CreateAnsible(t) PROVE Implemented
  BY <1>1, <1>2 DEF CreateAnsible
<1>3. ASSUME NEW t \in Tasks, EnqueueChange(t) PROVE Implemented
  BY <1>1, <1>3 DEF EnqueueChange
<1>4. ASSUME NEW t \in Tasks, Prune(t) PROVE Implemented
  <2>1. /\ status' = [status EXCEPT ![t] = "pruned"] /\ status[t] \in Terminal
        /\ UNCHANGED workVars
    BY <1>4 DEF Prune
  <2>2. OwnerOf(t) = NoWorker
    <3>1. \A w \in Workers : ~ExecutedBy(t, w) BY <2>1, Exclusive DEF Terminal
    <3> QED BY <3>1, Unowned
  <2>3. \A u \in Tasks : \A w \in Workers : ExecutedBy(u, w)' <=> ExecutedBy(u, w)
    BY <2>1 DEF ExecutedBy, workVars
  <2>4. \A u \in Tasks : OwnerOf(u)' = OwnerOf(u) BY <2>3, OwnerKept
  <2>5. Owners' = [Owners EXCEPT ![t] = NoWorker] BY <2>2, <2>4 DEF Owners
  <2>6. Phases' = [Phases EXCEPT ![t] = "gone"]
    <3>1. Phases' = [Phases EXCEPT ![t] = PhaseOf("pruned")] BY <2>1, PhaseMoves
    <3> QED BY <3>1, PhaseValues
  <2>7. Phases[t] = "settled" BY <2>1, PhaseValues DEF Phases
  <2>8. Abstract!Forget(t)
    BY <2>5, <2>6, <2>7 DEF Abstract!Forget, Abstract!Move, Phases, Owners
  <2> QED BY <2>8 DEF Abstract!Next
<1>5. ASSUME NEW w \in Workers, pc[w] # "idle", Leave(w), status' = status
      PROVE  Implemented
  <2>1. CASE pc[w] \in Executing
    <3>1. PICK t \in Tasks : job[w] = t BY <1>5 DEF CommandInv
    <3>2. ExecutedBy(t, w) BY <2>1, <3>1 DEF ExecutedBy
    <3>3. Abstract!Abandon(t) BY <1>5, <3>2, Abandons DEF Leave
    <3> QED BY <3>3 DEF Abstract!Next
  <2>2. CASE pc[w] \notin Executing
    <3>1. /\ \A v \in Workers : v # w => pc'[v] = pc[v] /\ job'[v] = job[v]
          /\ pc'[w] \notin Executing
      BY <1>5 DEF Leave, TypeOK, Executing
    <3> QED BY <1>5, <2>2, <3>1, WorkerStutters
  <2> QED BY <2>1, <2>2
<1>6. CASE PublisherCrash
  BY <1>6, Untouched DEF PublisherCrash, taskVars, workVars
<1>7. ASSUME NEW t \in Tasks, PublishFailed(t) PROVE Implemented
  BY <1>7, Untouched DEF PublishFailed, taskVars, workVars
<1>8. ASSUME NEW w \in Workers, Nack(w) PROVE Implemented
  <2>1. /\ status' = status
        /\ \A v \in Workers : v # w => pc'[v] = pc[v] /\ job'[v] = job[v]
        /\ pc[w] \notin Executing /\ pc'[w] \notin Executing
    BY <1>8 DEF Nack, TypeOK, Executing, taskVars
  <2> QED BY <2>1, WorkerStutters
<1>9. ASSUME NEW w \in Workers, ConnectionLost(w) PROVE Implemented
  BY <1>9, Untouched DEF ConnectionLost, taskVars
<1>10. ASSUME NEW w \in Workers, GiveUp(w) PROVE Implemented
  BY <1>5, <1>10 DEF GiveUp, taskVars
<1>11. ASSUME NEW w \in Workers, WorkerCrash(w) PROVE Implemented
  BY <1>5, <1>11 DEF WorkerCrash, taskVars
<1> QED BY <1>2, <1>3, <1>4, <1>6, <1>7, <1>8, <1>9, <1>10, <1>11 DEF Environment

\* Every step without outages is one of TaskLease or is not seen by it.
LEMMA StepImplements ==
  ASSUME TypeOK, CommandInv, LeaseInv, outages = 0, [Next]_vars
  PROVE  Implemented
<1>1. ASSUME NEW w \in Workers, Renew(w) PROVE Implemented
  BY <1>1, Untouched DEF Renew, workVars, Implemented
<1>2. ASSUME NEW t \in Tasks, LeaseExpires(t) PROVE Implemented
  BY <1>2, Untouched DEF LeaseExpires, workVars, Implemented
<1>3. CASE UNCHANGED vars
  BY <1>3, Untouched DEF vars, taskVars, workVars, Implemented
<1>4. Publisher => Implemented BY PublisherImplements
<1>5. ASSUME NEW w \in Workers, Delivery(w) PROVE Implemented
  BY <1>5, DeliveryImplements
<1>6. ASSUME NEW w \in Workers, Execute(w) PROVE Implemented
  BY <1>6, ExecutionImplements
<1>7. Environment => Implemented BY EnvironmentImplements
<1> QED BY <1>1, <1>2, <1>3, <1>4, <1>5, <1>6, <1>7 DEF Next

\* As long as no lease expires under a live worker, the queue is an exclusive
\* lease of every task: started by a claim, settled only by its executor, put
\* back only when abandoned (claim_operation, recover_stale_operations, _finish).
THEOREM QueueImplementsLease == Spec /\ [](outages = 0) => ImplementsTaskLease
<1>1. Init => Abstract!Init
  <2> SUFFICES ASSUME Init PROVE Abstract!Init
    OBVIOUS
  <2>1. \A t \in Tasks : OwnerOf(t) = NoWorker
    <3> SUFFICES ASSUME NEW t \in Tasks PROVE OwnerOf(t) = NoWorker
      OBVIOUS
    <3>1. \A w \in Workers : ~ExecutedBy(t, w) BY DEF Init, ExecutedBy, Executing
    <3> QED BY <3>1, Unowned
  <2>2. \A t \in Tasks : PhaseOf(status[t]) = "new" BY PhaseValues DEF Init
  <2> QED BY <2>1, <2>2 DEF Abstract!Init
<1>2. TypeOK /\ CommandInv /\ LeaseInv /\ outages = 0 /\ [Next]_vars
        => [Abstract!Next]_(Abstract!vars)
  <2> SUFFICES ASSUME TypeOK, CommandInv, LeaseInv, outages = 0, [Next]_vars
               PROVE  [Abstract!Next]_(Abstract!vars)
    OBVIOUS
  <2>1. Implemented BY StepImplements
  <2>2. UNCHANGED <<Phases, Owners>> => UNCHANGED Abstract!vars
    BY DEF Phases, Owners, Abstract!vars
  <2> QED BY <2>1, <2>2 DEF Implemented
<1> QED
  BY <1>1, <1>2, TypeCorrect, CommandInvariant, LeaseInvariant,
     PTL DEF Spec, ImplementsTaskLease, Abstract!Spec

-----------------------------------------------------------------------------
(* The assignments of the monitoring workers. *)

Contents == [on : BOOLEAN, interval : {-1, 0, 1}]
Commands == [revision : Nat, content : Contents]

\* The commands that may still reach the worker, and the one it keeps.
Under(queued, under, kept) == queued \cup under \cup {kept}
AllCommands == Under(outbox, sent, applied)

\* A revision has one content, none is newer than the row's, and the row's own
\* is still to come or has come.
RowNewest(row, queued, under, kept) ==
    /\ row \in Commands /\ Under(queued, under, kept) \subseteq Commands
    /\ row \in Under(queued, under, kept)
    /\ \A c \in Under(queued, under, kept) :
          c.revision <= row.revision /\ (c.revision = row.revision => c = row)

AssignInv ==
    /\ alert \in BOOLEAN /\ interval \in {0, 1}
    /\ unqueued \in [Forms -> {NoWish, "on", "off"}]
    /\ reconciler \in [step : {"idle", "compare", "queue"}, known : Contents, on : BOOLEAN]
    /\ listed \subseteq outbox
    /\ RowNewest(assignment, outbox, sent, applied)

\* Every set of commands that is not empty has one that was created first.
LEMMA FirstExists ==
  ASSUME NEW S \in SUBSET Commands, S # {}
  PROVE  FirstCreated(S) \in S
<1> DEFINE R == OpToRel(<, Nat)
           T == {c.revision : c \in S}
<1>1. IsWellFoundedOn(R, Nat) BY NatLessThanWellFounded
<1>2. T \subseteq Nat /\ T # {} BY DEF Commands
<1>3. PICK x \in T : \A y \in T : ~(<<y, x>> \in R)
  <2> HIDE DEF R, T
  <2> QED BY <1>1, <1>2, WFMin
<1>4. \A u, v \in Nat : <<v, u>> \in R <=> v < u
  BY DEF OpToRel
<1>5. PICK c \in S : c.revision = x BY <1>3
<1>6. \A d \in S : c.revision <= d.revision
  <2> SUFFICES ASSUME NEW d \in S PROVE c.revision <= d.revision
    OBVIOUS
  <2> HIDE DEF R
  <2>1. d.revision \in T OBVIOUS
  <2>2. ~(<<d.revision, x>> \in R) BY <1>3, <2>1
  <2>3. d.revision \in Nat /\ x \in Nat BY <1>2, <1>3, <2>1
  <2> QED BY <1>4, <1>5, <2>2, <2>3
<1> QED BY <1>6 DEF FirstCreated

\* A new revision is newer than everything under way.
LEMMA QueueKeepsNewest ==
  ASSUME NEW row, NEW queued, NEW under, NEW kept, RowNewest(row, queued, under, kept),
         NEW content \in Contents
  PROVE  LET n == [revision |-> row.revision + 1, content |-> content]
         IN  RowNewest(n, queued \cup {n}, under, kept)
<1> DEFINE n == [revision |-> row.revision + 1, content |-> content]
<1>1. row.revision \in Nat BY DEF RowNewest, Commands
<1>2. n \in Commands /\ n.revision = row.revision + 1 BY <1>1 DEF Commands
<1>3. Under(queued \cup {n}, under, kept) = Under(queued, under, kept) \cup {n}
  BY DEF Under
<1> HIDE DEF n
<1>4. \A c \in Under(queued, under, kept) : c.revision \in Nat /\ c.revision <= row.revision
  BY DEF RowNewest, Commands
<1>5. /\ Under(queued \cup {n}, under, kept) \subseteq Commands
      /\ n \in Under(queued \cup {n}, under, kept)
  BY <1>2, <1>3 DEF RowNewest
<1>6. ASSUME NEW c \in Under(queued \cup {n}, under, kept)
      PROVE  c.revision <= n.revision /\ (c.revision = n.revision => c = n)
  <2>1. CASE c = n BY <1>1, <1>2, <2>1
  <2>2. CASE c \in Under(queued, under, kept)
    <3>1. c.revision \in Nat /\ c.revision <= row.revision BY <1>4, <2>2
    <3> QED BY <1>1, <1>2, <3>1
  <2> QED BY <1>3, <1>6, <2>1, <2>2
<1>7. RowNewest(n, queued \cup {n}, under, kept)
  BY <1>2, <1>5, <1>6 DEF RowNewest
<1> QED BY <1>7 DEF n

\* A publication takes the command on its way, whether or not it leaves the outbox.
LEMMA SendKeepsNewest ==
  ASSUME NEW row, NEW queued, NEW under, NEW kept, RowNewest(row, queued, under, kept),
         NEW c \in queued
  PROVE  /\ RowNewest(row, queued \ {c}, under \cup {c}, kept)
         /\ RowNewest(row, queued, under \cup {c}, kept)
BY DEF RowNewest, Under

\* The worker keeps the newer of two commands, so the newest one is not lost.
LEMMA ReceiveKeepsNewest ==
  ASSUME NEW row, NEW queued, NEW under, NEW kept, RowNewest(row, queued, under, kept),
         NEW c \in under
  PROVE  LET k == IF c.revision > kept.revision THEN c ELSE kept
         IN  RowNewest(row, queued, under \ {c}, k) /\ RowNewest(row, queued, under, k)
<1> DEFINE k == IF c.revision > kept.revision THEN c ELSE kept
<1>1. /\ c \in Under(queued, under, kept) /\ kept \in Under(queued, under, kept)
      /\ k \in Under(queued, under, kept)
  BY DEF Under
<1>2. /\ row.revision \in Nat /\ c.revision \in Nat /\ kept.revision \in Nat
      /\ c.revision <= row.revision /\ kept.revision <= row.revision
      /\ c.revision = row.revision => c = row
      /\ kept.revision = row.revision => kept = row
  BY <1>1 DEF RowNewest, Commands
<1>3. c = row => k = row BY <1>2
<1>4. kept = row => k = row BY <1>2
<1> HIDE DEF k
<1>5. /\ Under(queued, under \ {c}, k) \subseteq Under(queued, under, kept)
      /\ Under(queued, under, k) \subseteq Under(queued, under, kept)
  BY <1>1 DEF Under
<1>6. /\ row \in Under(queued, under \ {c}, k)
      /\ row \in Under(queued, under, k)
  BY <1>3, <1>4 DEF RowNewest, Under
<1>7. RowNewest(row, queued, under \ {c}, k) /\ RowNewest(row, queued, under, k)
  BY <1>5, <1>6 DEF RowNewest
<1> QED BY <1>7 DEF k

\* The reconciliation at rest.
LEMMA RestingTyped ==
  RestingReconciler \in [step : {"idle", "compare", "queue"}, known : Contents, on : BOOLEAN]
BY DEF RestingReconciler, NoContent, Contents

\* The invariant is inductive.
LEMMA AssignInvInductive == AssignInv /\ [AssignNext]_assignVars => AssignInv'
<1> SUFFICES ASSUME AssignInv, [AssignNext]_assignVars PROVE AssignInv'
  OBVIOUS
<1> USE DEF AssignInv
<1>1. ASSUME NEW on \in BOOLEAN, QueueRevision(on), UNCHANGED <<sent, applied, interval>>
      PROVE  RowNewest(assignment, outbox, sent, applied)'
  <2>1. Content(on) \in Contents BY DEF Content, Contents
  <2> QED BY <1>1, <2>1, QueueKeepsNewest DEF QueueRevision, LastRevision
<1>2. ASSUME NEW on \in BOOLEAN, SaveTools(on) PROVE AssignInv'
  BY <1>1, <1>2 DEF SaveTools, QueueRevision
<1>3. ASSUME NEW r \in Forms, NEW on \in BOOLEAN, SaveFlag(r, on) PROVE AssignInv'
  BY <1>3 DEF SaveFlag
<1>4. ASSUME NEW r \in Forms, QueueForm(r) PROVE AssignInv'
  BY <1>1, <1>4 DEF QueueForm, QueueRevision
<1>5. ASSUME NEW r \in Forms, FormLost(r) PROVE AssignInv'
  BY <1>5 DEF FormLost
<1>6. CASE ChangeSetting BY <1>6 DEF ChangeSetting
<1>7. CASE ReadAssignments
  BY <1>7 DEF ReadAssignments, RowNewest, Commands
<1>8. CASE ReadServer BY <1>8, RestingTyped DEF ReadServer
<1>9. CASE QueueDrift
  BY <1>1, <1>9, RestingTyped DEF QueueDrift, QueueRevision
<1>10. CASE ListCommands BY <1>10 DEF ListCommands
<1>11. ASSUME listed # {}
       PROVE  FirstCreated(listed) \in listed /\ FirstCreated(listed) \in outbox
  <2>1. listed \in SUBSET Commands BY DEF RowNewest, Under
  <2>2. FirstCreated(listed) \in listed BY <1>11, <2>1, FirstExists
  <2> QED BY <2>2
<1>12. ASSUME NEW c, c = FirstCreated(listed), listed # {}
       PROVE  /\ c \in listed /\ c \in outbox
              /\ RowNewest(assignment, outbox \ {c}, sent \cup {c}, applied)
              /\ RowNewest(assignment, outbox, sent \cup {c}, applied)
  <2>1. c \in listed /\ c \in outbox BY <1>11, <1>12
  <2>2. RowNewest(assignment, outbox, sent, applied) OBVIOUS
  <2> QED BY <2>1, <2>2, SendKeepsNewest
<1>13. CASE PublishCommand
  <2> DEFINE c == FirstCreated(listed)
  <2>1. /\ listed # {} /\ listed' = listed \ {c} /\ outbox' = outbox \ {c}
        /\ sent' = sent \cup {c}
        /\ UNCHANGED <<alert, interval, unqueued, assignment, reconciler, applied>>
    BY <1>13 DEF PublishCommand
  <2> HIDE DEF c
  <2>2. /\ c \in listed /\ c \in outbox
        /\ RowNewest(assignment, outbox \ {c}, sent \cup {c}, applied)
    BY <1>12, <2>1 DEF c
  <2> QED BY <2>1, <2>2
<1>14. CASE PublishFails
  <2> DEFINE c == FirstCreated(listed)
  <2>1. /\ listed # {} /\ listed' = listed \ {c}
        /\ sent' = sent \/ sent' = sent \cup {c}
        /\ UNCHANGED <<alert, interval, unqueued, assignment, outbox, reconciler, applied>>
    BY <1>14 DEF PublishFails
  <2> HIDE DEF c
  <2>2. RowNewest(assignment, outbox, sent \cup {c}, applied)
    BY <1>12, <2>1 DEF c
  <2> QED BY <2>1, <2>2
<1>15. CASE SchedulerDies
  <2> DEFINE c == FirstCreated(listed)
  <2>1. /\ listed' = {} /\ reconciler' = RestingReconciler
        /\ \/ sent' = sent
           \/ listed # {} /\ sent' = sent \cup {c}
        /\ UNCHANGED <<alert, interval, unqueued, assignment, outbox, applied>>
    BY <1>15 DEF SchedulerDies
  <2> HIDE DEF c
  <2>2. listed # {} => RowNewest(assignment, outbox, sent \cup {c}, applied)
    BY <1>12 DEF c
  <2>3. reconciler' \in [step : {"idle", "compare", "queue"}, known : Contents, on : BOOLEAN]
    BY <2>1, RestingTyped
  <2> QED BY <2>1, <2>2, <2>3
<1>16. CASE ReceiveCommand
  <2>1. PICK c \in sent :
           /\ applied' = IF c.revision > applied.revision THEN c ELSE applied
           /\ sent' = sent \ {c} \/ sent' = sent
           /\ UNCHANGED <<alert, interval, unqueued, assignment, outbox, reconciler, listed>>
    BY <1>16 DEF ReceiveCommand
  <2>2. RowNewest(assignment, outbox, sent, applied) OBVIOUS
  <2>3. /\ RowNewest(assignment, outbox, sent \ {c}, applied')
        /\ RowNewest(assignment, outbox, sent, applied')
    BY <2>1, <2>2, ReceiveKeepsNewest
  <2> QED BY <2>1, <2>3
<1>17. CASE UNCHANGED assignVars BY <1>17 DEF assignVars
<1> QED
  BY <1>2, <1>3, <1>4, <1>5, <1>6, <1>7, <1>8, <1>9, <1>10, <1>13, <1>14, <1>15, <1>16,
     <1>17 DEF AssignNext

\* And it holds in the beginning, so always.
LEMMA AssignInvariant == AssignSpec => []AssignInv
<1>1. AssignInit => AssignInv
  <2> SUFFICES ASSUME AssignInit PROVE AssignInv
    OBVIOUS
  <2>1. NoContent \in Contents BY DEF NoContent, Contents
  <2>2. assignment \in Commands BY <2>1 DEF AssignInit, Commands
  <2>3. Under(outbox, sent, applied) = {assignment} BY DEF AssignInit, Under
  <2>4. RowNewest(assignment, outbox, sent, applied)
    BY <2>2, <2>3 DEF RowNewest, Commands
  <2> QED BY <2>4, RestingTyped DEF AssignInit, AssignInv, NoWish
<1> QED BY <1>1, AssignInvInductive, PTL DEF AssignSpec

\* The variables keep their types, only commands of the outbox are listed for
\* publication, and no revision is newer than the row's (service_commands.py).
THEOREM AssignTypeCorrect == AssignSpec => []AssignTypeOK
<1>1. AssignInv => AssignTypeOK
  BY DEF AssignInv, AssignTypeOK, RowNewest, Under, Commands, Contents, LastRevision
<1> QED BY <1>1, AssignInvariant, PTL

\* Whatever fails, dies or is repeated, the newest assignment is kept by the
\* worker or on its way to it, and nothing else goes under its revision
\* (queue_assignment, publish_pending).
THEOREM NewestArrives == AssignSpec => []NewestNeverLost
<1>1. AssignInv => NewestNeverLost
  BY DEF AssignInv, NewestNeverLost, RowNewest, Under, LastRevision
<1> QED BY <1>1, AssignInvariant, PTL

-----------------------------------------------------------------------------
(* The queue and the assignments beside one another. *)

LEMMA RequestsStep ==
  RequestNext \/ UNCHANGED requestVars => [Next]_vars /\ [AssignNext]_assignVars
<1>1. RequestNext => [Next]_vars /\ [AssignNext]_assignVars BY DEF RequestNext
<1>2. UNCHANGED requestVars => UNCHANGED vars /\ UNCHANGED assignVars BY DEF requestVars
<1> QED BY <1>1, <1>2

LEMMA RequestsParts == RequestSpec => Spec /\ AssignSpec
<1>1. RequestInit => Init /\ AssignInit BY DEF RequestInit
<1>2. [RequestNext]_requestVars => [Next]_vars /\ [AssignNext]_assignVars BY RequestsStep
<1> QED BY <1>1, <1>2, PTL DEF RequestSpec, Spec, AssignSpec

\* What is proved of the queue and of the assignments alone holds when both are carried: a
\* remote change is made once and under its reservation, what has ended stays as it ended, and
\* the newest assignment of a worker is never lost.
THEOREM RequestsCorrect ==
  RequestSpec => /\ []TypeOK /\ []ChangeRunsOnce /\ []RemoteWorkReserved /\ []ReservationLive
                 /\ OutcomeFinal
                 /\ []AssignTypeOK /\ []NewestNeverLost
BY RequestsParts, TypeCorrect, RemoteWorkOnce, RemoteWorkUnderReservation, ReservationNeverLeaks,
   OutcomesFinal, AssignTypeCorrect, NewestArrives, PTL
=============================================================================
