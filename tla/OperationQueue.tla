--------------------------- MODULE OperationQueue ---------------------------
(***************************************************************************)
(* The durable operations queue: the InstallationTasks table is the source *)
(* of truth, one scheduler job publishes wake-up messages to RabbitMQ and  *)
(* returns abandoned rows to the outbox, and Operations workers claim and  *)
(* execute the rows (app/modules/operations/queue.py and worker.py).       *)
(*                                                                         *)
(* Two kinds of operation are told apart, because the worker treats them   *)
(* differently: an Ansible run writes its outcome unconditionally, and a   *)
(* Change Center command works under the process lock of its change, with  *)
(* a durable "started" marker and a reservation that it releases when it   *)
(* finishes (app/modules/change/operations.py).  What a command does to    *)
(* the change and to its servers is the subject of ChangeRollout.          *)
(***************************************************************************)
EXTENDS Naturals

CONSTANTS
  Tasks,        \* rows of InstallationTasks
  ChangeTasks,  \* the rows with operation_type 'change'; the others are 'ansible'
  Changes,      \* Change Center changes
  ChangeOf,     \* the change each command of ChangeTasks works on
  Workers,      \* Operations worker processes, one thread of work each
  NoTask,
  NoWorker,
  MaxCopies,    \* bound: ready messages of one task
  MaxFaults,    \* bound: crashes, lost connections, failed publications and claims
  MaxOutages    \* bound: leases that expire under a live worker

ASSUME KindAssumption ==
  /\ ChangeTasks \subseteq Tasks
  /\ ChangeOf \in [ChangeTasks -> Changes]
ASSUME SentinelAssumption == NoTask \notin Tasks /\ NoWorker \notin Workers
ASSUME BoundAssumption == MaxCopies \in Nat /\ MaxFaults \in Nat /\ MaxOutages \in Nat

VARIABLES
  status,    \* InstallationTasks.status; "none" before the insert, "pruned" after retention
  lease,     \* updated_at is younger than the lease of recover_stale_operations
  started,   \* the payload's durable "started" marker
  starts,    \* history: how often a task began its remote work
  active,    \* ConfigChange.active_task_id, the reservation of a change
  last,      \* ConfigChange.last_task_id
  ready,     \* RabbitMQ: ready copies of each task's wake-up message
  pubpc,     \* where the publisher job stands
  batch,     \* tasks the publisher still has to publish
  sending,   \* the task whose publication was just confirmed
  pc,        \* where each worker stands
  job,       \* the task in each worker's hands
  inflight,  \* the worker's delivery is not acknowledged yet
  lock,      \* holder of the process lock of each change
  faults,
  outages

taskVars   == <<status, lease, started, starts>>
changeVars == <<active, last, lock>>
pubVars    == <<pubpc, batch, sending>>
workVars   == <<pc, job, inflight>>
vars == <<taskVars, changeVars, ready, pubVars, workVars, faults, outages>>

Terminal  == {"completed", "failed"}
Claimable == {"created", "published"}
Statuses  == {"none", "running", "pruned"} \cup Claimable \cup Terminal

\* Program counters of a worker between its claim and the end of the operation.
Executing == {"claimed", "entered", "waiting", "locked", "checked", "marked",
              "remote", "failing"}
\* Those at which it holds the process lock of the change.
Holding   == {"locked", "checked", "marked", "remote", "failing"}

ExecutedBy(t, w) == pc[w] \in Executing /\ job[w] = t
Fault == faults < MaxFaults /\ faults' = faults + 1

Init ==
  /\ status  = [t \in Tasks |-> "none"]
  /\ lease   = [t \in Tasks |-> FALSE]
  /\ started = [t \in Tasks |-> FALSE]
  /\ starts  = [t \in Tasks |-> 0]
  /\ active  = [c \in Changes |-> NoTask]
  /\ last    = [c \in Changes |-> NoTask]
  /\ ready   = [t \in Tasks |-> 0]
  /\ pubpc = "idle" /\ batch = {} /\ sending = NoTask
  /\ pc       = [w \in Workers |-> "idle"]
  /\ job      = [w \in Workers |-> NoTask]
  /\ inflight = [w \in Workers |-> FALSE]
  /\ lock     = [c \in Changes |-> NoWorker]
  /\ faults = 0 /\ outages = 0

-----------------------------------------------------------------------------
(* Web requests: new rows, and the retention job. *)

CreateAnsible(t) ==
  /\ t \in Tasks \ ChangeTasks
  /\ status[t] = "none"
  /\ status' = [status EXCEPT ![t] = "created"]
  /\ UNCHANGED <<lease, started, starts, changeVars, ready, pubVars, workVars,
                 faults, outages>>

\* enqueue: the row and the reservation are written in one transaction that
\* holds the row lock of an idle change.
EnqueueChange(t) ==
  LET c == ChangeOf[t] IN
  /\ t \in ChangeTasks
  /\ status[t] = "none"
  /\ active[c] = NoTask
  /\ status' = [status EXCEPT ![t] = "created"]
  /\ active' = [active EXCEPT ![c] = t]
  /\ last'   = [last EXCEPT ![c] = t]
  /\ UNCHANGED <<lease, started, starts, lock, ready, pubVars, workVars, faults,
                 outages>>

\* cleanup_history: old finished commands that no change refers to any more.
Prune(t) ==
  /\ t \in ChangeTasks
  /\ status[t] \in Terminal
  /\ \A c \in Changes : active[c] # t /\ last[c] # t
  /\ status' = [status EXCEPT ![t] = "pruned"]
  /\ UNCHANGED <<lease, started, starts, changeVars, ready, pubVars, workVars,
                 faults, outages>>

-----------------------------------------------------------------------------
(* The scheduler's single publisher job (jobs.py runs one instance). *)

\* Mutant: the recovery does not look at the age of the lease.
RecoverRunning ==
  /\ pubpc = "idle"
  /\ pubpc' = "recovered"
  /\ status' = [t \in Tasks |-> IF status[t] = "running" THEN "created" ELSE status[t]]
  /\ UNCHANGED <<lease, started, starts, changeVars, ready, batch, sending,
                 workVars, faults, outages>>

\* Mutant: no recovery, only the publication of new rows.
RecoverNothing ==
  /\ pubpc = "idle"
  /\ pubpc' = "recovered"
  /\ UNCHANGED <<taskVars, changeVars, ready, batch, sending, workVars, faults,
                 outages>>

RecoverStale ==
  /\ pubpc = "idle"
  /\ pubpc' = "recovered"
  /\ status' = [t \in Tasks |-> IF status[t] = "running" /\ ~lease[t]
                                  THEN "created" ELSE status[t]]
  /\ UNCHANGED <<lease, started, starts, changeVars, ready, batch, sending,
                 workVars, faults, outages>>

SelectCreated ==
  /\ pubpc = "recovered"
  /\ batch' = {t \in Tasks : status[t] = "created"}
  /\ pubpc' = IF batch' = {} THEN "idle" ELSE "publishing"
  /\ UNCHANGED <<taskVars, changeVars, ready, sending, workVars, faults, outages>>

\* The broker has the message and confirmed it; the row is not updated yet.
PublishConfirmed(t) ==
  /\ pubpc = "publishing" /\ t \in batch
  /\ ready[t] < MaxCopies
  /\ ready' = [ready EXCEPT ![t] = @ + 1]
  /\ pubpc' = "sent" /\ sending' = t /\ batch' = batch \ {t}
  /\ UNCHANGED <<taskVars, changeVars, workVars, faults, outages>>

\* Mutant: a publication that raised is taken for a confirmed one.
PublishFailedUnnoticed(t) ==
  /\ pubpc = "publishing" /\ t \in batch
  /\ Fault
  /\ status' = [status EXCEPT ![t] = "published"]
  /\ batch' = batch \ {t}
  /\ UNCHANGED <<lease, started, starts, changeVars, ready, pubpc, sending,
                 workVars, outages>>

\* The publication raises; the broker may nevertheless have the message.
PublishFailed(t) ==
  /\ pubpc = "publishing" /\ t \in batch
  /\ Fault
  /\ \/ ready' = ready
     \/ ready[t] < MaxCopies /\ ready' = [ready EXCEPT ![t] = @ + 1]
  /\ batch' = batch \ {t}
  /\ UNCHANGED <<taskVars, changeVars, pubpc, sending, workVars, outages>>

\* Mutant: the update after the confirmation does not compare the status.
MarkPublishedBlindly ==
  /\ pubpc = "sent"
  /\ status' = [status EXCEPT ![sending] = "published"]
  /\ pubpc' = "publishing" /\ sending' = NoTask
  /\ UNCHANGED <<lease, started, starts, changeVars, ready, batch, workVars,
                 faults, outages>>

MarkPublished ==
  /\ pubpc = "sent"
  /\ status' = IF status[sending] = "created"
                 THEN [status EXCEPT ![sending] = "published"] ELSE status
  /\ pubpc' = "publishing" /\ sending' = NoTask
  /\ UNCHANGED <<lease, started, starts, changeVars, ready, batch, workVars,
                 faults, outages>>

PublisherDone ==
  /\ pubpc = "publishing" /\ batch = {}
  /\ pubpc' = "idle"
  /\ UNCHANGED <<taskVars, changeVars, ready, batch, sending, workVars, faults,
                 outages>>

\* The scheduler dies, or an exception leaves publish_pending_operations.
PublisherCrash ==
  /\ pubpc # "idle"
  /\ Fault
  /\ pubpc' = "idle" /\ batch' = {} /\ sending' = NoTask
  /\ UNCHANGED <<taskVars, changeVars, ready, workVars, outages>>

-----------------------------------------------------------------------------
(* Delivery and claim. *)

\* Mutant: an empty basic_get is taken for a delivery.
FetchEmpty(w, t) ==
  /\ pc[w] = "idle"
  /\ ready' = [ready EXCEPT ![t] = @ - 1]
  /\ pc' = [pc EXCEPT ![w] = "fetched"]
  /\ job' = [job EXCEPT ![w] = t]
  /\ inflight' = [inflight EXCEPT ![w] = TRUE]
  /\ UNCHANGED <<taskVars, changeVars, pubVars, faults, outages>>

Fetch(w, t) ==
  /\ pc[w] = "idle" /\ ready[t] > 0
  /\ ready' = [ready EXCEPT ![t] = @ - 1]
  /\ pc' = [pc EXCEPT ![w] = "fetched"]
  /\ job' = [job EXCEPT ![w] = t]
  /\ inflight' = [inflight EXCEPT ![w] = TRUE]
  /\ UNCHANGED <<taskVars, changeVars, pubVars, faults, outages>>

\* What RabbitMQ does with the worker's delivery when its connection closes.
Redelivered(w) ==
  IF inflight[w] THEN [ready EXCEPT ![job[w]] = @ + 1] ELSE ready

\* A stop request or a failed claim returns the delivery with basic_nack.
Nack(w) ==
  /\ pc[w] = "fetched"
  /\ Fault
  /\ ready' = Redelivered(w)
  /\ pc' = [pc EXCEPT ![w] = "idle"]
  /\ job' = [job EXCEPT ![w] = NoTask]
  /\ inflight' = [inflight EXCEPT ![w] = FALSE]
  /\ UNCHANGED <<taskVars, changeVars, pubVars, outages>>

\* The connection closes unnoticed: the broker redelivers, the worker goes on.
ConnectionLost(w) ==
  /\ inflight[w]
  /\ Fault
  /\ ready' = Redelivered(w)
  /\ inflight' = [inflight EXCEPT ![w] = FALSE]
  /\ UNCHANGED <<taskVars, changeVars, pubVars, pc, job, outages>>

\* Mutant: the claim updates the row whatever its status.
ClaimUnguarded(w) ==
  LET t == job[w] IN
  /\ pc[w] = "fetched"
  /\ status' = [status EXCEPT ![t] = "running"]
  /\ lease'  = [lease EXCEPT ![t] = TRUE]
  /\ pc' = [pc EXCEPT ![w] = "claimed"]
  /\ UNCHANGED <<started, starts, changeVars, ready, pubVars, job, inflight,
                 faults, outages>>

Claim(w) ==
  LET t == job[w] IN
  /\ pc[w] = "fetched"
  /\ IF status[t] \in Claimable
       THEN /\ status' = [status EXCEPT ![t] = "running"]
            /\ lease'  = [lease EXCEPT ![t] = TRUE]
            /\ pc' = [pc EXCEPT ![w] = "claimed"]
       ELSE /\ pc' = [pc EXCEPT ![w] = "duplicate"]
            /\ UNCHANGED <<status, lease>>
  /\ UNCHANGED <<started, starts, changeVars, ready, pubVars, job, inflight,
                 faults, outages>>

\* A failed acknowledgement is only logged, so the step does not need one.
Ack(w) ==
  /\ inflight' = [inflight EXCEPT ![w] = FALSE]
  /\ \/ /\ pc[w] = "claimed"
        /\ pc' = [pc EXCEPT ![w] = "entered"]
        /\ job' = job
     \/ /\ pc[w] = "duplicate"
        /\ pc' = [pc EXCEPT ![w] = "idle"]
        /\ job' = [job EXCEPT ![w] = NoTask]
  /\ UNCHANGED <<taskVars, changeVars, ready, pubVars, faults, outages>>

-----------------------------------------------------------------------------
(* Execution in the operation thread. *)

\* The thread returns or raises; closing the lock file releases its lock.
Leave(w) ==
  /\ pc' = [pc EXCEPT ![w] = "idle"]
  /\ job' = [job EXCEPT ![w] = NoTask]
  /\ lock' = [c \in Changes |-> IF lock[c] = w THEN NoWorker ELSE lock[c]]

Step(w, from, to) == pc[w] = from /\ pc' = [pc EXCEPT ![w] = to]

EnterAnsible(w) ==
  LET t == job[w] IN
  /\ t \in Tasks \ ChangeTasks
  /\ \/ /\ status[t] \notin Terminal
        /\ Step(w, "entered", "remote")
        /\ UNCHANGED <<job, lock>>
     \/ /\ status[t] \in Terminal
        /\ pc[w] = "entered"
        /\ Leave(w)
  /\ UNCHANGED <<taskVars, active, last, ready, pubVars, inflight, faults, outages>>

\* execute of change/operations.py up to its process lock: a command without
\* its reservation fails, unless it has ended already.
EnterChange(w) ==
  LET t == job[w] IN
  /\ t \in ChangeTasks
  /\ \/ /\ status[t] \notin Terminal \cup {"pruned"}
        /\ active[ChangeOf[t]] = t
        /\ Step(w, "entered", "waiting")
        /\ UNCHANGED <<status, job, lock>>
     \/ /\ pc[w] = "entered"
        /\ status[t] \in Terminal \cup {"pruned"} \/ active[ChangeOf[t]] # t
        /\ status' = IF status[t] \in Terminal \cup {"pruned"} THEN status
                       ELSE [status EXCEPT ![t] = "failed"]
        /\ Leave(w)
  /\ UNCHANGED <<lease, started, starts, active, last, ready, pubVars, inflight,
                 faults, outages>>

\* Mutant: the lock file does not exclude (one file per process, say).
LockNothing(w) ==
  /\ Step(w, "waiting", "locked")
  /\ lock' = [lock EXCEPT ![ChangeOf[job[w]]] = w]
  /\ UNCHANGED <<taskVars, active, last, ready, pubVars, job, inflight, faults,
                 outages>>

LockChange(w) ==
  LET c == ChangeOf[job[w]] IN
  /\ Step(w, "waiting", "locked")
  /\ lock[c] = NoWorker
  /\ lock' = [lock EXCEPT ![c] = w]
  /\ UNCHANGED <<taskVars, active, last, ready, pubVars, job, inflight, faults,
                 outages>>

\* Under the lock the row and the reservation are read again.  A started
\* command is interrupted; authorisation or the change state may refuse it.
Recheck(w) ==
  LET t == job[w]
      live == status[t] \notin Terminal \cup {"pruned"} /\ active[ChangeOf[t]] = t IN
  /\ pc[w] = "locked"
  /\ \/ ~live /\ Leave(w)
     \/ /\ live
        /\ \E to \in {"checked", "failing"} :
             /\ started[t] => to = "failing"
             /\ pc' = [pc EXCEPT ![w] = to]
        /\ UNCHANGED <<job, lock>>
  /\ UNCHANGED <<taskVars, active, last, ready, pubVars, inflight, faults, outages>>

\* Mutant: the marker is set in memory and the payload is not saved.
MarkInMemory(w) ==
  /\ Step(w, "checked", "marked")
  /\ UNCHANGED <<taskVars, changeVars, ready, pubVars, job, inflight, faults,
                 outages>>

MarkStarted(w) ==
  /\ Step(w, "checked", "marked")
  /\ started' = [started EXCEPT ![job[w]] = TRUE]
  /\ UNCHANGED <<status, lease, starts, changeVars, ready, pubVars, job, inflight,
                 faults, outages>>

StartRemote(w) ==
  /\ Step(w, "marked", "remote")
  /\ starts' = [starts EXCEPT ![job[w]] = @ + 1]
  /\ UNCHANGED <<status, lease, started, changeVars, ready, pubVars, job, inflight,
                 faults, outages>>

FinishAnsible(w) ==
  LET t == job[w] IN
  /\ pc[w] = "remote" /\ t \in Tasks \ ChangeTasks
  /\ \E outcome \in Terminal : status' = [status EXCEPT ![t] = outcome]
  /\ Leave(w)
  /\ UNCHANGED <<lease, started, starts, active, last, ready, pubVars, inflight,
                 faults, outages>>

\* Mutant: the outcome is written and the reservation is forgotten.
FinishKeepingReservation(w) ==
  LET t == job[w] IN
  /\ t \in ChangeTasks
  /\ pc[w] \in {"remote", "failing"}
  /\ status' = [status EXCEPT ![t] = "failed"]
  /\ Leave(w)
  /\ UNCHANGED <<lease, started, starts, active, last, ready, pubVars, inflight,
                 faults, outages>>

\* _finish: the outcome and the release of the reservation are one transaction;
\* a worker that lost the reservation raises and leaves both alone.
FinishChange(w) ==
  LET t == job[w]  c == ChangeOf[t] IN
  /\ t \in ChangeTasks
  /\ \/ /\ active[c] = t
        /\ \/ pc[w] = "remote" /\ \E o \in Terminal : status' = [status EXCEPT ![t] = o]
           \/ pc[w] = "failing" /\ status' = [status EXCEPT ![t] = "failed"]
        /\ active' = [active EXCEPT ![c] = NoTask]
     \/ /\ active[c] # t
        /\ pc[w] \in {"remote", "failing"}
        /\ UNCHANGED <<status, active>>
  /\ Leave(w)
  /\ UNCHANGED <<lease, started, starts, last, ready, pubVars, inflight, faults,
                 outages>>

\* The database refuses the outcome: the thread ends, the row stays "running".
GiveUp(w) ==
  /\ pc[w] \in {"remote", "failing"}
  /\ Fault
  /\ Leave(w)
  /\ UNCHANGED <<taskVars, active, last, ready, pubVars, inflight, outages>>

WorkerCrash(w) ==
  /\ pc[w] # "idle"
  /\ Fault
  /\ Leave(w)
  /\ ready' = Redelivered(w)
  /\ inflight' = [inflight EXCEPT ![w] = FALSE]
  /\ UNCHANGED <<taskVars, active, last, pubVars, outages>>

-----------------------------------------------------------------------------
(* Leases. *)

\* The worker's main loop renews every 30 seconds while its thread runs; the
\* statement names the task and its status, not the worker.
Renew(w) ==
  LET t == job[w] IN
  /\ pc[w] \in Executing \ {"claimed"}
  /\ status[t] = "running" /\ ~lease[t]
  /\ lease' = [lease EXCEPT ![t] = TRUE]
  /\ UNCHANGED <<status, started, starts, changeVars, ready, pubVars, workVars,
                 faults, outages>>

\* At least a minute passes without a renewal.  Under a live worker that takes
\* a database outage or a stalled process, counted as an outage.
LeaseExpires(t) ==
  /\ status[t] = "running" /\ lease[t]
  /\ IF \E w \in Workers : ExecutedBy(t, w)
       THEN outages < MaxOutages /\ outages' = outages + 1
       ELSE outages' = outages
  /\ lease' = [lease EXCEPT ![t] = FALSE]
  /\ UNCHANGED <<status, started, starts, changeVars, ready, pubVars, workVars,
                 faults>>

-----------------------------------------------------------------------------

Publisher ==
  \/ RecoverStale \/ SelectCreated \/ MarkPublished \/ PublisherDone
  \/ \E t \in Tasks : PublishConfirmed(t)

Delivery(w) == Claim(w) \/ Ack(w) \/ \E t \in Tasks : Fetch(w, t)

Execute(w) ==
  \/ EnterAnsible(w) \/ EnterChange(w) \/ LockChange(w) \/ Recheck(w)
  \/ MarkStarted(w) \/ StartRemote(w) \/ FinishAnsible(w) \/ FinishChange(w)

Environment ==
  \/ PublisherCrash
  \/ \E t \in Tasks : CreateAnsible(t) \/ EnqueueChange(t) \/ Prune(t) \/ PublishFailed(t)
  \/ \E w \in Workers : Nack(w) \/ ConnectionLost(w) \/ GiveUp(w) \/ WorkerCrash(w)

Next ==
  \/ Publisher
  \/ \E w \in Workers : Delivery(w) \/ Execute(w) \/ Renew(w)
  \/ \E t \in Tasks : LeaseExpires(t)
  \/ Environment

Spec == Init /\ [][Next]_vars

\* The scheduler job runs every five seconds, a worker keeps consuming, its
\* remote work ends, and time passes.  Nobody has to submit work or to fail.
Fairness ==
  /\ WF_vars(Publisher)
  /\ \A w \in Workers : WF_vars(Delivery(w)) /\ WF_vars(Execute(w))
  /\ \A t \in Tasks : WF_vars(LeaseExpires(t) /\ outages' = outages)

FairSpec == Spec /\ Fairness

-----------------------------------------------------------------------------
(* Properties. *)

TypeOK ==
  /\ status \in [Tasks -> Statuses]
  /\ lease \in [Tasks -> BOOLEAN]
  /\ started \in [Tasks -> BOOLEAN]
  /\ starts \in [Tasks -> Nat]
  /\ active \in [Changes -> Tasks \cup {NoTask}]
  /\ last \in [Changes -> Tasks \cup {NoTask}]
  /\ lock \in [Changes -> Workers \cup {NoWorker}]
  /\ ready \in [Tasks -> Nat]
  /\ pubpc \in {"idle", "recovered", "publishing", "sent"}
  /\ batch \subseteq Tasks
  /\ sending \in Tasks \cup {NoTask}
  /\ pc \in [Workers -> {"idle", "fetched", "duplicate"} \cup Executing]
  /\ job \in [Workers -> Tasks \cup {NoTask}]
  /\ inflight \in [Workers -> BOOLEAN]
  /\ faults \in Nat /\ outages \in Nat

\* As long as no lease has expired under a live worker, a task is executed by
\* one worker at a time, whatever is redelivered, duplicated or abandoned
\* (claim_operation, recover_stale_operations).
ExclusiveExecution ==
  outages = 0 =>
    \A t \in Tasks : \A v, w \in Workers :
      ExecutedBy(t, v) /\ ExecutedBy(t, w) => v = w

\* A message that RabbitMQ still has, ready or delivered and not acknowledged.
HasWakeup(t) ==
  \/ ready[t] > 0
  \/ \E w \in Workers : pc[w] = "fetched" /\ job[w] = t /\ inflight[w]

\* recover_stale_operations never looks at "published" rows, so RabbitMQ must
\* still have the wake-up message of each of them, in the queue or delivered
\* to a worker that has not claimed it yet: a published row without one would
\* never run.
PublishedHasWakeup ==
  \A t \in Tasks : status[t] = "published" => HasWakeup(t)

\* An expired lease never silently repeats a change command: its remote work
\* begins at most once, even when leases expire under live workers (the
\* "started" marker and the lock of change/operations.py).
ChangeRunsOnce == \A t \in ChangeTasks : starts[t] <= 1

\* A worker in the remote work of a change command holds the reservation of
\* the change, and nobody else works on that change, so no edit and no other
\* command can interleave with it.
RemoteWorkReserved ==
  \A w \in Workers : pc[w] \in {"marked", "remote"} /\ job[w] \in ChangeTasks =>
    /\ active[ChangeOf[job[w]]] = job[w]
    /\ \A v \in Workers :
         /\ pc[v] \in {"marked", "remote"} /\ job[v] \in ChangeTasks
         /\ ChangeOf[job[v]] = ChangeOf[job[w]]
         => v = w

\* A reservation never outlives its command: active_task_id names a row that
\* is still to run, or the change could never be worked on again.
ReservationLive ==
  \A c \in Changes : active[c] # NoTask =>
    status[active[c]] \in Claimable \cup {"running"}

\* The outcome of a change command is written once, under any faults; that of
\* an Ansible run is final as long as no lease expired under a live worker.
OutcomeFinal ==
  [][\A t \in Tasks :
       /\ status[t] \in Terminal
       /\ t \in ChangeTasks \/ outages = 0
       => status'[t] \in {status[t], "pruned"}]_vars

\* Every submitted operation settles: crashes, lost connections, failed
\* publications and duplicate messages delay it but never strand it.
EveryOperationSettles ==
  \A t \in Tasks : status[t] = "created" ~> status[t] \in Terminal \cup {"pruned"}

\* The docstring of recover_stale_operations: "Return jobs abandoned by a
\* terminated worker to the durable outbox."
OnlyAbandonedRequeued ==
  [][\A t \in Tasks : status[t] = "running" /\ status'[t] = "created" =>
       \A w \in Workers : ~ExecutedBy(t, w)]_vars

-----------------------------------------------------------------------------
(* Refinement of the abstract task life cycle. *)

PhaseOf(s) ==
  CASE s = "none" -> "new"
    [] s \in Claimable -> "queued"
    [] s = "running" -> "running"
    [] s \in Terminal -> "settled"
    [] s = "pruned" -> "gone"

OwnerOf(t) ==
  IF \E w \in Workers : ExecutedBy(t, w)
    THEN CHOOSE w \in Workers : ExecutedBy(t, w) ELSE NoWorker

Abstract == INSTANCE TaskLease WITH
  phase <- [t \in Tasks |-> PhaseOf(status[t])],
  owner <- [t \in Tasks |-> OwnerOf(t)]

\* Without outages the queue implements exclusive leases: only the executing
\* worker settles a task, and only an abandoned task is queued again.
ImplementsTaskLease == Abstract!Spec

=============================================================================
