------------------------- MODULE PendingWorkProofs -------------------------
(* Proofs about work that one process leaves in rows and another takes up,   *)
(* perhaps more than once: the deliveries of the Change Center, for any      *)
(* number of deliveries, attempts, rows to a batch and lost runs; and the    *)
(* runs of a backup schedule, for any workers, tasks, failures, troubles and *)
(* edits.  At the end both run beside the pages of the web interface.        *)
EXTENDS ChangeDeliveries, BackupSchedule, MCEndpoints, PageProofs,
        FiniteSetTheorems, WellFoundedInduction, TLAPS

-----------------------------------------------------------------------------
(* The deliveries of the Change Center. *)

Open == {"none", "pending", "failed", "delivering"}

\* What a run has in hand is marked so, and it remembers a success only of what the
\* destination has.
BatchInv ==
  \A d \in batch : /\ status[d] = "delivering"
                   /\ outcome[d] = "delivered" => received[d] > 0
                   /\ outcome[d] = "failed" => attempts[d] < DeliveryAttempts

\* A delivery that can be claimed again has an attempt left, or one to be forgiven.
AttemptInv ==
  \A d \in Deliveries \ batch :
    status[d] \in Open => attempts[d] < DeliveryAttempts + lost[d]

\* Of a delivery that can be sent again, every copy sent so far has its excuse.
CopyInv ==
  \A d \in Deliveries :
    status[d] \in Open /\ ~(d \in batch /\ outcome[d] = "delivered")
      => received[d] <= lost[d] + unsure[d]

IndInv == /\ TypeOK /\ BatchInv /\ AttemptInv /\ CopyInv
          /\ DeliveredReceived /\ CopiesExplained /\ RetriesBounded

THEOREM Inductive == Spec => []IndInv
<1>1. Init => IndInv
  BY DeliveryAssumption
  DEF Init, IndInv, TypeOK, BatchInv, AttemptInv, CopyInv, DeliveredReceived,
      CopiesExplained, RetriesBounded
<1>2. IndInv /\ [Next]_vars => IndInv'
  <2> SUFFICES ASSUME IndInv, [Next]_vars PROVE IndInv'
    OBVIOUS
  <2> USE DeliveryAssumption
      DEF IndInv, TypeOK, BatchInv, AttemptInv, CopyInv, DeliveredReceived,
          CopiesExplained, RetriesBounded, Open
  <2>1. ASSUME NEW S \in SUBSET Deliveries, RecordEvent(S) PROVE IndInv'
    BY <2>1 DEF RecordEvent
  <2>2. ASSUME NEW d \in Deliveries, Expire(d) PROVE IndInv'
    BY <2>2 DEF Expire
  <2>3. ASSUME NEW d \in Deliveries, Send(d) PROVE IndInv'
    BY <2>3 DEF Send, Failure
  <2>4. CASE ClaimDue
    BY <2>4 DEF ClaimDue, Ready
  <2>5. CASE Persist
    BY <2>5 DEF Persist
  <2>6. CASE LoseRun
    BY <2>6 DEF LoseRun
  <2>7. CASE UNCHANGED vars
    BY <2>7 DEF vars
  <2> QED BY <2>1, <2>2, <2>3, <2>4, <2>5, <2>6, <2>7 DEF Next
<1> QED BY <1>1, <1>2, PTL DEF Spec

\* The types, for any number of deliveries.
THEOREM TypeCorrect == Spec => []TypeOK
<1>1. IndInv => TypeOK BY DEF IndInv
<1> QED BY <1>1, Inductive, PTL

\* update_deliveries never writes 'delivered' for what was not sent.
THEOREM DeliveredIsReceived == Spec => []DeliveredReceived
<1>1. IndInv => DeliveredReceived BY DEF IndInv
<1> QED BY <1>1, Inductive, PTL

\* claim_due_deliveries takes a row over only when its outcome was lost, and
\* process_pending_deliveries tries again only what it has seen fail.
THEOREM DuplicatesExplained == Spec => []CopiesExplained
<1>1. IndInv => CopiesExplained BY DEF IndInv
<1> QED BY <1>1, Inductive, PTL

\* The attempts that claim_due_deliveries counts are bounded by DELIVERY_ATTEMPTS and
\* by the runs that were lost.
THEOREM AttemptsBounded == Spec => []RetriesBounded
<1>1. IndInv => RetriesBounded BY DEF IndInv
<1> QED BY <1>1, Inductive, PTL

\* Both: no copy without an excuse, and no attempt beyond the bound.
THEOREM SendsAccounted == Spec => []SendsExplained
<1>1. IndInv => SendsExplained BY DEF IndInv, SendsExplained
<1> QED BY <1>1, Inductive, PTL

-----------------------------------------------------------------------------
(* The runs of a backup schedule.                                            *)

Steps      == {"idle", "waiting", "locked", "transferring", "transferred", "broken"}
AtTransfer == {"transferring", "transferred", "broken"}
Schedules  == [due : BOOLEAN, retry : {"none", "later", "due"}, active : {NoTask} \cup BackupTasks,
               last : {NoTask} \cup BackupTasks, run : Nat, failures : 0..GiveUpAfter]
Tasks_     == [status : {"none", "created", "running", "completed", "failed", "removed"}, run : Nat]
Duties     == [step : Steps, task : {NoTask} \cup BackupTasks]

BackupTyped ==
    /\ schedule \in Schedules /\ backup \in [BackupTasks -> Tasks_]
    /\ worker \in [BackupWorkers -> Duties] /\ transferred \in [1..MaxTasks -> Nat]
    /\ backupLeft \in [deaths : Nat, saves : Nat]

\* Runs are numbered; a task that is not over is the one the schedule waits for.
TasksKnown ==
    \A t \in BackupTasks :
       /\ Created(t) => backup[t].run <= schedule.run
       /\ backup[t].status \in ActiveStatuses => t = schedule.active
       /\ backup[t].status = "completed" /\ backup[t].run = schedule.run
             => schedule.active \in {t, NoTask} /\ schedule.retry = "none"

\* The task the schedule waits for is one of its run, and it leaves room for a retry.
ActiveKnown ==
    schedule.active # NoTask =>
       /\ backup[schedule.active].status \notin {"none", "removed"}
       /\ backup[schedule.active].run = schedule.run
       /\ schedule.retry = "none" /\ schedule.failures < GiveUpAfter

\* Whoever transfers has the lock and a task that is not over.
LockHeld ==
    /\ \A w \in BackupWorkers :
          /\ worker[w].step # "idle" => worker[w].task # NoTask /\ Created(worker[w].task)
          /\ worker[w].step \in AtTransfer => TaskActive(worker[w].task)
    /\ \A w, x \in BackupWorkers :
          worker[w].step \in AtTransfer \cup {"locked"} /\ worker[x].step \in AtTransfer \cup {"locked"}
             => w = x

\* The failures of a run count its tasks.
AttemptsCounted ==
    /\ \A r \in Nat : Cardinality(AttemptsOf(r)) <= GiveUpAfter
    /\ schedule.active # NoTask => Cardinality(AttemptsOf(schedule.run)) <= schedule.failures + 1
    /\ schedule.retry # "none" => /\ schedule.failures < GiveUpAfter
                                  /\ Cardinality(AttemptsOf(schedule.run)) <= schedule.failures

BackupInv == BackupTyped /\ TasksKnown /\ ActiveKnown /\ LockHeld /\ AttemptsCounted
-----------------------------------------------------------------------------
(* The rows. *)

LEMMA ScheduleFields ==
  ASSUME NEW s \in Schedules
  PROVE  /\ s.due \in BOOLEAN /\ s.retry \in {"none", "later", "due"}
         /\ s.active \in {NoTask} \cup BackupTasks /\ s.last \in {NoTask} \cup BackupTasks
         /\ s.run \in Nat /\ s.failures \in 0..GiveUpAfter
BY DEF Schedules

LEMMA TaskFields ==
  ASSUME NEW b \in Tasks_
  PROVE  /\ b.status \in {"none", "created", "running", "completed", "failed", "removed"}
         /\ b.run \in Nat
BY DEF Tasks_

LEMMA DutyFields ==
  ASSUME NEW p \in Duties
  PROVE  p.step \in Steps /\ p.task \in {NoTask} \cup BackupTasks
BY DEF Duties

LEMMA NoTaskElse == NoTask \notin BackupTasks
BY DEF NoTask, BackupTasks

\* Every set of numbers that is not empty has a least one.
LEMMA LeastExists ==
  ASSUME NEW T \in SUBSET Nat, T # {}
  PROVE  \E x \in T : \A y \in T : x <= y
<1> DEFINE R == OpToRel(<, Nat)
<1>1. IsWellFoundedOn(R, Nat) BY NatLessThanWellFounded
<1>2. PICK x \in T : \A y \in T : ~(<<y, x>> \in R)
  <2> HIDE DEF R
  <2> QED BY <1>1, WFMin
<1>3. \A u, v \in Nat : <<v, u>> \in R <=> v < u BY DEF OpToRel
<1>4. ASSUME NEW y \in T PROVE x <= y
  <2> HIDE DEF R
  <2>1. ~(<<y, x>> \in R) /\ x \in Nat /\ y \in Nat BY <1>2
  <2>2. ~(y < x) BY <1>3, <2>1
  <2> QED BY <2>1, <2>2
<1> QED BY <1>2, <1>4

LEMMA NextFree ==
  ASSUME \E t \in BackupTasks : ~Created(t)
  PROVE  NextTask \in BackupTasks /\ ~Created(NextTask)
<1> DEFINE T == {t \in BackupTasks : ~Created(t)}
<1>1. T \in SUBSET Nat /\ T # {} BY BackupAssumption DEF BackupTasks
<1>2. PICK x \in T : \A y \in T : x <= y
  <2> HIDE DEF T
  <2> QED BY <1>1, LeastExists
<1>3. x \in BackupTasks /\ ~Created(x) /\ \A u \in BackupTasks : u < x => Created(u)
  <2>1. \A u \in BackupTasks : u < x => Created(u) BY <1>2 DEF BackupTasks
  <2> QED BY <1>2, <2>1
<1>4. \E t \in BackupTasks : ~Created(t) /\ \A u \in BackupTasks : u < t => Created(u)
  BY <1>3
<1> QED BY <1>4 DEF NextTask

LEMMA AttemptsFinite ==
  ASSUME NEW r
  PROVE  IsFiniteSet(AttemptsOf(r)) /\ Cardinality(AttemptsOf(r)) \in Nat
<1>1. IsFiniteSet(BackupTasks) BY FS_Interval, BackupAssumption DEF BackupTasks
<1>2. AttemptsOf(r) \subseteq BackupTasks BY DEF AttemptsOf
<1> QED BY <1>1, <1>2, FS_Subset, FS_CardinalityType

\* The status of one task is written.
WritesTask(t, x) == backup' = [backup EXCEPT ![t].status = x]

LEMMA TaskWritten ==
  ASSUME backup \in [BackupTasks -> Tasks_], NEW t \in BackupTasks,
         NEW x \in {"created", "running", "completed", "failed", "removed"}, WritesTask(t, x)
  PROVE  /\ backup' \in [BackupTasks -> Tasks_] /\ backup'[t].status = x
         /\ \A u \in BackupTasks : backup'[u].run = backup[u].run
         /\ \A u \in BackupTasks : u # t => backup'[u] = backup[u]
BY DEF WritesTask, Tasks_

-----------------------------------------------------------------------------
(* Steps that leave the schedule alone. *)

LEMMA TasksStay ==
  ASSUME BackupInv, UNCHANGED schedule,
         \A t \in BackupTasks :
            /\ Created(t)' <=> Created(t)
            /\ backup'[t].run = backup[t].run
            /\ backup'[t].status \in ActiveStatuses => backup[t].status \in ActiveStatuses
            /\ backup'[t].status = "completed" => backup[t].status = "completed" \/ t = schedule.active
            /\ t = schedule.active => backup'[t].status # "removed"
  PROVE  TasksKnown' /\ ActiveKnown' /\ AttemptsCounted'
<1>1. schedule \in Schedules BY DEF BackupInv, BackupTyped
<1>2. schedule.active \in {NoTask} \cup BackupTasks BY <1>1, ScheduleFields
<1>3. TasksKnown'
  <2> SUFFICES ASSUME NEW t \in BackupTasks
               PROVE  /\ Created(t)' => backup'[t].run <= schedule'.run
                      /\ backup'[t].status \in ActiveStatuses => t = schedule'.active
                      /\ backup'[t].status = "completed" /\ backup'[t].run = schedule'.run
                            => schedule'.active \in {t, NoTask} /\ schedule'.retry = "none"
    BY DEF TasksKnown
  <2>1. CASE backup'[t].status = "completed" /\ backup[t].status # "completed"
    BY <2>1, NoTaskElse DEF BackupInv, ActiveKnown, ActiveStatuses, TasksKnown
  <2>2. CASE ~(backup'[t].status = "completed" /\ backup[t].status # "completed")
    BY <2>2 DEF BackupInv, TasksKnown
  <2> QED BY <2>1, <2>2
<1>4. ActiveKnown' BY <1>2 DEF BackupInv, ActiveKnown, Created
<1>5. \A r : AttemptsOf(r)' = AttemptsOf(r) BY DEF AttemptsOf
<1>6. AttemptsCounted' BY <1>5 DEF BackupInv, AttemptsCounted
<1> QED BY <1>3, <1>4, <1>6

\* The worker w goes on; whoever comes to hold the lock finds it free.
LEMMA WorkerGoesOn ==
  ASSUME BackupInv, NEW w \in BackupWorkers, NEW p \in Duties, worker' = [worker EXCEPT ![w] = p],
         \A t \in BackupTasks : Created(t) => Created(t)',
         \A t \in BackupTasks : TaskActive(t) =>
             TaskActive(t)' \/ (t = worker[w].task /\ worker[w].step \in AtTransfer),
         p.step # "idle" => p.task # NoTask /\ Created(p.task)',
         p.step \in AtTransfer => TaskActive(p.task)',
         p.step \in AtTransfer \cup {"locked"} =>
             worker[w].step \in AtTransfer \cup {"locked"} \/ ~Locked
  PROVE  worker' \in [BackupWorkers -> Duties] /\ LockHeld'
<1>1. worker \in [BackupWorkers -> Duties] BY DEF BackupInv, BackupTyped
<1>2. /\ worker' \in [BackupWorkers -> Duties] /\ worker'[w] = p
      /\ \A x \in BackupWorkers : x # w => worker'[x] = worker[x]
  BY <1>1
<1>3. \A x \in BackupWorkers : worker[x].task \in {NoTask} \cup BackupTasks
  BY <1>1, DutyFields
<1>4. ASSUME NEW x \in BackupWorkers, worker'[x].step # "idle"
      PROVE  worker'[x].task # NoTask /\ Created(worker[x].task)'
  <2>1. CASE x = w BY <1>2, <1>4, <2>1
  <2>2. CASE x # w
    <3>1. worker[x].task # NoTask /\ Created(worker[x].task)
      BY <1>2, <1>4, <2>2 DEF BackupInv, LockHeld
    <3> QED BY <1>2, <1>3, <2>2, <3>1 DEF Created
  <2> QED BY <2>1, <2>2
<1>5. ASSUME NEW x \in BackupWorkers, worker'[x].step \in AtTransfer
      PROVE  TaskActive(worker[x].task)'
  <2>1. CASE x = w BY <1>2, <1>5, <2>1 DEF TaskActive
  <2>2. CASE x # w
    <3>1. worker[x].step \in AtTransfer /\ worker[x].task \in BackupTasks
      BY <1>2, <1>3, <1>5, <2>2 DEF BackupInv, LockHeld, TaskActive
    <3>2. worker[w].step \notin AtTransfer BY <2>2, <3>1 DEF BackupInv, LockHeld
    <3>3. TaskActive(worker[x].task) BY <3>1 DEF BackupInv, LockHeld
    <3> QED BY <1>2, <2>2, <3>1, <3>2, <3>3 DEF TaskActive
  <2> QED BY <2>1, <2>2
<1>6. ASSUME NEW x \in BackupWorkers, NEW y \in BackupWorkers,
             worker'[x].step \in AtTransfer \cup {"locked"},
             worker'[y].step \in AtTransfer \cup {"locked"}
      PROVE  x = y
  <2>1. CASE x # w /\ y # w BY <1>2, <1>6, <2>1 DEF BackupInv, LockHeld
  <2>2. CASE x = w /\ y # w
    BY <1>2, <1>6, <2>2 DEF BackupInv, LockHeld, Locked, AtTransfer
  <2>3. CASE x # w /\ y = w
    BY <1>2, <1>6, <2>3 DEF BackupInv, LockHeld, Locked, AtTransfer
  <2> QED BY <2>1, <2>2, <2>3
<1> QED BY <1>2, <1>4, <1>5, <1>6 DEF LockHeld
-----------------------------------------------------------------------------
(* The scheduler. *)

\* A schedule that waits for no task: its retry, if any, has room and none of its tasks is done.
Free(s) ==
    /\ s \in Schedules /\ s.active = NoTask /\ s.run = schedule.run
    /\ s.retry # "none" =>
          /\ s.failures < GiveUpAfter /\ Cardinality(AttemptsOf(s.run)) <= s.failures
          /\ \A t \in BackupTasks : ~(backup[t].status = "completed" /\ backup[t].run = s.run)

LEMMA NoneActive ==
  ASSUME BackupInv, ~TaskActive(schedule.active)
  PROVE  \A t \in BackupTasks : backup[t].status \notin ActiveStatuses
BY NoTaskElse DEF BackupInv, TasksKnown, TaskActive

LEMMA FreedKeeps ==
  ASSUME BackupInv, ~TaskActive(schedule.active), Free(schedule'),
         UNCHANGED <<backup, worker, transferred>>, backupLeft' \in [deaths : Nat, saves : Nat]
  PROVE  BackupInv'
<1>1. BackupTyped' BY DEF BackupInv, BackupTyped, Free
<1>2. TasksKnown'
  BY NoneActive DEF BackupInv, TasksKnown, Created, Free
<1>3. ActiveKnown' BY DEF ActiveKnown, Free
<1>4. LockHeld' BY DEF BackupInv, LockHeld, Created, TaskActive
<1>5. \A r : AttemptsOf(r)' = AttemptsOf(r) BY DEF AttemptsOf, Created
<1>6. AttemptsCounted' BY <1>5 DEF BackupInv, AttemptsCounted, Free
<1> QED BY <1>1, <1>2, <1>3, <1>4, <1>6 DEF BackupInv

LEMMA SettledFree ==
  ASSUME BackupInv, ~TaskActive(schedule.active)
  PROVE  Free(Settled)
<1>1. schedule \in Schedules BY DEF BackupInv, BackupTyped
<1>2. schedule.active \in {NoTask} \cup BackupTasks /\ schedule.failures \in 0..GiveUpAfter
  BY <1>1, ScheduleFields
<1>3. CASE schedule.active = NoTask
  <2>1. Settled = schedule BY <1>3 DEF Settled
  <2>2. schedule.retry # "none" =>
          \A t \in BackupTasks : ~(backup[t].status = "completed" /\ backup[t].run = schedule.run)
    BY DEF BackupInv, TasksKnown
  <2> QED BY <1>1, <1>3, <2>1, <2>2 DEF Free, BackupInv, AttemptsCounted
<1>4. CASE schedule.active # NoTask /\ backup[schedule.active].status = "completed"
  <2> DEFINE s == [schedule EXCEPT !.active = NoTask, !.failures = 0]
  <2>1. Settled = s BY <1>4 DEF Settled
  <2>4. 0 \in 0..GiveUpAfter BY BackupAssumption
  <2>2. s \in Schedules /\ s.active = NoTask /\ s.run = schedule.run /\ s.retry = schedule.retry
    BY <1>1, <2>4 DEF Schedules
  <2>3. schedule.retry = "none" BY <1>4 DEF BackupInv, ActiveKnown
  <2> HIDE DEF s
  <2> QED BY <2>1, <2>2, <2>3 DEF Free
<1>5. CASE schedule.active # NoTask /\ backup[schedule.active].status # "completed"
  <2> DEFINE more == schedule.failures + 1 < GiveUpAfter
             s == [schedule EXCEPT !.active = NoTask, !.failures = @ + 1,
                                   !.retry = IF more THEN "later" ELSE "none",
                                   !.due = IF more THEN @ ELSE FALSE]
  <2>1. Settled = s BY <1>5 DEF Settled
  <2>2. schedule.failures < GiveUpAfter /\ schedule.failures + 1 \in 0..GiveUpAfter
    BY <1>2, <1>5, BackupAssumption DEF BackupInv, ActiveKnown
  <2>3. /\ s \in Schedules /\ s.active = NoTask /\ s.run = schedule.run
        /\ s.failures = schedule.failures + 1
        /\ s.retry # "none" => s.failures < GiveUpAfter
    BY <1>1, <2>2 DEF Schedules
  <2> HIDE DEF s
  <2>4. Cardinality(AttemptsOf(s.run)) <= s.failures
    BY <1>5, <2>3 DEF BackupInv, AttemptsCounted
  <2>5. ASSUME NEW t \in BackupTasks, backup[t].status = "completed", backup[t].run = schedule.run
        PROVE  FALSE
    <3>1. schedule.active \in {t, NoTask} BY <2>5 DEF BackupInv, TasksKnown
    <3> QED BY <1>5, <2>5, <3>1
  <2> QED BY <2>1, <2>3, <2>4, <2>5 DEF Free
<1> QED BY <1>3, <1>4, <1>5

\* A new task is one more attempt of its run.
LEMMA TaskAdded ==
  ASSUME BackupInv, NEW n \in BackupTasks, ~Created(n), NEW k \in Nat,
         backup' = [backup EXCEPT ![n] = [status |-> "created", run |-> k]]
  PROVE  /\ backup' \in [BackupTasks -> Tasks_] /\ backup'[n].status = "created" /\ backup'[n].run = k
         /\ \A t \in BackupTasks : t # n => backup'[t] = backup[t]
         /\ \A r : r # k => AttemptsOf(r)' = AttemptsOf(r)
         /\ Cardinality(AttemptsOf(k)') = Cardinality(AttemptsOf(k)) + 1
<1>1. backup \in [BackupTasks -> Tasks_] BY DEF BackupInv, BackupTyped
<1> DEFINE b == [status |-> "created", run |-> k]
<1>2. b \in Tasks_ /\ b.status = "created" /\ b.run = k BY DEF Tasks_
<1>3. backup' = [backup EXCEPT ![n] = b] OBVIOUS
<1> HIDE DEF b
<1>4. /\ backup' \in [BackupTasks -> Tasks_] /\ backup'[n] = b
      /\ \A t \in BackupTasks : t # n => backup'[t] = backup[t]
  BY <1>1, <1>2, <1>3
<1>5. \A r : r # k => AttemptsOf(r)' = AttemptsOf(r)
  BY <1>2, <1>4 DEF AttemptsOf, Created
<1>6. AttemptsOf(k)' = AttemptsOf(k) \cup {n} BY <1>2, <1>4 DEF AttemptsOf, Created
<1>7. n \notin AttemptsOf(k) BY DEF AttemptsOf
<1>8. Cardinality(AttemptsOf(k) \cup {n}) = Cardinality(AttemptsOf(k)) + 1
  BY <1>7, AttemptsFinite, FS_AddElement
<1> QED BY <1>2, <1>4, <1>5, <1>6, <1>8

LEMMA EnqueueKeeps ==
  ASSUME BackupInv, ~TaskActive(schedule.active), NEW s, Free(s), Wants(s),
         \E t \in BackupTasks : ~Created(t), schedule' = Enqueued(s),
         backup' = [backup EXCEPT ![NextTask] = [status |-> "created", run |-> Enqueued(s).run]],
         UNCHANGED <<worker, transferred, backupLeft>>
  PROVE  BackupInv'
<1>1. PICK n \in BackupTasks : n = NextTask /\ ~Created(n) BY NextFree
<1>2. s \in Schedules /\ s.active = NoTask /\ s.run = schedule.run BY DEF Free
<1> DEFINE again == s.retry = "due"
           number == IF again THEN s.run ELSE s.run + 1
           failed == IF again THEN s.failures ELSE 0
           falls == IF again THEN s.due ELSE FALSE
           e == [s EXCEPT !.active = n, !.last = n, !.retry = "none",
                          !.run = number, !.failures = failed, !.due = falls]
<1>3. Enqueued(s) = e BY <1>1 DEF Enqueued
<1>3a. number \in Nat /\ failed \in 0..GiveUpAfter /\ falls \in BOOLEAN
  <2>1. s.run \in Nat /\ s.failures \in 0..GiveUpAfter /\ s.due \in BOOLEAN
    BY <1>2, ScheduleFields
  <2>2. 0 \in 0..GiveUpAfter BY BackupAssumption
  <2>3. number \in Nat BY <2>1
  <2>4. failed \in 0..GiveUpAfter BY <2>1, <2>2
  <2>5. falls \in BOOLEAN BY <2>1, Zenon
  <2> QED BY <2>3, <2>4, <2>5
<1>4. /\ e \in Schedules /\ e.active = n /\ e.retry = "none" /\ e.run \in Nat
      /\ again => e.run = s.run /\ e.failures = s.failures
      /\ ~again => e.run = s.run + 1 /\ e.failures = 0
  <2> HIDE DEF number, failed, falls
  <2>1. /\ e \in Schedules /\ e.active = n /\ e.retry = "none"
        /\ e.run = number /\ e.failures = failed
    BY <1>3a, <1>2 DEF Schedules
  <2> HIDE DEF e
  <2> USE DEF number, failed
  <2> QED BY <1>3a, <2>1
<1>5. schedule' = e /\ backup' = [backup EXCEPT ![n] = [status |-> "created", run |-> e.run]]
  BY <1>1, <1>3
<1> HIDE DEF e
<1>6. PICK k \in Nat : k = e.run BY <1>4
<1>7. /\ backup' \in [BackupTasks -> Tasks_] /\ backup'[n].status = "created" /\ backup'[n].run = k
      /\ \A t \in BackupTasks : t # n => backup'[t] = backup[t]
      /\ \A r : r # k => AttemptsOf(r)' = AttemptsOf(r)
      /\ Cardinality(AttemptsOf(k)') = Cardinality(AttemptsOf(k)) + 1
  BY <1>1, <1>5, <1>6, TaskAdded
<1>8. schedule.run \in Nat /\ s.failures \in Nat BY <1>2, ScheduleFields
<1>9. \A t \in BackupTasks : Created(t) => backup[t].run <= schedule.run /\ backup[t].run \in Nat
  BY TaskFields DEF BackupInv, TasksKnown, BackupTyped
<1>10. schedule.run <= k /\ (again => k = schedule.run) /\ (~again => k = schedule.run + 1)
  BY <1>2, <1>4, <1>6, <1>8
<1>11. BackupTyped' BY <1>4, <1>5, <1>7 DEF BackupInv, BackupTyped
<1>12. TasksKnown'
  <2> SUFFICES ASSUME NEW t \in BackupTasks
               PROVE  /\ Created(t)' => backup'[t].run <= schedule'.run
                      /\ backup'[t].status \in ActiveStatuses => t = schedule'.active
                      /\ backup'[t].status = "completed" /\ backup'[t].run = schedule'.run
                            => schedule'.active \in {t, NoTask} /\ schedule'.retry = "none"
    BY DEF TasksKnown
  <2>1. CASE t = n BY <1>4, <1>5, <1>6, <1>7, <2>1
  <2>2. CASE t # n
    <3>1. backup'[t] = backup[t] BY <1>7, <2>2
    <3>2. Created(t)' => backup'[t].run <= schedule'.run
      BY <1>5, <1>6, <1>8, <1>9, <1>10, <3>1 DEF Created
    <3>3. backup'[t].status \notin ActiveStatuses BY <3>1, NoneActive
    <3>4. ~(backup[t].status = "completed" /\ backup[t].run = k)
      <4>1. CASE again
        <5>1. s.run = k BY <1>2, <1>10, <4>1
        <5> QED BY <4>1, <5>1 DEF Free
      <4>2. CASE ~again
        <5> SUFFICES ASSUME backup[t].status = "completed", backup[t].run = k PROVE FALSE
          OBVIOUS
        <5>1. backup[t].run <= schedule.run BY <1>9 DEF Created
        <5> QED BY <1>8, <1>10, <4>2, <5>1
      <4> QED BY <4>1, <4>2
    <3> QED BY <1>5, <1>6, <3>1, <3>2, <3>3, <3>4
  <2> QED BY <2>1, <2>2
<1>13. ActiveKnown'
  <2>1. e.failures < GiveUpAfter
    BY <1>4, <1>8, BackupAssumption DEF Free
  <2> QED BY <1>4, <1>5, <1>6, <1>7, <2>1 DEF ActiveKnown
<1>14. LockHeld'
  <2>1. \A t \in BackupTasks : ~TaskActive(t) BY NoneActive DEF TaskActive
  <2>2. \A w \in BackupWorkers : worker[w].task \in {NoTask} \cup BackupTasks
    BY DutyFields DEF BackupInv, BackupTyped
  <2>3. \A w \in BackupWorkers : worker[w].step \notin AtTransfer
    BY <2>1, <2>2 DEF BackupInv, LockHeld, TaskActive
  <2>4. \A t \in BackupTasks : Created(t) => Created(t)' BY <1>7 DEF Created
  <2>5. \A w \in BackupWorkers : worker[w].step # "idle" =>
            worker[w].task # NoTask /\ Created(worker[w].task)'
    BY <2>2, <2>4 DEF BackupInv, LockHeld, Created
  <2> QED BY <2>3, <2>5 DEF BackupInv, LockHeld
<1>15. AttemptsCounted'
  <2>1. Cardinality(AttemptsOf(k)) \in Nat BY AttemptsFinite
  <2>2. Cardinality(AttemptsOf(k)) <= e.failures /\ e.failures < GiveUpAfter /\ e.failures \in Nat
    <3>1. CASE again
      <4>1. /\ s.failures < GiveUpAfter /\ Cardinality(AttemptsOf(s.run)) <= s.failures
        BY <3>1 DEF Free
      <4> QED BY <1>2, <1>4, <1>8, <1>10, <3>1, <4>1
    <3>2. CASE ~again
      <4>1. AttemptsOf(k) = {} BY <1>8, <1>9, <1>10, <3>2 DEF AttemptsOf
      <4>2. Cardinality(AttemptsOf(k)) = 0 BY <4>1, FS_EmptySet
      <4> QED BY <1>4, <3>2, <4>2, BackupAssumption
    <3> QED BY <3>1, <3>2
  <2>3. Cardinality(AttemptsOf(k)') <= e.failures + 1 /\ Cardinality(AttemptsOf(k)') <= GiveUpAfter
    BY <1>7, <2>1, <2>2, BackupAssumption
  <2>4. \A r \in Nat : Cardinality(AttemptsOf(r)') <= GiveUpAfter
    BY <1>7, <2>3 DEF BackupInv, AttemptsCounted
  <2> QED BY <1>4, <1>5, <1>6, <2>3, <2>4 DEF AttemptsCounted
<1> QED BY <1>11, <1>12, <1>13, <1>14, <1>15 DEF BackupInv

LEMMA DispatchKeeps ==
  ASSUME BackupInv, Dispatch
  PROVE  BackupInv'
<1>1. PICK s : s = Settled OBVIOUS
<1>2. ~TaskActive(schedule.active) /\ UNCHANGED <<worker, transferred, backupLeft>> BY DEF Dispatch
<1>3. Free(s) BY <1>1, <1>2, SettledFree
<1>4. CASE Wants(s)
  <2>1. /\ \E t \in BackupTasks : ~Created(t)
        /\ schedule' = Enqueued(s)
        /\ backup' = [backup EXCEPT ![NextTask] = [status |-> "created", run |-> Enqueued(s).run]]
    BY <1>1, <1>4 DEF Dispatch
  <2> QED BY <1>2, <1>3, <1>4, <2>1, EnqueueKeeps
<1>5. CASE ~Wants(s)
  <2>1. schedule' = s /\ UNCHANGED backup BY <1>1, <1>5 DEF Dispatch
  <2>2. Free(schedule') BY <1>3, <2>1
  <2>3. backupLeft' \in [deaths : Nat, saves : Nat] BY <1>2 DEF BackupInv, BackupTyped
  <2> QED BY <1>2, <2>1, <2>2, <2>3, FreedKeeps
<1> QED BY <1>4, <1>5

\* The times come, and a user starts the schedule afresh.
LEMMA RunTimeKeeps ==
  ASSUME BackupInv, RunTimeComes
  PROVE  BackupInv'
<1>1. schedule \in Schedules BY DEF BackupInv, BackupTyped
<1>2. /\ schedule' = [schedule EXCEPT !.due = TRUE]
      /\ UNCHANGED <<backup, worker, transferred, backupLeft>>
  BY DEF RunTimeComes
<1>3. /\ schedule' \in Schedules /\ schedule'.active = schedule.active
      /\ schedule'.run = schedule.run /\ schedule'.retry = schedule.retry
      /\ schedule'.failures = schedule.failures
  BY <1>1, <1>2 DEF Schedules
<1>4. BackupTyped' BY <1>2, <1>3 DEF BackupInv, BackupTyped
<1>5. TasksKnown' BY <1>2, <1>3 DEF BackupInv, TasksKnown, Created
<1>6. ActiveKnown' BY <1>2, <1>3 DEF BackupInv, ActiveKnown
<1>7. LockHeld' BY <1>2 DEF BackupInv, LockHeld, Created, TaskActive
<1>8. \A r : AttemptsOf(r)' = AttemptsOf(r) BY <1>2 DEF AttemptsOf, Created
<1>9. AttemptsCounted' BY <1>3, <1>8 DEF BackupInv, AttemptsCounted
<1> QED BY <1>4, <1>5, <1>6, <1>7, <1>9 DEF BackupInv

LEMMA RetryTimeKeeps ==
  ASSUME BackupInv, RetryTimeComes
  PROVE  BackupInv'
<1>1. schedule \in Schedules BY DEF BackupInv, BackupTyped
<1>2. /\ schedule.retry = "later" /\ schedule' = [schedule EXCEPT !.retry = "due"]
      /\ UNCHANGED <<backup, worker, transferred, backupLeft>>
  BY DEF RetryTimeComes
<1>3. /\ schedule' \in Schedules /\ schedule'.active = schedule.active
      /\ schedule'.run = schedule.run /\ schedule'.failures = schedule.failures
  BY <1>1, <1>2 DEF Schedules
<1>4. schedule.active = NoTask BY <1>2 DEF BackupInv, ActiveKnown
<1>5. ~TaskActive(schedule.active) BY <1>4 DEF TaskActive
<1>6. \A t \in BackupTasks : ~(backup[t].status = "completed" /\ backup[t].run = schedule.run)
  BY <1>2 DEF BackupInv, TasksKnown
<1>7. /\ schedule.failures < GiveUpAfter
      /\ Cardinality(AttemptsOf(schedule.run)) <= schedule.failures
  BY <1>2 DEF BackupInv, AttemptsCounted
<1>8. Free(schedule') BY <1>3, <1>4, <1>6, <1>7 DEF Free
<1>9. backupLeft' \in [deaths : Nat, saves : Nat] BY <1>2 DEF BackupInv, BackupTyped
<1> QED BY <1>2, <1>5, <1>8, <1>9, FreedKeeps

LEMMA SaveKeeps ==
  ASSUME BackupInv, SaveBackup
  PROVE  BackupInv'
<1>1. schedule \in Schedules /\ backupLeft \in [deaths : Nat, saves : Nat]
  BY DEF BackupInv, BackupTyped
<1>2. /\ backupLeft.saves > 0 /\ ~TaskActive(schedule.active)
      /\ schedule' = [schedule EXCEPT !.due = FALSE, !.retry = "none", !.active = NoTask,
                                      !.failures = 0]
      /\ backupLeft' = [backupLeft EXCEPT !.saves = @ - 1]
      /\ UNCHANGED <<backup, worker, transferred>>
  BY DEF SaveBackup
<1>3. 0 \in 0..GiveUpAfter BY BackupAssumption
<1>4. /\ schedule' \in Schedules /\ schedule'.active = NoTask /\ schedule'.run = schedule.run
      /\ schedule'.retry = "none"
  BY <1>1, <1>2, <1>3 DEF Schedules
<1>5. Free(schedule') BY <1>4 DEF Free
<1>6. backupLeft' \in [deaths : Nat, saves : Nat] BY <1>1, <1>2
<1> QED BY <1>2, <1>5, <1>6, FreedKeeps

LEMMA ForgetKeeps ==
  ASSUME BackupInv, NEW t \in BackupTasks, Forget(t)
  PROVE  BackupInv'
<1>1. /\ backup[t].status \in {"completed", "failed"} /\ t # schedule.active
      /\ backup' = [backup EXCEPT ![t].status = "removed"]
      /\ UNCHANGED <<schedule, worker, transferred, backupLeft>>
  BY DEF Forget
<1>2. WritesTask(t, "removed") BY <1>1 DEF WritesTask
<1>3. /\ backup' \in [BackupTasks -> Tasks_] /\ backup'[t].status = "removed"
      /\ \A u \in BackupTasks : backup'[u].run = backup[u].run
      /\ \A u \in BackupTasks : u # t => backup'[u] = backup[u]
  BY <1>2, TaskWritten DEF BackupInv, BackupTyped
<1>4. BackupTyped' BY <1>1, <1>3 DEF BackupInv, BackupTyped
<1>5. \A u \in BackupTasks : Created(u)' <=> Created(u) BY <1>1, <1>3 DEF Created
<1>6. \A u \in BackupTasks : u = schedule.active => backup'[u].status # "removed"
  BY <1>1, <1>3, NoTaskElse DEF BackupInv, ActiveKnown
<1>7. TasksKnown' /\ ActiveKnown' /\ AttemptsCounted'
  BY <1>1, <1>3, <1>5, <1>6, TasksStay DEF ActiveStatuses
<1>8. \A u \in BackupTasks : TaskActive(u) => TaskActive(u)'
  BY <1>1, <1>3 DEF TaskActive, ActiveStatuses
<1>9. LockHeld'
  <2>1. \A w \in BackupWorkers : worker[w].task \in {NoTask} \cup BackupTasks
    BY DutyFields DEF BackupInv, BackupTyped
  <2>2. \A w \in BackupWorkers : worker[w].step # "idle" =>
            worker[w].task # NoTask /\ Created(worker[w].task)'
    BY <1>1, <1>5, <2>1 DEF BackupInv, LockHeld, Created
  <2>3. \A w \in BackupWorkers : worker[w].step \in AtTransfer => TaskActive(worker[w].task)'
    BY <1>1, <1>8, <2>1 DEF BackupInv, LockHeld, TaskActive
  <2> QED BY <1>1, <2>2, <2>3 DEF BackupInv, LockHeld, TaskActive, Created
<1> QED BY <1>4, <1>7, <1>9 DEF BackupInv

-----------------------------------------------------------------------------
(* The workers. *)

\* A worker goes on while the rows stay.
LEMMA OnlyWorker ==
  ASSUME BackupInv, NEW w \in BackupWorkers, NEW p \in Duties, worker' = [worker EXCEPT ![w] = p],
         UNCHANGED <<schedule, backup>>, transferred' \in [1..MaxTasks -> Nat],
         backupLeft' \in [deaths : Nat, saves : Nat],
         p.step # "idle" => p.task # NoTask /\ Created(p.task),
         p.step \in AtTransfer => TaskActive(p.task),
         p.step \in AtTransfer \cup {"locked"} =>
             worker[w].step \in AtTransfer \cup {"locked"} \/ ~Locked
  PROVE  BackupInv'
<1>1. \A t : (Created(t)' <=> Created(t)) /\ (TaskActive(t)' <=> TaskActive(t))
  BY DEF Created, TaskActive
<1>2. worker' \in [BackupWorkers -> Duties] /\ LockHeld' BY <1>1, WorkerGoesOn DEF Created, TaskActive
<1>3. BackupTyped' BY <1>2 DEF BackupInv, BackupTyped
<1>4. \A t \in BackupTasks : t = schedule.active => backup[t].status # "removed"
  BY NoTaskElse DEF BackupInv, ActiveKnown
<1>5. TasksKnown' /\ ActiveKnown' /\ AttemptsCounted' BY <1>1, <1>4, TasksStay
<1> QED BY <1>2, <1>3, <1>5 DEF BackupInv

LEMMA IdlePost == IdleWorker \in Duties /\ IdleWorker.step = "idle"
BY DEF IdleWorker, Duties, Steps, NoTask

\* Where a worker stands.
LEMMA Standing ==
  ASSUME BackupInv, NEW w \in BackupWorkers, worker[w].step # "idle"
  PROVE  /\ worker[w] \in Duties /\ worker[w].task \in BackupTasks /\ Created(worker[w].task)
         /\ worker[w].step \in AtTransfer =>
               TaskActive(worker[w].task) /\ worker[w].task = schedule.active
<1>1. worker[w] \in Duties BY DEF BackupInv, BackupTyped
<1>2. worker[w].task \in BackupTasks BY <1>1, DutyFields DEF BackupInv, LockHeld
<1>3. Created(worker[w].task) BY DEF BackupInv, LockHeld
<1>4. worker[w].step \in AtTransfer =>
          TaskActive(worker[w].task) /\ worker[w].task = schedule.active
  BY <1>2 DEF BackupInv, LockHeld, TasksKnown, TaskActive
<1> QED BY <1>1, <1>2, <1>3, <1>4

LEMMA Stepped ==
  ASSUME NEW p \in Duties, NEW x \in Steps
  PROVE  LET q == [p EXCEPT !.step = x] IN q \in Duties /\ q.step = x /\ q.task = p.task
BY DEF Duties

LEMMA ClaimKeeps ==
  ASSUME BackupInv, NEW w \in BackupWorkers, NEW t \in BackupTasks, ClaimTask(w, t)
  PROVE  BackupInv'
<1>1. /\ worker[w].step = "idle" /\ backup[t].status = "created"
      /\ backup' = [backup EXCEPT ![t].status = "running"]
      /\ worker' = [worker EXCEPT ![w] = [step |-> "waiting", task |-> t]]
      /\ UNCHANGED <<schedule, transferred, backupLeft>>
  BY DEF ClaimTask
<1>2. WritesTask(t, "running") BY <1>1 DEF WritesTask
<1>3. /\ backup' \in [BackupTasks -> Tasks_] /\ backup'[t].status = "running"
      /\ \A u \in BackupTasks : backup'[u].run = backup[u].run
      /\ \A u \in BackupTasks : u # t => backup'[u] = backup[u]
  BY <1>2, TaskWritten DEF BackupInv, BackupTyped
<1>4. \A u \in BackupTasks : (Created(u)' <=> Created(u)) /\ (TaskActive(u)' <=> TaskActive(u))
  BY <1>1, <1>3 DEF Created, TaskActive, ActiveStatuses
<1>5. \A u \in BackupTasks : u = schedule.active => backup'[u].status # "removed"
  BY <1>3, NoTaskElse DEF BackupInv, ActiveKnown
<1>6. TasksKnown' /\ ActiveKnown' /\ AttemptsCounted'
  BY <1>1, <1>3, <1>4, <1>5, TasksStay DEF ActiveStatuses
<1> DEFINE p == [step |-> "waiting", task |-> t]
<1>7. p \in Duties /\ p.step = "waiting" /\ p.task = t BY DEF Duties, Steps
<1>8. worker' = [worker EXCEPT ![w] = p] BY <1>1
<1> HIDE DEF p
<1>9. worker' \in [BackupWorkers -> Duties] /\ LockHeld'
  <2>1. Created(p.task)' /\ p.task # NoTask BY <1>3, <1>7, NoTaskElse DEF Created
  <2> QED BY <1>4, <1>7, <1>8, <2>1, WorkerGoesOn DEF AtTransfer
<1>10. BackupTyped' BY <1>1, <1>3, <1>9 DEF BackupInv, BackupTyped
<1> QED BY <1>6, <1>9, <1>10 DEF BackupInv

LEMMA LeaseKeeps ==
  ASSUME BackupInv, NEW t \in BackupTasks, LoseLease(t)
  PROVE  BackupInv'
<1>1. /\ backup[t].status = "running" /\ (~Held(t) \/ backupLeft.deaths > 0)
      /\ backup' = [backup EXCEPT ![t].status = "created"]
      /\ backupLeft' = [backupLeft EXCEPT !.deaths = IF Held(t) THEN @ - 1 ELSE @]
      /\ UNCHANGED <<schedule, worker, transferred>>
  BY DEF LoseLease
<1>2. WritesTask(t, "created") BY <1>1 DEF WritesTask
<1>3. /\ backup' \in [BackupTasks -> Tasks_] /\ backup'[t].status = "created"
      /\ \A u \in BackupTasks : backup'[u].run = backup[u].run
      /\ \A u \in BackupTasks : u # t => backup'[u] = backup[u]
  BY <1>2, TaskWritten DEF BackupInv, BackupTyped
<1>4. \A u \in BackupTasks : (Created(u)' <=> Created(u)) /\ (TaskActive(u)' <=> TaskActive(u))
  BY <1>1, <1>3 DEF Created, TaskActive, ActiveStatuses
<1>5. \A u \in BackupTasks : u = schedule.active => backup'[u].status # "removed"
  BY <1>3, NoTaskElse DEF BackupInv, ActiveKnown
<1>6. TasksKnown' /\ ActiveKnown' /\ AttemptsCounted'
  BY <1>1, <1>3, <1>4, <1>5, TasksStay DEF ActiveStatuses
<1>7. backupLeft' \in [deaths : Nat, saves : Nat]
  <2>1. backupLeft \in [deaths : Nat, saves : Nat] BY DEF BackupInv, BackupTyped
  <2>2. CASE Held(t) BY <1>1, <2>1, <2>2
  <2>3. CASE ~Held(t) BY <1>1, <2>1, <2>3
  <2> QED BY <2>2, <2>3
<1>8. LockHeld'
  <2>1. \A w \in BackupWorkers : worker[w].task \in {NoTask} \cup BackupTasks
    BY DutyFields DEF BackupInv, BackupTyped
  <2>2. \A w \in BackupWorkers : worker[w].step # "idle" =>
            worker[w].task # NoTask /\ Created(worker[w].task)'
    BY <1>1, <1>4, <2>1 DEF BackupInv, LockHeld, Created
  <2>3. \A w \in BackupWorkers : worker[w].step \in AtTransfer => TaskActive(worker[w].task)'
    BY <1>1, <1>4, <2>1 DEF BackupInv, LockHeld, TaskActive
  <2> QED BY <1>1, <2>2, <2>3 DEF BackupInv, LockHeld, TaskActive, Created
<1>9. BackupTyped' BY <1>1, <1>3, <1>7 DEF BackupInv, BackupTyped
<1> QED BY <1>6, <1>8, <1>9 DEF BackupInv
LEMMA LockKeeps ==
  ASSUME BackupInv, NEW w \in BackupWorkers, TakeLock(w)
  PROVE  BackupInv'
<1>1. /\ worker[w].step = "waiting" /\ ~Locked
      /\ worker' = [worker EXCEPT ![w].step = "locked"]
      /\ UNCHANGED <<schedule, backup, transferred, backupLeft>>
  BY DEF TakeLock
<1>2. worker[w] \in Duties /\ worker[w].task \in BackupTasks /\ Created(worker[w].task)
  BY <1>1, Standing
<1> DEFINE p == [worker[w] EXCEPT !.step = "locked"]
<1>3. worker' = [worker EXCEPT ![w] = p] BY <1>1
<1>4. p \in Duties /\ p.step = "locked" /\ p.task = worker[w].task
  BY <1>2, Stepped DEF Steps
<1> HIDE DEF p
<1>5. transferred' \in [1..MaxTasks -> Nat] /\ backupLeft' \in [deaths : Nat, saves : Nat]
  BY <1>1 DEF BackupInv, BackupTyped
<1>6. p.step \notin AtTransfer BY <1>4 DEF AtTransfer
<1>7. p.task # NoTask /\ Created(p.task) BY <1>2, <1>4, NoTaskElse
<1> QED BY <1>1, <1>3, <1>4, <1>5, <1>6, <1>7, OnlyWorker

\* A worker that puts its task down, or dies, leaves the rows as they are.
LEMMA IdleKeeps ==
  ASSUME BackupInv, NEW w \in BackupWorkers, worker' = [worker EXCEPT ![w] = IdleWorker],
         UNCHANGED <<schedule, backup, transferred>>, backupLeft' \in [deaths : Nat, saves : Nat]
  PROVE  BackupInv'
<1>1. transferred' \in [1..MaxTasks -> Nat] BY DEF BackupInv, BackupTyped
<1>2. IdleWorker \in Duties /\ IdleWorker.step = "idle" BY IdlePost
<1>3. IdleWorker.step \notin AtTransfer \cup {"locked"} BY <1>2 DEF AtTransfer
<1> QED BY <1>1, <1>2, <1>3, OnlyWorker

LEMMA SkipKeeps ==
  ASSUME BackupInv, NEW w \in BackupWorkers, SkipTask(w)
  PROVE  BackupInv'
<1>1. backupLeft' \in [deaths : Nat, saves : Nat] BY DEF SkipTask, BackupInv, BackupTyped
<1> QED BY <1>1, IdleKeeps DEF SkipTask

LEMMA DeathKeeps ==
  ASSUME BackupInv, NEW w \in BackupWorkers, WorkerDies(w)
  PROVE  BackupInv'
<1>1. backupLeft' \in [deaths : Nat, saves : Nat] BY DEF WorkerDies, BackupInv, BackupTyped
<1> QED BY <1>1, IdleKeeps DEF WorkerDies

\* Whoever has the lock and a task that is not over has the task the schedule waits for.
LEMMA LockedCurrent ==
  ASSUME BackupInv, NEW w \in BackupWorkers, worker[w].step = "locked",
         ~AlreadyOver(worker[w].task)
  PROVE  TaskActive(worker[w].task) /\ Current(worker[w].task)
<1>1. PICK t \in BackupTasks : t = worker[w].task /\ Created(t) BY Standing
<1>2. backup[t] \in Tasks_ BY DEF BackupInv, BackupTyped
<1>3. backup[t].status \in ActiveStatuses
  BY <1>1, <1>2, TaskFields DEF AlreadyOver, Created, ActiveStatuses
<1>4. t = schedule.active /\ t # NoTask BY <1>3, NoTaskElse DEF BackupInv, TasksKnown
<1>5. backup[t].run = schedule.run BY <1>4 DEF BackupInv, ActiveKnown
<1> QED BY <1>1, <1>3, <1>4, <1>5 DEF TaskActive, Current

LEMMA BeginKeeps ==
  ASSUME BackupInv, NEW w \in BackupWorkers, BeginTransfer(w)
  PROVE  BackupInv'
<1>1. /\ worker[w].step = "locked" /\ ~AlreadyOver(worker[w].task)
      /\ worker' = [worker EXCEPT ![w].step = "transferring"]
      /\ transferred' = [transferred EXCEPT ![schedule.run] = @ + 1]
      /\ UNCHANGED <<schedule, backup, backupLeft>>
  BY DEF BeginTransfer
<1>2. worker[w] \in Duties /\ worker[w].task \in BackupTasks /\ Created(worker[w].task)
  BY <1>1, Standing
<1> DEFINE p == [worker[w] EXCEPT !.step = "transferring"]
<1>3. worker' = [worker EXCEPT ![w] = p] BY <1>1
<1>4. p \in Duties /\ p.step = "transferring" /\ p.task = worker[w].task
  BY <1>2, Stepped DEF Steps
<1> HIDE DEF p
<1>5. backupLeft' \in [deaths : Nat, saves : Nat] BY <1>1 DEF BackupInv, BackupTyped
<1>6. transferred' \in [1..MaxTasks -> Nat]
  <2>1. transferred \in [1..MaxTasks -> Nat] BY DEF BackupInv, BackupTyped
  <2>2. CASE schedule.run \in 1..MaxTasks
    <3>1. transferred[schedule.run] + 1 \in Nat BY <2>1, <2>2
    <3> QED BY <1>1, <2>1, <2>2, <3>1
  <2>3. CASE schedule.run \notin 1..MaxTasks
    <3>1. transferred' = transferred BY <1>1, <2>1, <2>3
    <3> QED BY <2>1, <3>1
  <2> QED BY <2>2, <2>3
<1>7. p.task # NoTask /\ Created(p.task) BY <1>2, <1>4, NoTaskElse
<1>8. TaskActive(p.task) BY <1>1, <1>4, LockedCurrent
<1> QED BY <1>1, <1>3, <1>4, <1>5, <1>6, <1>7, <1>8, OnlyWorker

LEMMA EndKeeps ==
  ASSUME BackupInv, NEW w \in BackupWorkers, EndTransfer(w)
  PROVE  BackupInv'
<1>1. PICK x \in {"transferred", "broken"} : worker' = [worker EXCEPT ![w].step = x]
  BY DEF EndTransfer
<1>2. worker[w].step = "transferring" /\ UNCHANGED <<schedule, backup, transferred, backupLeft>>
  BY DEF EndTransfer
<1>3. worker[w].step \in AtTransfer BY <1>2 DEF AtTransfer
<1>4. /\ worker[w] \in Duties /\ worker[w].task \in BackupTasks /\ Created(worker[w].task)
      /\ TaskActive(worker[w].task)
  BY <1>2, <1>3, Standing
<1> DEFINE p == [worker[w] EXCEPT !.step = x]
<1>5. worker' = [worker EXCEPT ![w] = p] BY <1>1
<1>6. p \in Duties /\ p.task = worker[w].task
  <2>1. x \in Steps BY DEF Steps
  <2> QED BY <1>4, <2>1, Stepped
<1> HIDE DEF p
<1>7. transferred' \in [1..MaxTasks -> Nat] /\ backupLeft' \in [deaths : Nat, saves : Nat]
  BY <1>2 DEF BackupInv, BackupTyped
<1>8. p.task # NoTask /\ Created(p.task) /\ TaskActive(p.task) BY <1>4, <1>6, NoTaskElse
<1> QED BY <1>2, <1>3, <1>5, <1>6, <1>7, <1>8, OnlyWorker

\* The outcome of a transfer is written to its task, which no one else may have ended.
LEMMA OutcomeKeeps ==
  ASSUME BackupInv, NEW w \in BackupWorkers, worker[w].step \in AtTransfer,
         NEW x \in {"completed", "failed"},
         backup' = [backup EXCEPT ![worker[w].task].status = IF @ = "removed" THEN @ ELSE x],
         worker' = [worker EXCEPT ![w] = IdleWorker],
         UNCHANGED <<schedule, transferred>>, backupLeft' \in [deaths : Nat, saves : Nat]
  PROVE  BackupInv'
<1>1. worker[w].step # "idle" BY DEF AtTransfer
<1>2. PICK t \in BackupTasks : t = worker[w].task /\ TaskActive(t) /\ t = schedule.active
  BY <1>1, Standing
<1>3. WritesTask(t, x)
  <2>1. backup[t].status # "removed" BY <1>2 DEF TaskActive, ActiveStatuses
  <2> QED BY <1>2, <2>1 DEF WritesTask
<1>4. /\ backup' \in [BackupTasks -> Tasks_] /\ backup'[t].status = x
      /\ \A u \in BackupTasks : backup'[u].run = backup[u].run
      /\ \A u \in BackupTasks : u # t => backup'[u] = backup[u]
  BY <1>3, TaskWritten DEF BackupInv, BackupTyped
<1>5. \A u \in BackupTasks : Created(u)' <=> Created(u)
  BY <1>2, <1>4 DEF Created, TaskActive, ActiveStatuses
<1>6. \A u \in BackupTasks : u = schedule.active => backup'[u].status # "removed"
  BY <1>2, <1>4
<1>7. TasksKnown' /\ ActiveKnown' /\ AttemptsCounted'
  BY <1>2, <1>4, <1>5, <1>6, TasksStay DEF ActiveStatuses
<1>8. \A u \in BackupTasks : TaskActive(u) => TaskActive(u)' \/ u = t
  BY <1>4 DEF TaskActive
<1>9. worker' \in [BackupWorkers -> Duties] /\ LockHeld'
  <2>1. IdleWorker \in Duties /\ IdleWorker.step = "idle" BY IdlePost
  <2>2. IdleWorker.step \notin AtTransfer \cup {"locked"} BY <2>1 DEF AtTransfer
  <2> QED BY <1>2, <1>5, <1>8, <2>1, <2>2, WorkerGoesOn
<1>10. BackupTyped' BY <1>4, <1>9 DEF BackupInv, BackupTyped
<1> QED BY <1>7, <1>9, <1>10 DEF BackupInv

LEMMA SuccessKeeps ==
  ASSUME BackupInv, NEW w \in BackupWorkers, RecordSuccess(w)
  PROVE  BackupInv'
<1>1. worker[w].step \in AtTransfer BY DEF RecordSuccess, AtTransfer
<1>2. backupLeft' \in [deaths : Nat, saves : Nat] BY DEF RecordSuccess, BackupInv, BackupTyped
<1> QED BY <1>1, <1>2, OutcomeKeeps DEF RecordSuccess

LEMMA FailureKeeps ==
  ASSUME BackupInv, NEW w \in BackupWorkers, RecordFailure(w)
  PROVE  BackupInv'
<1>1. worker[w].step \in AtTransfer BY DEF RecordFailure, AtTransfer
<1>2. backupLeft' \in [deaths : Nat, saves : Nat]
  <2>1. backupLeft \in [deaths : Nat, saves : Nat] BY DEF BackupInv, BackupTyped
  <2>2. CASE worker[w].step = "broken" BY <2>1, <2>2 DEF RecordFailure
  <2>3. CASE worker[w].step # "broken" BY <2>1, <2>3 DEF RecordFailure
  <2> QED BY <2>2, <2>3
<1> QED BY <1>1, <1>2, OutcomeKeeps DEF RecordFailure, Fails

\* The lock and the row agree: no worker finds its task to be out of date.
LEMMA RefuseNever ==
  ASSUME BackupInv, NEW w \in BackupWorkers, RefuseTask(w)
  PROVE  FALSE
BY LockedCurrent DEF RefuseTask
-----------------------------------------------------------------------------
(* The invariant, and the runs that are taken once. *)

LEMMA InvInit == BackupInit => BackupInv
<1> SUFFICES ASSUME BackupInit PROVE BackupInv OBVIOUS
<1>1. \A t \in BackupTasks : backup[t].status = "none" BY DEF BackupInit
<1>2. \A w \in BackupWorkers : worker[w].step = "idle" BY DEF BackupInit, IdleWorker
<1>3. schedule.active = NoTask /\ schedule.retry = "none" BY DEF BackupInit
<1>4. BackupTyped
  <2>1. schedule \in Schedules
    <3>1. 0 \in 0..GiveUpAfter BY BackupAssumption
    <3> QED BY <3>1 DEF BackupInit, Schedules
  <2>2. backup \in [BackupTasks -> Tasks_] BY DEF BackupInit, Tasks_
  <2>3. worker \in [BackupWorkers -> Duties] BY IdlePost DEF BackupInit
  <2>4. transferred \in [1..MaxTasks -> Nat] /\ backupLeft \in [deaths : Nat, saves : Nat]
    BY BackupAssumption DEF BackupInit
  <2> QED BY <2>1, <2>2, <2>3, <2>4 DEF BackupTyped
<1>5. TasksKnown BY <1>1 DEF TasksKnown, Created, ActiveStatuses
<1>6. ActiveKnown BY <1>3 DEF ActiveKnown
<1>7. LockHeld BY <1>2 DEF LockHeld, AtTransfer
<1>8. AttemptsCounted
  <2>1. \A r : AttemptsOf(r) = {} BY <1>1 DEF AttemptsOf, Created
  <2>2. \A r : Cardinality(AttemptsOf(r)) = 0 BY <2>1, FS_EmptySet
  <2> QED BY <1>3, <2>2, BackupAssumption DEF AttemptsCounted
<1> QED BY <1>4, <1>5, <1>6, <1>7, <1>8 DEF BackupInv

LEMMA InvNext == BackupInv /\ [BackupNext]_backupVars => BackupInv'
<1> SUFFICES ASSUME BackupInv, [BackupNext]_backupVars PROVE BackupInv' OBVIOUS
<1>1. CASE RunTimeComes BY <1>1, RunTimeKeeps
<1>2. CASE RetryTimeComes BY <1>2, RetryTimeKeeps
<1>3. CASE Dispatch BY <1>3, DispatchKeeps
<1>4. CASE SaveBackup BY <1>4, SaveKeeps
<1>5. ASSUME NEW t \in BackupTasks, Forget(t) PROVE BackupInv' BY <1>5, ForgetKeeps
<1>6. ASSUME NEW w \in BackupWorkers, NEW t \in BackupTasks, ClaimTask(w, t) PROVE BackupInv'
  BY <1>6, ClaimKeeps
<1>7. ASSUME NEW t \in BackupTasks, LoseLease(t) PROVE BackupInv' BY <1>7, LeaseKeeps
<1>8. ASSUME NEW w \in BackupWorkers, TakeLock(w) PROVE BackupInv' BY <1>8, LockKeeps
<1>9. ASSUME NEW w \in BackupWorkers, SkipTask(w) PROVE BackupInv' BY <1>9, SkipKeeps
<1>10. ASSUME NEW w \in BackupWorkers, RefuseTask(w) PROVE BackupInv' BY <1>10, RefuseNever
<1>11. ASSUME NEW w \in BackupWorkers, BeginTransfer(w) PROVE BackupInv' BY <1>11, BeginKeeps
<1>12. ASSUME NEW w \in BackupWorkers, EndTransfer(w) PROVE BackupInv' BY <1>12, EndKeeps
<1>13. ASSUME NEW w \in BackupWorkers, RecordSuccess(w) PROVE BackupInv' BY <1>13, SuccessKeeps
<1>14. ASSUME NEW w \in BackupWorkers, RecordFailure(w) PROVE BackupInv' BY <1>14, FailureKeeps
<1>15. ASSUME NEW w \in BackupWorkers, WorkerDies(w) PROVE BackupInv' BY <1>15, DeathKeeps
<1>16. CASE UNCHANGED backupVars
  <2>1. \A r : AttemptsOf(r)' = AttemptsOf(r)
    BY <1>16 DEF backupVars, AttemptsOf, Created
  <2>2. UNCHANGED <<schedule, backup, worker, transferred, backupLeft>>
    BY <1>16 DEF backupVars
  <2>3. BackupTyped' BY <2>2 DEF BackupInv, BackupTyped
  <2>4. TasksKnown' /\ ActiveKnown' BY <2>2 DEF BackupInv, TasksKnown, ActiveKnown, Created
  <2>5. LockHeld' BY <2>2 DEF BackupInv, LockHeld, Created, TaskActive
  <2>6. AttemptsCounted' BY <2>1, <2>2 DEF BackupInv, AttemptsCounted
  <2> QED BY <2>3, <2>4, <2>5, <2>6 DEF BackupInv
<1> QED BY <1>1, <1>2, <1>3, <1>4, <1>5, <1>6, <1>7, <1>8, <1>9, <1>10, <1>11, <1>12, <1>13,
           <1>14, <1>15, <1>16 DEF BackupNext

LEMMA InvFew == BackupInv => FewAttempts
<1> SUFFICES ASSUME BackupInv PROVE FewAttempts OBVIOUS
<1>1. \A r \in 1..MaxTasks : Cardinality(AttemptsOf(r)) <= GiveUpAfter
  BY DEF BackupInv, AttemptsCounted
<1>2. Cardinality({t \in BackupTasks : TaskActive(t)}) <= 1
  <2> DEFINE A == {t \in BackupTasks : TaskActive(t)}
             one == {schedule.active}
  <2>1. A \subseteq one BY DEF BackupInv, TasksKnown, TaskActive
  <2>2. IsFiniteSet(one) /\ Cardinality(one) = 1 BY FS_Singleton
  <2> HIDE DEF A, one
  <2>3. Cardinality(A) <= Cardinality(one) BY <2>1, <2>2, FS_Subset
  <2> QED BY <2>2, <2>3 DEF A
<1>3. ASSUME NEW w \in BackupWorkers, worker[w].step = "transferring"
      PROVE  Current(worker[w].task)
  <2>1. worker[w].step \in AtTransfer BY <1>3 DEF AtTransfer
  <2>2. PICK t \in BackupTasks : t = worker[w].task /\ t = schedule.active
    BY <1>3, <2>1, Standing
  <2>3. backup[t].run = schedule.run BY <2>2, NoTaskElse DEF BackupInv, ActiveKnown
  <2> QED BY <2>2, <2>3 DEF Current
<1> QED BY <1>1, <1>2, <1>3 DEF FewAttempts

\* What a step does to the transfers of a run that is recorded as completed: nothing.
LeavesCompleted ==
    \A r \in 1..MaxTasks : transferred'[r] # transferred[r] =>
        ~\E t \in BackupTasks : backup[t].run = r /\ backup[t].status = "completed"

LEMMA CompletedLeft == BackupInv /\ [BackupNext]_backupVars => LeavesCompleted
<1> SUFFICES ASSUME BackupInv, [BackupNext]_backupVars PROVE LeavesCompleted OBVIOUS
<1>1. CASE UNCHANGED transferred BY <1>1 DEF LeavesCompleted
<1>2. ASSUME NEW w \in BackupWorkers, BeginTransfer(w) PROVE LeavesCompleted
  <2> SUFFICES ASSUME NEW r \in 1..MaxTasks, transferred'[r] # transferred[r],
                      NEW t \in BackupTasks, backup[t].run = r, backup[t].status = "completed"
               PROVE  FALSE
    BY DEF LeavesCompleted
  <2>1. /\ worker[w].step = "locked" /\ ~AlreadyOver(worker[w].task)
        /\ transferred' = [transferred EXCEPT ![schedule.run] = @ + 1]
    BY <1>2 DEF BeginTransfer
  <2>2. r = schedule.run
    <3>1. transferred \in [1..MaxTasks -> Nat] BY DEF BackupInv, BackupTyped
    <3> QED BY <2>1, <3>1
  <2>3. PICK u \in BackupTasks : u = worker[w].task /\ TaskActive(u) /\ u = schedule.active
    BY <2>1, Standing, LockedCurrent DEF Current
  <2>4. u = t
    <3>1. schedule.active \in {t, NoTask} BY <2>2 DEF BackupInv, TasksKnown
    <3> QED BY <2>3, <3>1, NoTaskElse
  <2> QED BY <2>3, <2>4 DEF TaskActive, ActiveStatuses
<1>3. UNCHANGED transferred \/ \E w \in BackupWorkers : BeginTransfer(w)
  BY DEF BackupNext, backupVars, RunTimeComes, RetryTimeComes, Dispatch, SaveBackup, Forget,
         ClaimTask, LoseLease, TakeLock, SkipTask, RefuseTask, EndTransfer, RecordSuccess,
         RecordFailure, WorkerDies
<1> QED BY <1>1, <1>2, <1>3

\* dispatch_due_backups and the workers: in every reachable state the rows are well typed.
THEOREM BackupTypeCorrect == BackupSpec => []BackupTypeOK
<1>1. BackupInv => BackupTypeOK
  <2> SUFFICES ASSUME BackupInv PROVE BackupTypeOK OBVIOUS
  <2>1. schedule \in Schedules /\ backup \in [BackupTasks -> Tasks_]
        /\ worker \in [BackupWorkers -> Duties]
    BY DEF BackupInv, BackupTyped
  <2>2. schedule.active \in {NoTask} \cup BackupTasks /\ schedule.failures \in 0..GiveUpAfter
        /\ schedule.retry \in {"none", "later", "due"}
    BY <2>1, ScheduleFields
  <2>3. \A t \in BackupTasks :
           backup[t].status \in {"none", "created", "running", "completed", "failed", "removed"}
    BY <2>1, TaskFields
  <2>4. \A w \in BackupWorkers : worker[w].task \in {NoTask} \cup BackupTasks
    BY <2>1, DutyFields
  <2> QED BY <2>2, <2>3, <2>4 DEF BackupTypeOK
<1> QED BY <1>1, InvInit, InvNext, PTL DEF BackupSpec

\* The scheduler, the shared lock and the workers: however often a task is delivered and
\* whichever worker has it, a run has its few attempts, one at a time, and once it is
\* recorded as completed it is not transferred again.
THEOREM RunsOnce == BackupSpec => RunsTakenOnce
<1>1. LeavesCompleted =>
        \A r \in 1..MaxTasks : transferred'[r] # transferred[r] =>
            ~\E t \in BackupTasks : backup[t].run = r /\ backup[t].status = "completed"
  BY DEF LeavesCompleted
<1> QED BY <1>1, InvInit, InvNext, InvFew, CompletedLeft, PTL
        DEF BackupSpec, RunsTakenOnce, CompletedRunsRest
-----------------------------------------------------------------------------
(* The pages, the deliveries and the backups beside one another. *)

LEMMA EndpointsStep ==
  EndpointNext \/ UNCHANGED endpointVars
    => /\ [LogNext]_logVars /\ [CenterNext]_centerVars /\ [MaintenanceNext]_maintenanceVars
       /\ [PanelNext]_panelVars /\ [ClusterPageNext]_clusterPageVars
       /\ [Next]_vars /\ [BackupNext]_backupVars
<1> DEFINE Alone ==
      /\ [LogNext]_logVars /\ [CenterNext]_centerVars /\ [MaintenanceNext]_maintenanceVars
      /\ [PanelNext]_panelVars /\ [ClusterPageNext]_clusterPageVars
      /\ [Next]_vars /\ [BackupNext]_backupVars
<1>1. ASSUME OnLog /\ LogNext PROVE Alone BY <1>1 DEF OnLog, otherVars
<1>2. ASSUME OnCenter /\ CenterNext PROVE Alone BY <1>2 DEF OnCenter, otherVars
<1>3. ASSUME OnMaintenance /\ MaintenanceNext PROVE Alone BY <1>3 DEF OnMaintenance, otherVars
<1>4. ASSUME OnCertificates /\ PanelNext PROVE Alone BY <1>4 DEF OnCertificates, otherVars
<1>5. ASSUME OnClusters /\ ClusterPageNext PROVE Alone BY <1>5 DEF OnClusters, otherVars
<1>6. ASSUME OnDeliveries /\ Next PROVE Alone BY <1>6 DEF OnDeliveries, OnOther
<1>7. ASSUME OnBackup /\ BackupNext PROVE Alone BY <1>7 DEF OnBackup, OnOther
<1>8. ASSUME UNCHANGED endpointVars PROVE Alone BY <1>8 DEF endpointVars, otherVars
<1> QED BY <1>1, <1>2, <1>3, <1>4, <1>5, <1>6, <1>7, <1>8 DEF EndpointNext

LEMMA EndpointsParts ==
  EndpointSpec => /\ LogSpec /\ CenterSpec /\ MaintenanceSpec /\ PanelSpec /\ ClusterPageSpec
                  /\ Spec /\ BackupSpec
<1>1. EndpointInit => /\ LogInit /\ CenterInit /\ MaintenanceInit /\ PanelInit /\ ClusterPageInit
                      /\ Init /\ BackupInit
  BY DEF EndpointInit
<1>2. [EndpointNext]_endpointVars
      => /\ [LogNext]_logVars /\ [CenterNext]_centerVars /\ [MaintenanceNext]_maintenanceVars
         /\ [PanelNext]_panelVars /\ [ClusterPageNext]_clusterPageVars
         /\ [Next]_vars /\ [BackupNext]_backupVars
  BY EndpointsStep
<1> QED BY <1>1, <1>2, PTL DEF EndpointSpec, LogSpec, CenterSpec, MaintenanceSpec, PanelSpec,
        ClusterPageSpec, Spec, BackupSpec

\* The pages, the deliveries and the backups share no state: what is proved of each of them
\* alone holds when they run beside one another, their types and what they keep.
THEOREM EndpointsCorrect ==
  EndpointSpec =>
    /\ []EndpointTypeOK
    /\ []RowsOfOneStretch /\ []PollsWhileActive /\ ListNeverGoesBack /\ []EndsReportedTruly
    /\ PanelKept /\ AnswerNotUndone /\ SentAsMeant /\ []ControlsKept
    /\ []DeliveredReceived /\ []SendsExplained /\ RunsTakenOnce
<1>1. LogTypeOK /\ CenterTypeOK /\ MaintenanceTypeOK /\ PanelTypeOK /\ ClusterPageTypeOK
      /\ TypeOK /\ BackupTypeOK => EndpointTypeOK
  BY DEF EndpointTypeOK
<1> QED
  BY <1>1, EndpointsParts, LogTypeCorrect, CenterTypeCorrect, MaintenanceTypeCorrect,
     PanelTypeCorrect, ClusterPageTypeCorrect, TypeCorrect, BackupTypeCorrect, RowsStayOneStretch,
     ViewTrue, PanelTrue, SentAsSeen, ControlsTrue, DeliveredIsReceived, SendsAccounted, RunsOnce,
     PTL
=============================================================================
