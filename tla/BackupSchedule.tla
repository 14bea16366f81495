--------------------------- MODULE BackupSchedule ---------------------------
(* One backup schedule, its Operations tasks and their workers:              *)
(*   service/backup_scheduler.py   dispatch_due_backups, configure, cleanup  *)
(*   service/backup_execution.py   the transfer under the shared lock        *)
(* Of the Operations queue the module has what a backup sees: a task is      *)
(* claimed by one worker, and claimed again once its lease has run out,      *)
(* whether or not the first worker is still alive.                           *)
EXTENDS Integers, FiniteSets

CONSTANTS
    BackupWorkers,      \* workers of the Operations queue
    GiveUpAfter,        \* dispatch_due_backups gives a run up at the third failure
    MaxTasks,           \* tasks the scheduler creates
    MaxTroubles,        \* deaths of a worker, leases lost and writes refused
    MaxSaves            \* edits of the backup by a user

ASSUME BackupAssumption ==
    /\ GiveUpAfter \in Nat \ {0}
    /\ MaxTasks \in Nat /\ MaxTroubles \in Nat /\ MaxSaves \in Nat

NoTask == 0
BackupTasks == 1..MaxTasks

VARIABLES
    schedule,    \* the BackupSchedule row
    backup,      \* the InstallationTasks rows: [status, run]
    worker,      \* [step, task] of each worker
    transferred, \* [run] -> how many transfers began    (history variable)
    backupLeft

backupVars == <<schedule, backup, worker, transferred, backupLeft>>

Created(t) == backup[t].status # "none"
WaitsForSuccess == {"created", "running", "failed"}   \* Mutant: a failed task is waited for
ActiveStatuses == {"created", "running"}
TaskActive(t) == t # NoTask /\ backup[t].status \in ActiveStatuses
IdleWorker == [step |-> "idle", task |-> NoTask]

BackupInit ==
    /\ schedule = [due |-> FALSE, retry |-> "none", active |-> NoTask, last |-> NoTask,
                   run |-> 0, failures |-> 0]
    /\ backup = [t \in BackupTasks |-> [status |-> "none", run |-> 0]]
    /\ worker = [w \in BackupWorkers |-> IdleWorker]
    /\ transferred = [r \in 1..MaxTasks |-> 0]
    /\ backupLeft = [deaths |-> MaxTroubles, saves |-> MaxSaves]
-----------------------------------------------------------------------------
(* The scheduler. *)

\* next_run_at, or the time of the retry, has come.
RunTimeComes ==
    /\ ~schedule.due
    /\ schedule' = [schedule EXCEPT !.due = TRUE]
    /\ UNCHANGED <<backup, worker, transferred, backupLeft>>

RetryTimeComes ==
    /\ schedule.retry = "later"
    /\ schedule' = [schedule EXCEPT !.retry = "due"]
    /\ UNCHANGED <<backup, worker, transferred, backupLeft>>

\* What the job makes of the task it started before: it waits for an active one,
\* forgives the failures of a completed one, and plans the retry of any other, the
\* last time with the next period.
Settled ==
    LET done == [schedule EXCEPT !.active = NoTask, !.failures = 0]
        again == [schedule EXCEPT !.active = NoTask, !.failures = @ + 1,
                                  !.retry = IF schedule.failures + 1 < GiveUpAfter THEN "later" ELSE "none",
                                  !.due = IF schedule.failures + 1 < GiveUpAfter THEN @ ELSE FALSE]
    IN IF schedule.active = NoTask THEN schedule
       ELSE IF backup[schedule.active].status = "completed" THEN done ELSE again

Wants(s) == IF s.retry # "none" THEN s.retry = "due" ELSE s.due

NextTask == CHOOSE t \in BackupTasks : ~Created(t) /\ \A u \in BackupTasks : u < t => Created(u)

\* A retry keeps the key of the run, a run gets a new one.
Enqueued(s) ==
    [s EXCEPT !.active = NextTask, !.last = NextTask, !.retry = "none",
              !.run = IF s.retry = "due" THEN @ ELSE @ + 1,
              !.failures = IF s.retry = "due" THEN @ ELSE 0,
              !.due = IF s.retry = "due" THEN @ ELSE FALSE]

\* One schedule of dispatch_due_backups, in one transaction.
Dispatch ==
    /\ schedule.due \/ schedule.retry = "due" \/ schedule.active # NoTask
    /\ ~TaskActive(schedule.active)
    /\ IF Wants(Settled)
       THEN /\ \E t \in BackupTasks : ~Created(t)
            /\ schedule' = Enqueued(Settled)
            /\ backup' = [backup EXCEPT ![NextTask] = [status |-> "created", run |-> Enqueued(Settled).run]]
       ELSE schedule' = Settled /\ UNCHANGED backup
    /\ UNCHANGED <<worker, transferred, backupLeft>>

\* A user saves the backup: the schedule starts afresh, unless a task is active.
SaveBackup ==
    /\ backupLeft.saves > 0 /\ ~TaskActive(schedule.active)
    /\ schedule' = [schedule EXCEPT !.due = FALSE, !.retry = "none", !.active = NoTask, !.failures = 0]
    /\ backupLeft' = [backupLeft EXCEPT !.saves = @ - 1]
    /\ UNCHANGED <<backup, worker, transferred>>

\* Old tasks are removed, except the two the schedule refers to.
Forget(t) ==
    /\ backup[t].status \in {"completed", "failed"} /\ t \notin {schedule.active, schedule.last}
    /\ backup' = [backup EXCEPT ![t].status = "removed"]
    /\ UNCHANGED <<schedule, worker, transferred, backupLeft>>
-----------------------------------------------------------------------------
(* The Operations queue and its workers. *)

ClaimTask(w, t) ==
    /\ worker[w].step = "idle" /\ backup[t].status = "created"
    /\ backup' = [backup EXCEPT ![t].status = "running"]
    /\ worker' = [worker EXCEPT ![w] = [step |-> "waiting", task |-> t]]
    /\ UNCHANGED <<schedule, transferred, backupLeft>>

Held(t) == \E w \in BackupWorkers : worker[w].task = t

\* The lease of a dead worker runs out; that of a live one only when the database
\* was away for longer.
LoseLease(t) ==
    /\ backup[t].status = "running"
    /\ ~Held(t) \/ backupLeft.deaths > 0
    /\ backup' = [backup EXCEPT ![t].status = "created"]
    /\ backupLeft' = [backupLeft EXCEPT !.deaths = IF Held(t) THEN @ - 1 ELSE @]
    /\ UNCHANGED <<schedule, worker, transferred>>

Locked == \E w \in BackupWorkers : worker[w].step \in {"locked", "transferring", "transferred", "broken"}

\* The lock of the schedule is held until the outcome is written.
TakeLock(w) ==
    /\ worker[w].step = "waiting" /\ ~Locked
    /\ worker' = [worker EXCEPT ![w].step = "locked"]
    /\ UNCHANGED <<schedule, backup, transferred, backupLeft>>

Fails(w) ==
    /\ backup' = [backup EXCEPT ![worker[w].task].status = IF @ = "removed" THEN @ ELSE "failed"]
    /\ worker' = [worker EXCEPT ![w] = IdleWorker]

AlreadyOverUnread(t) == backup[t].status = "removed"   \* Mutant: the task is not read again

\* A worker that waited for the lock reads the task again.
AlreadyOver(t) == backup[t].status \in {"completed", "failed", "removed"}

SkipTask(w) ==
    /\ worker[w].step = "locked" /\ AlreadyOver(worker[w].task)
    /\ worker' = [worker EXCEPT ![w] = IdleWorker]
    /\ UNCHANGED <<schedule, backup, transferred, backupLeft>>

Current(t) == schedule.active = t /\ schedule.run = backup[t].run

RefuseTask(w) ==
    /\ worker[w].step = "locked" /\ ~AlreadyOver(worker[w].task) /\ ~Current(worker[w].task)
    /\ Fails(w)
    /\ UNCHANGED <<schedule, transferred, backupLeft>>

BeginTransfer(w) ==
    /\ worker[w].step = "locked" /\ ~AlreadyOver(worker[w].task) /\ Current(worker[w].task)
    /\ worker' = [worker EXCEPT ![w].step = "transferring"]
    /\ transferred' = [transferred EXCEPT ![schedule.run] = @ + 1]
    /\ UNCHANGED <<schedule, backup, backupLeft>>

EndTransfer(w) ==
    /\ worker[w].step = "transferring"
    /\ \E step \in {"transferred", "broken"} : worker' = [worker EXCEPT ![w].step = step]
    /\ UNCHANGED <<schedule, backup, transferred, backupLeft>>

RecordSuccess(w) ==
    /\ worker[w].step = "transferred"
    /\ backup' = [backup EXCEPT ![worker[w].task].status = IF @ = "removed" THEN @ ELSE "completed"]
    /\ worker' = [worker EXCEPT ![w] = IdleWorker]
    /\ UNCHANGED <<schedule, transferred, backupLeft>>

\* Also a success is recorded as a failure when the database refuses it first.
RecordFailure(w) ==
    /\ \/ worker[w].step = "broken"
       \/ worker[w].step = "transferred" /\ backupLeft.deaths > 0
    /\ Fails(w)
    /\ backupLeft' = [backupLeft EXCEPT !.deaths = IF worker[w].step = "broken" THEN @ ELSE @ - 1]
    /\ UNCHANGED <<schedule, transferred>>

\* The system releases the lock of a worker that dies.
WorkerDies(w) ==
    /\ worker[w].step # "idle" /\ backupLeft.deaths > 0
    /\ backupLeft' = [backupLeft EXCEPT !.deaths = @ - 1]
    /\ worker' = [worker EXCEPT ![w] = IdleWorker]
    /\ UNCHANGED <<schedule, backup, transferred>>
-----------------------------------------------------------------------------
BackupNext ==
    \/ RunTimeComes
    \/ RetryTimeComes
    \/ Dispatch
    \/ SaveBackup
    \/ \E t \in BackupTasks : Forget(t)
    \/ \E w \in BackupWorkers, t \in BackupTasks : ClaimTask(w, t)
    \/ \E t \in BackupTasks : LoseLease(t)
    \/ \E w \in BackupWorkers : TakeLock(w)
    \/ \E w \in BackupWorkers : SkipTask(w)
    \/ \E w \in BackupWorkers : RefuseTask(w)
    \/ \E w \in BackupWorkers : BeginTransfer(w)
    \/ \E w \in BackupWorkers : EndTransfer(w)
    \/ \E w \in BackupWorkers : RecordSuccess(w)
    \/ \E w \in BackupWorkers : RecordFailure(w)
    \/ \E w \in BackupWorkers : WorkerDies(w)

BackupSpec == BackupInit /\ [][BackupNext]_backupVars

WorkerSteps(w) ==
    \/ \E t \in BackupTasks : ClaimTask(w, t)
    \/ TakeLock(w) \/ SkipTask(w) \/ RefuseTask(w) \/ BeginTransfer(w)
    \/ EndTransfer(w) \/ RecordSuccess(w) \/ RecordFailure(w)

\* The scheduler's job runs, retries fall due, the recovery returns abandoned
\* tasks to the queue and a worker goes on until it dies.
BackupFairness ==
    /\ WF_backupVars(Dispatch) /\ WF_backupVars(RetryTimeComes)
    /\ WF_backupVars(\E t \in BackupTasks : ~Held(t) /\ LoseLease(t))
    /\ \A w \in BackupWorkers : WF_backupVars(WorkerSteps(w))
BackupFairSpec == BackupSpec /\ BackupFairness

-----------------------------------------------------------------------------
(* Properties. *)

BackupTypeOK ==
    /\ schedule.active \in {NoTask} \cup BackupTasks /\ schedule.failures \in 0..GiveUpAfter
    /\ schedule.retry \in {"none", "later", "due"}
    /\ \A t \in BackupTasks : backup[t].status \in {"none", "created", "running", "completed", "failed", "removed"}
    /\ \A w \in BackupWorkers : worker[w].task \in {NoTask} \cup BackupTasks

\* "A previous worker may have completed while this recovered delivery waited":
\* a run that has been recorded as completed is not transferred again.
CompletedRunsRest ==
    [][\A r \in 1..MaxTasks : transferred'[r] # transferred[r] =>
          ~\E t \in BackupTasks : backup[t].run = r /\ backup[t].status = "completed"]_backupVars

\* A run has GiveUpAfter tasks at most, one at a time, and only its task transfers.
AttemptsOf(r) == {t \in BackupTasks : Created(t) /\ backup[t].run = r}
FewAttempts ==
    /\ \A r \in 1..MaxTasks : Cardinality(AttemptsOf(r)) <= GiveUpAfter
    /\ Cardinality({t \in BackupTasks : TaskActive(t)}) <= 1
    /\ \A w \in BackupWorkers : worker[w].step = "transferring" => Current(worker[w].task)

\* However often a task is delivered and whichever worker has it, a run is attempted
\* within its limits and rests once it has been recorded as completed.
RunsTakenOnce == []FewAttempts /\ CompletedRunsRest

\* A period that has come is served, whatever became of the runs before: the
\* schedule never stops by itself.
ScheduleGoesOn == schedule.due ~> (~schedule.due \/ \A t \in BackupTasks : Created(t))
=============================================================================
