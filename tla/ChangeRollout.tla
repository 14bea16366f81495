--------------------------- MODULE ChangeRollout ---------------------------
(***************************************************************************)
(* One Change Center change: its workflow status, its rollout targets and  *)
(* the configuration that is really on their servers, while the Operations *)
(* worker that holds its reservation executes commands step by step, users *)
(* pause and continue the rollout beside it, and the worker may die        *)
(* between any two steps (app/modules/change/service.py, the execution of  *)
(* a command in app/modules/change/operations.py).                         *)
(*                                                                         *)
(* A change has at most one executing command, under its reservation and   *)
(* its process lock: that is OperationQueue's ChangeRunsOnce,              *)
(* RemoteWorkReserved and TaskExclusive.  Here a command is `cmd' and its  *)
(* executor is the program counter `pc'.                                   *)
(*                                                                         *)
(* A server's file is "base" (what the target's snapshot holds or would    *)
(* hold), "candidate" (what the change deploys) or "foreign" (an edit made *)
(* outside the change).                                                    *)
(***************************************************************************)
EXTENDS Integers, FiniteSets

CONSTANTS
  N,                \* targets, numbered by position
  Plans,            \* [canary, excluded] selections a user submits
  BatchSize,        \* 0: by the execution mode
  Rolling,          \* execution_mode = 'rolling'
  MaxParallel,
  ManualPromotion,
  RequiresApproval,
  MaxCommands,      \* bound: operations queued after the validation
  MaxPauses,        \* bound: pause requests
  MaxFaults,        \* bound: remote failures and worker crashes
  MaxEdits          \* bound: foreign edits of a server

\* _rollout_servers: the slaves in their order, the server the change was made
\* for, master or standalone, after them.
Nodes   == 1..N
Primary == N
Slaves  == 1..(N - 1)

ASSUME TopologyAssumption == N \in Nat \ {0}
ASSUME PlanAssumption ==
  \A p \in Plans : /\ p.canary \subseteq Slaves
                   /\ p.excluded \subseteq Slaves
                   /\ p.canary \cap p.excluded = {}
ASSUME OptionAssumption ==
  /\ BatchSize \in Nat /\ MaxParallel \in Nat \ {0}
  /\ Rolling \in BOOLEAN /\ ManualPromotion \in BOOLEAN /\ RequiresApproval \in BOOLEAN
ASSUME BoundAssumption ==
  MaxCommands \in Nat /\ MaxPauses \in Nat /\ MaxFaults \in Nat /\ MaxEdits \in Nat

VARIABLES
  status,     \* ConfigChange.status
  pauseFlag,  \* ConfigChange.pause_requested
  canary,     \* targets with is_canary
  excluded,   \* targets with excluded
  tstatus,    \* ConfigChangeTarget.status
  snap,       \* targets whose rollback snapshot exists
  remote,     \* the configuration on each server
  cmd,        \* action of the command that holds the reservation, or "none"
  arg,        \* its target, 0 if it works on the whole change
  pc,         \* where the worker that executes it stands
  seen,       \* the status the worker read last and will act on
  edge,       \* whether it stands before or after a batch
  todo,       \* targets the current loop has yet to take up
  up,         \* targets being worked on remotely
  overrun,    \* history: a batch was started although a pause was pending
  late,       \* history: servers edited since the command began
  commands, pauses, faults, edits

changeVars == <<status, pauseFlag>>
planVars   == <<canary, excluded>>
cmdVars    == <<cmd, arg>>
workVars   == <<pc, seen, edge, todo, up>>
history    == <<overrun, late>>
bounds     == <<commands, pauses, faults, edits>>
vars == <<changeVars, planVars, tstatus, snap, remote, cmdVars, workVars, history, bounds>>

-----------------------------------------------------------------------------
(* The status sets of service.py. *)

EDITABLE_STATUSES         == {"draft", "validation_failed"}
CANCELLABLE_STATUSES      == EDITABLE_STATUSES \cup {"validated", "pending_approval", "approved"}
RETRYABLE_DEPLOY_STATUSES == {"auto_rolled_back", "auto_rollback_failed",
                              "rollback_failed", "deployment_interrupted"}
IN_PROGRESS_STATUSES      == {"validating", "deploying", "pause_requested", "rolling_back"}
RESUMABLE_STATUSES        == {"paused", "awaiting_promotion", "deployment_interrupted"}
TARGET_ACTION_STATUSES    == RESUMABLE_STATUSES \cup
                             {"auto_rolled_back", "auto_rollback_failed", "rollback_failed"}
\* Statuses in which a target may be excluded, or included again.
PlanStatuses     == TARGET_ACTION_STATUSES \cup EDITABLE_STATUSES
RollbackStatuses == RESUMABLE_STATUSES \cup
                    {"deployed", "rollback_failed", "auto_rollback_failed"}

Statuses == CANCELLABLE_STATUSES \cup IN_PROGRESS_STATUSES \cup TARGET_ACTION_STATUSES
            \cup {"deployed", "rolled_back", "cancelled"}

Deployments == {"deploy", "resume", "promote"}      \* commands that run _deploy_rollout
ChangeActions == Deployments \cup {"validate", "rollback"}
TargetActions == {"retry", "rollback_target", "include"}

-----------------------------------------------------------------------------
(* The rollout plan. *)

IsFirst(n, S) == n \in S /\ \A m \in S : n <= m
IsLast(n, S)  == n \in S /\ \A m \in S : m <= n

Active == Nodes \ excluded

\* _effective_batch_size
EffectiveSize == IF BatchSize # 0 THEN BatchSize
                 ELSE IF Rolling THEN 1 ELSE Cardinality(Active)

\* _prepare_rollout_plan: canaries first, the others in position order.  The
\* stored batches are refreshed whenever the plan changes.
Batch(n) ==
  LET regular == Active \ canary
  IN  IF n \in canary THEN 0
      ELSE (IF canary = {} THEN 0 ELSE 1)
           + Cardinality({m \in regular : m < n}) \div EffectiveSize

Remaining(ts) == {n \in Active : ts[n] # "deployed"}

\* What _rollback_after_failure and _RolloutFailure name: all that was attempted.
Attempted(ts) == {n \in Nodes : ts[n] \in {"deployed", "deploying", "deployment_failed"}}

\* What rollback_change takes up outside of 'deployed'.
Changed(ts) == {n \in Nodes : ts[n] \in {"deployed", "deploying", "deployment_failed",
                  "deployment_interrupted", "rollback_failed", "rolling_back"}}

\* _refresh_rollout_batches, as _ensure_rollout_targets calls it.
Refreshed == [n \in Nodes |-> IF n \in excluded THEN "excluded" ELSE tstatus[n]]

Fault == faults < MaxFaults /\ faults' = faults + 1
NoFault == UNCHANGED faults
\* What the steps of the worker never write.
Elsewhere == UNCHANGED <<cmdVars, commands, pauses, edits>>

\* The worker moves to p and leaves no loop behind.
Goto(p) == pc' = p /\ todo' = {} /\ up' = {} /\ seen' = "none" /\ edge' = "before"
\* The handler raises: execute catches the exception and interrupts the change.
Raise == Goto("interrupting")

Init ==
  \E p \in Plans :
    /\ status = "draft" /\ pauseFlag = FALSE
    /\ canary = p.canary /\ excluded = p.excluded
    /\ tstatus = [n \in Nodes |-> IF n \in p.excluded THEN "excluded" ELSE "pending"]
    /\ snap = Nodes \ p.excluded
    /\ remote = [n \in Nodes |-> "base"]
    /\ cmd = "none" /\ arg = 0
    /\ pc = "idle" /\ seen = "none" /\ edge = "before" /\ todo = {} /\ up = {}
    /\ overrun = FALSE /\ late = {}
    /\ commands = 0 /\ pauses = 0 /\ faults = 0 /\ edits = 0

-----------------------------------------------------------------------------
(* Requests of users that need no remote work.  Those that edit the change *)
(* hold its row lock and refuse while a command is reserved.               *)

\* update_change: only an edit of the rollout options plans the targets again.
UpdateDraft(p) ==
  /\ cmd = "none"
  /\ status \in EDITABLE_STATUSES
  /\ status' = "draft"
  /\ \/ /\ canary' = p.canary
        /\ excluded' = p.excluded
        /\ tstatus' = [n \in Nodes |-> IF n \in p.excluded THEN "excluded" ELSE "pending"]
     \/ UNCHANGED <<planVars, tstatus>>
  /\ UNCHANGED <<pauseFlag, snap, remote, cmdVars, workVars, history, bounds>>

Approve ==
  /\ cmd = "none"
  /\ RequiresApproval
  /\ status = "pending_approval"
  /\ status' = "approved"
  /\ UNCHANGED <<pauseFlag, planVars, tstatus, snap, remote, cmdVars, workVars,
                 history, bounds>>

Cancel ==
  /\ cmd = "none"
  /\ status \in CANCELLABLE_STATUSES
  /\ status' = "cancelled"
  /\ UNCHANGED <<pauseFlag, planVars, tstatus, snap, remote, cmdVars, workVars,
                 history, bounds>>

\* exclude_target.  The slave also loses its place among the canaries.
Exclude(n) ==
  /\ cmd = "none"
  /\ status \in PlanStatuses
  /\ n \in Slaves
  /\ tstatus[n] \notin {"deployed", "deploying", "rolling_back"}
  /\ excluded' = excluded \cup {n}
  /\ canary' = canary \ {n}
  /\ tstatus' = [m \in Nodes |-> IF m \in excluded' THEN "excluded" ELSE tstatus[m]]
  /\ UNCHANGED <<changeVars, snap, remote, cmdVars, workVars, history, bounds>>

\* Mutant: the pause does not wait for the worker.
PauseAtOnce ==
  /\ pauses < MaxPauses
  /\ pauses' = pauses + 1
  /\ \/ /\ status = "awaiting_promotion"
        /\ status' = "paused" /\ pauseFlag' = FALSE
     \/ /\ status = "deploying"
        /\ status' = "paused" /\ pauseFlag' = FALSE
  /\ overrun' = FALSE
  /\ UNCHANGED <<planVars, tstatus, snap, remote, cmdVars, workVars, late,
                 commands, faults, edits>>

\* pause_change: works beside a reserved command.
Pause ==
  /\ pauses < MaxPauses
  /\ pauses' = pauses + 1
  /\ \/ /\ status = "awaiting_promotion"
        /\ status' = "paused" /\ pauseFlag' = FALSE
     \/ /\ status = "deploying"
        /\ status' = "pause_requested" /\ pauseFlag' = TRUE
  /\ overrun' = FALSE
  /\ UNCHANGED <<planVars, tstatus, snap, remote, cmdVars, workVars, late,
                 commands, faults, edits>>

\* A resume request that finds the pause still pending (_run_rollout_action).
CancelPause ==
  /\ status = "pause_requested"
  /\ status' = "deploying" /\ pauseFlag' = FALSE
  /\ overrun' = FALSE
  /\ UNCHANGED <<planVars, tstatus, snap, remote, cmdVars, workVars, late, bounds>>

\* Somebody changes a server's configuration outside of this change.
ForeignEdit(n) ==
  /\ edits < MaxEdits
  /\ n \notin up
  /\ remote[n] # "foreign"
  /\ edits' = edits + 1
  /\ remote' = [remote EXCEPT ![n] = "foreign"]
  /\ late' = late \cup {n}
  /\ UNCHANGED <<changeVars, planVars, tstatus, snap, cmdVars, workVars, overrun,
                 commands, pauses, faults>>

-----------------------------------------------------------------------------
(* Commands. *)

\* _check_action
Allowed(a, n) ==
  \/ a = "validate" /\ status \in EDITABLE_STATUSES
  \/ a = "deploy"   /\ status \in RETRYABLE_DEPLOY_STATUSES \cup
                          {IF RequiresApproval THEN "approved" ELSE "validated"}
  \/ a = "resume"   /\ status \in RESUMABLE_STATUSES
  \/ a = "promote"  /\ status = "awaiting_promotion"
  \/ a = "rollback" /\ status \in RollbackStatuses
  \/ a = "retry"    /\ status \in TARGET_ACTION_STATUSES
                    /\ n \notin excluded /\ tstatus[n] # "deployed"
  \/ a = "include"  /\ status \in PlanStatuses /\ n \in excluded
  \/ /\ a = "rollback_target"
     /\ status \in TARGET_ACTION_STATUSES \cup {"deployed"}
     /\ n \notin excluded
     /\ tstatus[n] \in {"deployed", "deployment_failed", "deployment_interrupted",
                        "rollback_failed"}

Commands == (ChangeActions \X {0}) \cup (TargetActions \X Nodes)

Enqueue(a, n) ==
  /\ cmd = "none"
  /\ Allowed(a, n)
  /\ cmd' = a /\ arg' = n
  /\ pc' = "queued"
  /\ IF a = "validate" THEN UNCHANGED commands
     ELSE commands < MaxCommands /\ commands' = commands + 1
  /\ UNCHANGED <<changeVars, planVars, tstatus, snap, remote, seen, edge, todo, up,
                 history, pauses, faults, edits>>

\* execute: the checks are repeated, then the durable marker and the handler.
BeginRefused ==
  /\ pc = "queued"
  /\ (~Allowed(cmd, arg) /\ NoFault) \/ Fault
  /\ Raise
  /\ UNCHANGED <<changeVars, planVars, tstatus, snap, remote, history>>
  /\ Elsewhere

BeginValidate ==
  /\ pc = "queued" /\ cmd = "validate" /\ Allowed(cmd, arg)
  /\ status' = "validating"
  /\ tstatus' = Refreshed
  /\ pc' = "validating" /\ todo' = Active
  /\ UNCHANGED <<pauseFlag, planVars, snap, remote, seen, edge, up, history, faults>>
  /\ Elsewhere

BeginChecks ==
  /\ pc = "queued" /\ cmd \in Deployments \cup {"retry"} /\ Allowed(cmd, arg)
  /\ seen' = status
  /\ tstatus' = Refreshed
  /\ pc' = "checking" /\ todo' = Active
  /\ late' = {}
  /\ UNCHANGED <<changeVars, planVars, snap, remote, edge, up, overrun, faults>>
  /\ Elsewhere

\* rollback_change: a deployed change is rolled back on every target, any
\* other one where its targets say that something was changed.  What may fall
\* between its read of the status and its transition, a pause of a rollout that
\* awaits its promotion, changes neither.
BeginRollback ==
  LET ids == IF status = "deployed" THEN Nodes ELSE Changed(Refreshed) IN
  /\ pc = "queued" /\ cmd = "rollback" /\ Allowed(cmd, arg)
  /\ tstatus' = Refreshed
  /\ IF ids = {} THEN Raise /\ UNCHANGED status
     ELSE /\ status' = "rolling_back"
          /\ pc' = "rolling" /\ todo' = ids
          /\ UNCHANGED <<seen, edge, up>>
  /\ UNCHANGED <<pauseFlag, planVars, snap, remote, history, faults>>
  /\ Elsewhere

\* A pause between its read of the status and its transition makes it refuse:
\* the outcome of BeginRefused.
BeginRollbackTarget ==
  /\ pc = "queued" /\ cmd = "rollback_target" /\ Allowed(cmd, arg)
  /\ status' = "rolling_back"
  /\ pc' = "rolling" /\ todo' = {arg}
  /\ UNCHANGED <<pauseFlag, planVars, tstatus, snap, remote, seen, edge, up,
                 history, faults>>
  /\ Elsewhere

-----------------------------------------------------------------------------
(* validate_change and include_target. *)

ValidateTarget(n) ==
  /\ pc = "validating" /\ IsFirst(n, todo) /\ up = {}
  /\ tstatus' = [tstatus EXCEPT ![n] = "validating"]
  /\ up' = {n} /\ todo' = todo \ {n}
  /\ UNCHANGED <<changeVars, planVars, snap, remote, pc, seen, edge, history, faults>>
  /\ Elsewhere

TargetValidated(n) ==
  /\ pc = "validating" /\ n \in up
  /\ \/ NoFault /\ tstatus' = [tstatus EXCEPT ![n] = "validated"]
     \/ Fault   /\ tstatus' = [tstatus EXCEPT ![n] = "validation_failed"]
  /\ up' = {}
  /\ UNCHANGED <<changeVars, planVars, snap, remote, pc, seen, edge, todo, history>>
  /\ Elsewhere

ValidationDone ==
  /\ pc = "validating" /\ todo = {} /\ up = {}
  /\ IF \E n \in Nodes : tstatus[n] = "validation_failed"
     THEN status' = "validation_failed" /\ Raise
     ELSE /\ status' = IF RequiresApproval THEN "pending_approval" ELSE "validated"
          /\ Goto("finishing")
  /\ UNCHANGED <<pauseFlag, planVars, tstatus, snap, remote, history, faults>>
  /\ Elsewhere

\* A target without a snapshot gets one first: from then on "base" is what
\* its server holds now.
CaptureSnapshot(n) ==
  /\ snap' = snap \cup {n}
  /\ remote' = IF n \in snap THEN remote ELSE [remote EXCEPT ![n] = "base"]

IncludeTarget ==
  /\ pc = "queued" /\ cmd = "include" /\ Allowed(cmd, arg)
  /\ \/ /\ NoFault
        /\ CaptureSnapshot(arg)
        /\ excluded' = excluded \ {arg}
        /\ tstatus' = [n \in Nodes |-> IF n = arg THEN "pending"
                                       ELSE IF n \in excluded THEN "excluded"
                                       ELSE tstatus[n]]
        /\ Goto("finishing")
     \/ /\ Fault
        /\ CaptureSnapshot(arg) \/ UNCHANGED <<snap, remote>>
        /\ Raise
        /\ UNCHANGED <<excluded, tstatus>>
  /\ UNCHANGED <<changeVars, canary, history>>
  /\ Elsewhere

-----------------------------------------------------------------------------
(* What a deployment verifies on every active server before it transitions. *)

FreshDeploy == cmd = "deploy" /\ seen # "deployment_interrupted"

\* Mutant: the snapshot has to exist, its content is not compared.
CheckSnapshotOnly(n) ==
  /\ pc = "checking" /\ IsFirst(n, todo) /\ FreshDeploy
  /\ \/ /\ n \in snap
        /\ todo' = todo \ {n}
        /\ UNCHANGED <<pc, seen, edge, up, faults>>
     \/ /\ (n \notin snap /\ NoFault) \/ Fault
        /\ Raise
  /\ UNCHANGED <<changeVars, planVars, tstatus, snap, remote, history>>
  /\ Elsewhere

\* _ensure_base_unchanged
CheckBase(n) ==
  /\ pc = "checking" /\ IsFirst(n, todo) /\ FreshDeploy
  /\ \/ /\ n \in snap /\ remote[n] = "base"
        /\ todo' = todo \ {n}
        /\ UNCHANGED <<pc, seen, edge, up, faults>>
     \/ /\ ((n \notin snap \/ remote[n] # "base") /\ NoFault) \/ Fault
        /\ Raise
  /\ UNCHANGED <<changeVars, planVars, tstatus, snap, remote, history>>
  /\ Elsewhere

\* _reconcile_interrupted_rollout: a target is kept if it is deployed and
\* healthy; one that holds the original or the candidate is pending again.
Reconcile(n) ==
  /\ pc = "checking" /\ IsFirst(n, todo) /\ ~FreshDeploy
  /\ \/ /\ n \in snap /\ remote[n] # "foreign"
        /\ tstatus' = IF remote[n] = "candidate" /\ tstatus[n] = "deployed" THEN tstatus
                      ELSE [tstatus EXCEPT ![n] = "pending"]
        /\ todo' = todo \ {n}
        /\ UNCHANGED <<pc, seen, edge, up, faults>>
     \/ /\ ((n \notin snap \/ remote[n] = "foreign") /\ NoFault) \/ Fault
        /\ Raise
        /\ UNCHANGED tstatus
  /\ UNCHANGED <<changeVars, planVars, snap, remote, history>>
  /\ Elsewhere

\* The checks are through; the change may have left the status they were made
\* for, or the service may not be active, so that a reload would fail.
StartDeploying ==
  /\ pc = "checking" /\ todo = {}
  /\ \/ /\ status = seen /\ ~(cmd = "retry" /\ tstatus[arg] = "deployed")
        /\ status' = "deploying"
        /\ pauseFlag' = IF cmd \in {"resume", "promote"} THEN FALSE ELSE pauseFlag
        /\ pc' = "preparing"
        /\ UNCHANGED <<seen, edge, todo, up, faults>>
     \/ /\ \/ (status # seen \/ (cmd = "retry" /\ tstatus[arg] = "deployed")) /\ NoFault
           \/ Fault
        /\ Raise
        /\ UNCHANGED changeVars
  /\ UNCHANGED <<planVars, tstatus, snap, remote, history>>
  /\ Elsewhere

-----------------------------------------------------------------------------
(* _deploy_rollout: batch by batch, with the pause honoured in between. *)

\* A first deployment starts every active target again (reset_targets).
PrepareRollout ==
  /\ pc = "preparing" /\ cmd \in Deployments
  /\ tstatus' = [n \in Nodes |-> IF FreshDeploy /\ n \in Active THEN "pending"
                                 ELSE tstatus[n]]
  /\ IF Remaining(tstatus') = {} THEN Goto("completed") ELSE Goto("boundary")
  /\ UNCHANGED <<changeVars, planVars, snap, remote, history, faults>>
  /\ Elsewhere

PrepareRetry ==
  /\ pc = "preparing" /\ cmd = "retry"
  /\ tstatus' = [tstatus EXCEPT ![arg] = "deploying"]
  /\ pc' = "applying" /\ seen' = "none" /\ todo' = {arg}
  /\ UNCHANGED <<changeVars, planVars, snap, remote, edge, up, history, faults>>
  /\ Elsewhere

\* On from the boundary: into the batch, or after it to the next boundary.
Proceed ==
  IF edge = "before" THEN pc' = "starting" /\ edge' = edge
  ELSE IF ManualPromotion THEN pc' = "promoting" /\ edge' = edge
  ELSE pc' = "boundary" /\ edge' = "before"

\* Mutant: nobody looks for a pause at the boundary.
ReadBoundaryBlind ==
  /\ pc = "boundary"
  /\ Proceed
  /\ UNCHANGED <<changeVars, planVars, tstatus, snap, remote, seen, todo, up,
                 history, faults>>
  /\ Elsewhere

ReadBoundary ==
  /\ pc = "boundary"
  /\ IF status = "pause_requested" THEN pc' = "claiming" /\ edge' = edge ELSE Proceed
  /\ UNCHANGED <<changeVars, planVars, tstatus, snap, remote, seen, todo, up,
                 history, faults>>
  /\ Elsewhere

\* _finish_pending_pause: the transition to 'paused' ...
ClaimPause ==
  /\ pc = "claiming"
  /\ IF status = "pause_requested"
     THEN status' = "paused" /\ pauseFlag' = FALSE /\ Goto("finishing")
     ELSE /\ pc' = "rereading"
          /\ UNCHANGED <<changeVars, seen, edge, todo, up>>
  /\ UNCHANGED <<planVars, tstatus, snap, remote, history, faults>>
  /\ Elsewhere

\* ... and what it does when it lost the race against a resume.
Reread ==
  /\ pc = "rereading"
  /\ IF status = "deploying" /\ ~pauseFlag THEN Proceed /\ UNCHANGED <<seen, todo, up>>
     ELSE IF status = "paused" THEN Goto("finishing")
     ELSE /\ pc' = "rolling" /\ todo' = Attempted(tstatus)
          /\ UNCHANGED <<seen, edge, up>>
  /\ UNCHANGED <<changeVars, planVars, tstatus, snap, remote, history, faults>>
  /\ Elsewhere

AwaitPromotion ==
  /\ pc = "promoting"
  /\ status' = "awaiting_promotion"
  /\ Goto("finishing")
  /\ UNCHANGED <<pauseFlag, planVars, tstatus, snap, remote, history, faults>>
  /\ Elsewhere

\* Mutant: the batch is not filtered by its number.
StartAllBatches ==
  LET b     == CHOOSE b \in {Batch(n) : n \in Remaining(tstatus)} :
                 \A n \in Remaining(tstatus) : b <= Batch(n)
      batch == {n \in Remaining(tstatus) : Batch(n) >= b}
  IN
  /\ pc = "starting"
  /\ tstatus' = [n \in Nodes |-> IF n \in batch THEN "deploying" ELSE tstatus[n]]
  /\ pc' = "applying" /\ todo' = batch
  /\ overrun' = (status = "pause_requested")
  /\ UNCHANGED <<changeVars, planVars, snap, remote, seen, edge, up, late, faults>>
  /\ Elsewhere

\* _deploy_batch: the targets of the lowest batch that are not deployed yet.
StartBatch ==
  LET b     == CHOOSE b \in {Batch(n) : n \in Remaining(tstatus)} :
                 \A n \in Remaining(tstatus) : b <= Batch(n)
      batch == {n \in Remaining(tstatus) : Batch(n) = b}
  IN
  /\ pc = "starting"
  /\ tstatus' = [n \in Nodes |-> IF n \in batch THEN "deploying" ELSE tstatus[n]]
  /\ pc' = "applying" /\ todo' = batch
  /\ overrun' = (status = "pause_requested")
  /\ UNCHANGED <<changeVars, planVars, snap, remote, seen, edge, up, late, faults>>
  /\ Elsewhere

Failed == \E n \in Nodes : tstatus[n] = "deployment_failed"
Broken == MaxParallel = 1 /\ Failed     \* a sequential batch stops at a failure

StartTarget(n) ==
  /\ pc = "applying" /\ IsFirst(n, todo)
  /\ Cardinality(up) < MaxParallel
  /\ ~Broken
  /\ up' = up \cup {n} /\ todo' = todo \ {n}
  /\ UNCHANGED <<changeVars, planVars, tstatus, snap, remote, pc, seen, edge,
                 history, faults>>
  /\ Elsewhere

\* _upload_target; the health check and the target's outcome come after it.
Upload(n) ==
  /\ pc = "applying" /\ n \in up
  /\ remote[n] # "candidate"
  /\ remote' = [remote EXCEPT ![n] = "candidate"]
  /\ UNCHANGED <<changeVars, planVars, tstatus, snap, workVars, history, faults>>
  /\ Elsewhere

TargetOutcome(n) ==
  /\ pc = "applying" /\ n \in up
  /\ \/ /\ remote[n] = "candidate" /\ NoFault
        /\ tstatus' = [tstatus EXCEPT ![n] = "deployed"]
     \/ /\ Fault
        /\ tstatus' = [tstatus EXCEPT ![n] = "deployment_failed"]
  /\ up' = up \ {n}
  /\ UNCHANGED <<changeVars, planVars, snap, remote, pc, seen, edge, todo, history>>
  /\ Elsewhere

BatchOver == pc = "applying" /\ up = {} /\ (todo = {} \/ Broken)

\* On a failure the targets that were not attempted are skipped, the attempted
\* ones rolled back.
BatchDone ==
  LET skipped == [n \in Nodes |->
        IF n \in Active /\ tstatus[n] \notin {"deployed", "deployment_failed"}
        THEN "skipped" ELSE tstatus[n]]
  IN
  /\ BatchOver /\ cmd \in Deployments
  /\ IF Failed
     THEN /\ tstatus' = skipped
          /\ pc' = "rolling" /\ todo' = Attempted(skipped)
          /\ UNCHANGED <<seen, edge, up>>
     ELSE /\ IF Remaining(tstatus) = {} THEN Goto("completed")
             ELSE pc' = "boundary" /\ edge' = "after" /\ UNCHANGED <<seen, todo, up>>
          /\ UNCHANGED tstatus
  /\ UNCHANGED <<changeVars, planVars, snap, remote, history, faults>>
  /\ Elsewhere

\* Mutant: one deployed target completes the change.
RetryDoneAlone ==
  /\ BatchOver /\ cmd = "retry"
  /\ IF ~Failed THEN Goto("completed") /\ UNCHANGED status
     ELSE /\ status' = "paused"
          /\ IF Failed THEN Raise ELSE Goto("finishing")
  /\ UNCHANGED <<pauseFlag, planVars, tstatus, snap, remote, history, faults>>
  /\ Elsewhere

\* retry_target leaves a partial rollout paused, whatever its outcome.
RetryDone ==
  /\ BatchOver /\ cmd = "retry"
  /\ IF Remaining(tstatus) = {} THEN Goto("completed") /\ UNCHANGED status
     ELSE /\ status' = "paused"
          /\ IF Failed THEN Raise ELSE Goto("finishing")
  /\ UNCHANGED <<pauseFlag, planVars, tstatus, snap, remote, history, faults>>
  /\ Elsewhere

\* Every active target is deployed: the version is saved, then the outcome.
Complete ==
  /\ pc = "completed"
  /\ status' = "deployed"
  /\ pauseFlag' = IF cmd = "retry" THEN pauseFlag ELSE FALSE
  /\ Goto("finishing")
  /\ UNCHANGED <<planVars, tstatus, snap, remote, history, faults>>
  /\ Elsewhere

SaveVersionFails ==
  /\ pc = "completed"
  /\ Fault
  /\ IF cmd = "retry" THEN Raise
     ELSE /\ pc' = "rolling" /\ todo' = Attempted(tstatus)
          /\ UNCHANGED <<seen, edge, up>>
  /\ UNCHANGED <<changeVars, planVars, tstatus, snap, remote, history>>
  /\ Elsewhere

-----------------------------------------------------------------------------
(* _rollback_targets, in reverse order, past failures.                     *)

RollbackTarget(n) ==
  /\ pc = "rolling" /\ IsLast(n, todo) /\ up = {}
  /\ tstatus' = [tstatus EXCEPT ![n] = "rolling_back"]
  /\ up' = {n} /\ todo' = todo \ {n}
  /\ UNCHANGED <<changeVars, planVars, snap, remote, pc, seen, edge, history, faults>>
  /\ Elsewhere

UploadSnapshot(n) ==
  /\ pc = "rolling" /\ n \in up
  /\ n \in snap
  /\ remote[n] # "base"
  /\ remote' = [remote EXCEPT ![n] = "base"]
  /\ UNCHANGED <<changeVars, planVars, tstatus, snap, workVars, history, faults>>
  /\ Elsewhere

\* Mutant: the outcome of a failed rollback is not told apart.
RollbackOutcomeIgnored(n) ==
  /\ pc = "rolling" /\ n \in up
  /\ \/ /\ n \in snap /\ remote[n] = "base" /\ NoFault
        /\ tstatus' = [tstatus EXCEPT ![n] = "rolled_back"]
     \/ /\ (n \notin snap /\ NoFault) \/ Fault
        /\ tstatus' = [tstatus EXCEPT ![n] = "rolled_back"]
  /\ up' = {}
  /\ UNCHANGED <<changeVars, planVars, snap, remote, pc, seen, edge, todo, history>>
  /\ Elsewhere

RollbackOutcome(n) ==
  /\ pc = "rolling" /\ n \in up
  /\ \/ /\ n \in snap /\ remote[n] = "base" /\ NoFault
        /\ tstatus' = [tstatus EXCEPT ![n] = "rolled_back"]
     \/ /\ (n \notin snap /\ NoFault) \/ Fault
        /\ tstatus' = [tstatus EXCEPT ![n] = "rollback_failed"]
  /\ up' = {}
  /\ UNCHANGED <<changeVars, planVars, snap, remote, pc, seen, edge, todo, history>>
  /\ Elsewhere

RollbackFailed == \E n \in Nodes : tstatus[n] = "rollback_failed"
RollbackOver   == pc = "rolling" /\ todo = {} /\ up = {}

\* _rollback_after_failure; the deployment raises in any case.
AutoRollbackDone ==
  /\ RollbackOver /\ cmd \in Deployments
  /\ status' = IF RollbackFailed THEN "auto_rollback_failed" ELSE "auto_rolled_back"
  /\ Raise
  /\ UNCHANGED <<pauseFlag, planVars, tstatus, snap, remote, history, faults>>
  /\ Elsewhere

\* rollback_change; saving the version of the primary's snapshot may fail too.
RollbackDone ==
  /\ RollbackOver /\ cmd = "rollback"
  /\ \/ ~RollbackFailed /\ status' = "rolled_back" /\ Goto("finishing") /\ NoFault
     \/ /\ (RollbackFailed /\ NoFault) \/ (tstatus[Primary] = "rolled_back" /\ Fault)
        /\ status' = "rollback_failed" /\ Raise
  /\ UNCHANGED <<pauseFlag, planVars, tstatus, snap, remote, history>>
  /\ Elsewhere

\* rollback_target
RollbackTargetDone ==
  /\ RollbackOver /\ cmd = "rollback_target"
  /\ \/ /\ tstatus[arg] = "rollback_failed" /\ NoFault
        /\ status' = "rollback_failed" /\ Raise
     \/ /\ tstatus[arg] = "rolled_back" /\ NoFault
        /\ status' = IF \E n \in Active : tstatus[n] = "deployed"
                     THEN "paused" ELSE "rolled_back"
        /\ Goto("finishing")
     \/ tstatus[arg] = "rolled_back" /\ arg = Primary /\ Fault
        /\ Raise /\ UNCHANGED status
  /\ UNCHANGED <<pauseFlag, planVars, tstatus, snap, remote, history>>
  /\ Elsewhere

-----------------------------------------------------------------------------
(* The end of a command: execute's exception path, and the recovery of a   *)
(* command whose worker died after it had begun remote work.               *)

\* Mutant: a requested pause is not taken for a running deployment.
InterruptLiteral ==
  LET activeStatus == status
      recovered    == IF status = "validating" THEN "validation_failed"
                      ELSE IF status = "rolling_back" THEN "rollback_failed"
                      ELSE "deployment_interrupted"
  IN
  /\ pc = "interrupting"
  /\ IF status \in IN_PROGRESS_STATUSES
     THEN /\ tstatus' = [n \in Nodes |-> IF tstatus[n] = activeStatus THEN recovered
                                         ELSE tstatus[n]]
          /\ seen' = status /\ pc' = "recovering"
          /\ UNCHANGED <<edge, todo, up>>
     ELSE Goto("finishing") /\ UNCHANGED tstatus
  /\ UNCHANGED <<changeVars, planVars, snap, remote, history, faults>>
  /\ Elsewhere

\* recover_change, called by _interrupt for a change that is in progress ...
Interrupt ==
  LET activeStatus == IF status = "pause_requested" THEN "deploying" ELSE status
      recovered    == IF status = "validating" THEN "validation_failed"
                      ELSE IF status = "rolling_back" THEN "rollback_failed"
                      ELSE "deployment_interrupted"
  IN
  /\ pc = "interrupting"
  /\ IF status \in IN_PROGRESS_STATUSES
     THEN /\ tstatus' = [n \in Nodes |-> IF tstatus[n] = activeStatus THEN recovered
                                         ELSE tstatus[n]]
          /\ seen' = status /\ pc' = "recovering"
          /\ UNCHANGED <<edge, todo, up>>
     ELSE Goto("finishing") /\ UNCHANGED tstatus
  /\ UNCHANGED <<changeVars, planVars, snap, remote, history, faults>>
  /\ Elsewhere

\* ... its transition, which a pause between the two may refuse: the exception
\* leaves execute and the command is delivered again when its lease expires.
Recover ==
  /\ pc = "recovering"
  /\ IF status = seen
     THEN /\ \/ seen = "validating"      /\ status' = "validation_failed"
             \/ seen = "deploying"       /\ status' = "deployment_interrupted"
             \/ seen = "pause_requested" /\ status' = "paused"
             \/ seen = "rolling_back"    /\ status' = "rollback_failed"
          /\ pauseFlag' = FALSE
          /\ Goto("finishing")
     ELSE Goto("crashed") /\ UNCHANGED changeVars
  /\ UNCHANGED <<planVars, tstatus, snap, remote, history, faults>>
  /\ Elsewhere

\* _finish releases the reservation.
Finish ==
  /\ pc = "finishing"
  /\ cmd' = "none" /\ arg' = 0
  /\ Goto("idle")
  /\ UNCHANGED <<changeVars, planVars, tstatus, snap, remote, history, bounds>>

Crash ==
  /\ pc \notin {"idle", "queued", "crashed"}
  /\ Fault
  /\ Goto("crashed")
  /\ UNCHANGED <<changeVars, planVars, tstatus, snap, remote, history>>
  /\ Elsewhere

\* Mutant: a command that has started is not handled again.
RedeliverDropped ==
  /\ pc = "crashed"
  /\ UNCHANGED <<pc, seen, edge, todo, up>>
  /\ UNCHANGED <<changeVars, planVars, tstatus, snap, remote, history, faults>>
  /\ Elsewhere

\* The command is delivered again with its "started" marker set.
Redeliver ==
  /\ pc = "crashed"
  /\ Goto("interrupting")
  /\ UNCHANGED <<changeVars, planVars, tstatus, snap, remote, history, faults>>
  /\ Elsewhere

-----------------------------------------------------------------------------
Request ==
  \/ \E p \in Plans : UpdateDraft(p)
  \/ Approve \/ Cancel \/ Pause \/ CancelPause
  \/ \E n \in Nodes : Exclude(n)
  \/ \E c \in Commands : Enqueue(c[1], c[2])

Worker ==
  \/ BeginRefused \/ BeginValidate \/ BeginChecks \/ BeginRollback \/ BeginRollbackTarget
  \/ ValidationDone \/ IncludeTarget \/ StartDeploying
  \/ PrepareRollout \/ PrepareRetry
  \/ ReadBoundary \/ ClaimPause \/ Reread \/ AwaitPromotion
  \/ StartBatch \/ BatchDone \/ RetryDone \/ Complete \/ SaveVersionFails
  \/ AutoRollbackDone \/ RollbackDone \/ RollbackTargetDone
  \/ Interrupt \/ Recover \/ Finish \/ Redeliver
  \/ \E n \in Nodes :
       \/ ValidateTarget(n) \/ TargetValidated(n)
       \/ CheckBase(n) \/ Reconcile(n)
       \/ StartTarget(n) \/ Upload(n) \/ TargetOutcome(n)
       \/ RollbackTarget(n) \/ UploadSnapshot(n) \/ RollbackOutcome(n)

Next ==
  \/ Request
  \/ Worker
  \/ Crash
  \/ \E n \in Nodes : ForeignEdit(n)

Spec == Init /\ [][Next]_vars
\* A delivered command is executed to its end: the worker takes its steps.
FairSpec == Spec /\ WF_vars(Worker)

-----------------------------------------------------------------------------
TargetStatuses ==
  {"pending", "excluded", "validating", "validated", "validation_failed", "deploying",
   "deployed", "deployment_failed", "deployment_interrupted", "skipped",
   "rolling_back", "rolled_back", "rollback_failed"}

PCs == {"idle", "queued", "validating", "checking", "preparing", "boundary", "claiming",
        "rereading", "promoting", "starting", "applying", "completed", "rolling",
        "interrupting", "recovering", "finishing", "crashed"}

\* Type invariant.
TypeOK ==
  /\ status \in Statuses /\ pauseFlag \in BOOLEAN
  /\ canary \subseteq Slaves /\ excluded \subseteq Slaves
  /\ tstatus \in [Nodes -> TargetStatuses]
  /\ snap \subseteq Nodes
  /\ remote \in [Nodes -> {"base", "candidate", "foreign"}]
  /\ cmd \in ChangeActions \cup TargetActions \cup {"none"}
  /\ arg \in 0..N
  /\ pc \in PCs /\ seen \in Statuses \cup {"none"} /\ edge \in {"before", "after"}
  /\ todo \subseteq Nodes /\ up \subseteq Nodes
  /\ overrun \in BOOLEAN /\ late \subseteq Nodes
  /\ commands \in 0..MaxCommands /\ pauses \in 0..MaxPauses
  /\ faults \in 0..MaxFaults /\ edits \in 0..MaxEdits

\* A change that reads 'deployed' has its candidate on every active server that
\* nobody edited since, whatever mixture of batches, retries, interruptions and
\* exclusions led there.
DeployedEverywhere ==
  status = "deployed" => \A n \in Active : remote[n] # "base"

\* The status of a target agrees with its server: a deployed one does not hold
\* the original configuration, a rolled back one does not hold the candidate,
\* in spite of crashes between the remote step and the write of its outcome.
StatusMatchesServer ==
  \A n \in Nodes : /\ tstatus[n] = "deployed" => remote[n] # "base"
                   /\ tstatus[n] = "rolled_back" => remote[n] # "candidate"

\* While no operation holds the change, nothing of it reads as in progress: an
\* interrupted command leaves neither the change nor a target locked in a status
\* from which no further operation starts.
IdleIsSettled ==
  cmd = "none" => /\ status \notin IN_PROGRESS_STATUSES
                  /\ \A n \in Nodes : tstatus[n] \notin {"validating", "deploying"}

\* Servers are worked on only while the change says so: once it reads 'paused',
\* 'awaiting_promotion' or any outcome, no deployment or rollback is under way.
RemoteOnlyInProgress ==
  up # {} => status \in IN_PROGRESS_STATUSES

\* Batches come in order: a deployment takes up a target only when every active
\* target of an earlier batch, the canaries first of all, is deployed and does not
\* hold the original configuration.
CanariesFirst ==
  [][ \A n \in up' \ up : cmd \in Deployments /\ pc = "applying" =>
        \A m \in Active : Batch(m) < Batch(n) =>
          tstatus[m] = "deployed" /\ remote[m] # "base" ]_vars

\* A pending pause stops the rollout after the current batch: of the batches that
\* start while the same request is pending there is at most one, the one whose
\* boundary the request just missed.
PauseStopsRollout ==
  [][ pc = "starting" /\ pc' = "applying" /\ status = "pause_requested" => ~overrun ]_vars

\* A foreign configuration is never replaced by the candidate, except for an edit
\* made after the command that deploys had begun its checks.
ForeignEditsSurvive ==
  [][ \A n \in Nodes : remote[n] = "foreign" /\ remote'[n] = "candidate" => n \in late ]_vars

\* A target that was excluded is not worked on.
ExcludedUntouched == up \cap excluded = {}

\* When a rollback of the whole change ends successfully, the one after a failed
\* deployment or the one a user asked for, no active server holds the candidate.
RollbackRestores ==
  [][ status' # status /\ status' \in {"auto_rolled_back", "rolled_back"} /\ cmd # "rollback_target" =>
        \A n \in Active : remote[n] # "candidate" ]_vars

\* A deployment is rolled back because a target failed or because its version
\* could not be saved, not because users changed their minds about a pause.
RollbackHasCause ==
  [][ pc # "rolling" /\ pc' = "rolling" /\ cmd \in Deployments => Failed \/ pc = "completed" ]_vars

\* Every queued command comes to an end and releases the change.
EveryCommandEnds == (cmd # "none") ~> (cmd = "none")
=============================================================================
