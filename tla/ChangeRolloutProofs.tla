------------------------- MODULE ChangeRolloutProofs -------------------------
(***************************************************************************)
(* Proofs about ChangeRollout, for any number of targets, any plan, and    *)
(* any number of commands, pauses, failures, crashes and foreign edits.    *)
(***************************************************************************)
EXTENDS ChangeRollout, FiniteSetTheorems, WellFoundedInduction, TLAPS

\* Where the worker stands between the transition to 'deploying' and the last
\* batch, outside of a batch.
Between == {"preparing", "boundary", "claiming", "rereading", "promoting", "starting",
            "completed"}
Running == {"deploying", "pause_requested"}

\* The program counter and the status of the change keep step.
ControlInv ==
  /\ cmd = "none" <=> pc = "idle"
  /\ pc \notin {"validating", "applying", "rolling"} => up = {}
  /\ todo \cap up = {}
  /\ pc = "validating" => status = "validating" /\ todo \cup up \subseteq Active
  /\ pc \in Between \cup {"applying"} => status \in Running
  /\ pc = "rolling" => status \in Running \cup {"rolling_back"}
  /\ pc = "checking" => todo \subseteq Active /\ status # "deployed"
  /\ pc = "recovering" => seen \in IN_PROGRESS_STATUSES
  /\ pc \in {"validating", "rolling"} => \A m, n \in up : m = n
  /\ cmd \in TargetActions => arg # 0
  /\ pc \in {"idle", "queued", "checking", "finishing"} =>
       status \notin IN_PROGRESS_STATUSES

\* A target that reads as in progress is one that the current loop has in hand.
ProgressInv ==
  /\ \A n \in Nodes : /\ tstatus[n] = "validating" => status = "validating"
                      /\ tstatus[n] = "deploying" => status \in Running
  /\ pc = "validating" => \A n \in Nodes : tstatus[n] = "validating" => n \in up
  /\ pc = "applying" => \A n \in Nodes : tstatus[n] = "deploying" <=> n \in todo \cup up
  /\ pc = "rolling" => \A n \in Nodes : /\ tstatus[n] = "deploying" => n \in todo
                                        /\ n \in up => tstatus[n] = "rolling_back"
  /\ pc \in Between \cup {"recovering"} =>
       \A n \in Nodes : tstatus[n] \notin {"validating", "deploying"}

\* An excluded target has no part in a deployment; a rollback may still take it up.
ExclusionInv ==
  \A n \in excluded : tstatus[n] \in {"excluded", "rolling_back", "rolled_back",
                                      "rollback_failed"}

\* A retry works on one active target and finds the others settled.
RetryInv ==
  cmd = "retry" =>
    /\ pc \notin Between \ {"preparing", "completed"}
    /\ pc \in {"checking", "preparing", "applying"} => arg \in Active
    /\ pc = "checking" => \A n \in Active \ todo : tstatus[n] \in {"pending", "deployed"}
    /\ pc = "preparing" => \A n \in Active : tstatus[n] \in {"pending", "deployed"}
    /\ pc = "applying" => \A n \in Active \ {arg} : tstatus[n] \in {"pending", "deployed"}

\* A change that is deployed, or about to be, has all of its targets deployed.
CompletedInv ==
  pc = "completed" \/ status = "deployed" => \A n \in Active : tstatus[n] = "deployed"

\* What a deployment found or finds to be foreign was edited after its checks began.
ForeignInv ==
  /\ pc = "checking" => \A n \in Active \ todo : remote[n] = "foreign" => n \in late
  /\ pc \in Between \cup {"applying"} =>
       \A n \in Active : remote[n] = "foreign" => n \in late

\* A batch that is about to start is not the second one under the same request.
PauseInv == pc = "starting" /\ overrun => status # "pause_requested"

\* Nothing is taken up before all of the earlier batches are deployed, and the loop
\* over the batches has one to go for.
OrderInv ==
  /\ pc \in Between \ {"preparing", "completed"} => Remaining(tstatus) # {}
  /\ pc = "applying" /\ cmd \in Deployments =>
       \A n \in todo \cup up : \A m \in Active :
         Batch(m) < Batch(n) => tstatus[m] = "deployed"

IndInv == /\ TypeOK /\ ControlInv /\ ProgressInv /\ ExclusionInv /\ RetryInv
          /\ CompletedInv /\ StatusMatchesServer /\ ForeignInv /\ PauseInv
          /\ OrderInv

\* The statuses that a step assigns are statuses of a change.
LEMMA StatusLiterals ==
  {"draft", "validating", "validated", "validation_failed", "pending_approval",
   "approved", "cancelled", "deploying", "pause_requested", "paused",
   "awaiting_promotion", "deployed", "deployment_interrupted", "auto_rolled_back",
   "auto_rollback_failed", "rolling_back", "rolled_back", "rollback_failed"}
  \subseteq Statuses
BY DEF Statuses, EDITABLE_STATUSES, CANCELLABLE_STATUSES, IN_PROGRESS_STATUSES,
       RESUMABLE_STATUSES, TARGET_ACTION_STATUSES

\* The slaves and the server the change was made for are its targets.
LEMMA TopologyFacts == Slaves \subseteq Nodes /\ Primary \in Nodes /\ Primary \notin Slaves
BY TopologyAssumption DEF Slaves, Primary, Nodes

\* Every step keeps the types.
LEMMA TypeStep ==
  TypeOK /\ ControlInv /\ [Next]_vars => TypeOK'
<1> SUFFICES ASSUME TypeOK, ControlInv, [Next]_vars PROVE TypeOK'
  OBVIOUS
<1> USE StatusLiterals, TopologyAssumption, BoundAssumption DEF TypeOK,
        TargetStatuses, PCs, changeVars, planVars, cmdVars, workVars, history, bounds,
        vars, Goto, Raise, Elsewhere, Fault, NoFault
<1>1. CASE Request
  <2>1. ASSUME NEW p \in Plans, UpdateDraft(p) PROVE TypeOK'
    BY <2>1, PlanAssumption DEF UpdateDraft
  <2>2. CASE Approve BY <2>2 DEF Approve
  <2>3. CASE Cancel BY <2>3 DEF Cancel
  <2>4. CASE Pause
    <3>1. status' \in Statuses /\ pauseFlag' \in BOOLEAN BY <2>4 DEF Pause
    <3>2. pauses' \in 0..MaxPauses BY <2>4 DEF Pause
    <3> QED BY <2>4, <3>1, <3>2 DEF Pause
  <2>5. CASE CancelPause BY <2>5 DEF CancelPause
  <2>6. ASSUME NEW n \in Nodes, Exclude(n) PROVE TypeOK'
    BY <2>6 DEF Exclude, Nodes
  <2>7. ASSUME NEW c \in Commands, Enqueue(c[1], c[2]) PROVE TypeOK'
    BY <2>7 DEF Enqueue, Allowed, Commands, ChangeActions, TargetActions, Nodes,
        Deployments
  <2> QED BY <1>1, <2>1, <2>2, <2>3, <2>4, <2>5, <2>6, <2>7 DEF Request
<1>2. CASE Worker
  <2>1. CASE BeginRefused BY <2>1 DEF BeginRefused
  <2>2. CASE BeginValidate BY <2>2 DEF BeginValidate, Refreshed, Active
  <2>3. CASE BeginChecks BY <2>3 DEF BeginChecks, Refreshed, Active
  <2>4. CASE BeginRollback BY <2>4 DEF BeginRollback, Refreshed, Changed
  <2>5. CASE BeginRollbackTarget BY <2>5 DEF BeginRollbackTarget, ControlInv,
      TargetActions, Nodes
  <2>6. CASE ValidationDone BY <2>6 DEF ValidationDone
  <2>7. CASE IncludeTarget
    <3>1. arg \in Nodes BY <2>7 DEF IncludeTarget, ControlInv, TargetActions, Nodes
    <3>2. tstatus' \in [Nodes -> TargetStatuses]
      BY <2>7, <3>1 DEF IncludeTarget
    <3>3. /\ snap' \subseteq Nodes
          /\ remote' \in [Nodes -> {"base", "candidate", "foreign"}]
      BY <2>7, <3>1 DEF IncludeTarget, CaptureSnapshot
    <3> QED BY <2>7, <3>2, <3>3 DEF IncludeTarget
  <2>8. CASE StartDeploying
    <3>1. status' \in Statuses /\ pauseFlag' \in BOOLEAN BY <2>8 DEF StartDeploying
    <3>2. /\ pc' \in PCs /\ seen' \in Statuses \cup {"none"}
          /\ edge' \in {"before", "after"}
          /\ todo' \subseteq Nodes /\ up' \subseteq Nodes
      BY <2>8 DEF StartDeploying
    <3>3. faults' \in 0..MaxFaults
      <4>1. faults' = faults \/ (faults < MaxFaults /\ faults' = faults + 1)
        BY <2>8 DEF StartDeploying
      <4> QED BY <4>1
    <3> QED BY <2>8, <3>1, <3>2, <3>3 DEF StartDeploying
  <2>9. CASE PrepareRollout BY <2>9 DEF PrepareRollout, Remaining
  <2>10. CASE PrepareRetry BY <2>10 DEF PrepareRetry, ControlInv, TargetActions, Nodes
  <2>11. CASE ReadBoundary BY <2>11 DEF ReadBoundary, Proceed
  <2>12. CASE ClaimPause BY <2>12 DEF ClaimPause
  <2>13. CASE Reread BY <2>13 DEF Reread, Proceed, Attempted
  <2>14. CASE AwaitPromotion BY <2>14 DEF AwaitPromotion
  <2>15. CASE StartBatch BY <2>15 DEF StartBatch, Remaining, Active
  <2>16. CASE BatchDone BY <2>16 DEF BatchDone, Attempted, Remaining, BatchOver
  <2>17. CASE RetryDone BY <2>17 DEF RetryDone, Remaining, BatchOver
  <2>18. CASE Complete BY <2>18 DEF Complete
  <2>19. CASE SaveVersionFails BY <2>19 DEF SaveVersionFails, Attempted
  <2>20. CASE AutoRollbackDone BY <2>20 DEF AutoRollbackDone
  <2>21. CASE RollbackDone BY <2>21 DEF RollbackDone
  <2>22. CASE RollbackTargetDone BY <2>22 DEF RollbackTargetDone, RollbackOver
  <2>23. CASE Interrupt BY <2>23 DEF Interrupt
  <2>24. CASE Recover BY <2>24 DEF Recover
  <2>25. CASE Finish BY <2>25 DEF Finish
  <2>26. CASE Redeliver BY <2>26 DEF Redeliver
  <2>27. ASSUME NEW n \in Nodes,
               \/ ValidateTarget(n) \/ TargetValidated(n) \/ CheckBase(n) \/ Reconcile(n)
               \/ StartTarget(n) \/ Upload(n) \/ TargetOutcome(n)
               \/ RollbackTarget(n) \/ UploadSnapshot(n) \/ RollbackOutcome(n)
        PROVE  TypeOK'
    <3>1. CASE ValidateTarget(n) BY <3>1 DEF ValidateTarget, IsFirst
    <3>2. CASE TargetValidated(n) BY <3>2 DEF TargetValidated
    <3>3. CASE CheckBase(n) BY <3>3 DEF CheckBase, IsFirst
    <3>4. CASE Reconcile(n) BY <3>4 DEF Reconcile, IsFirst
    <3>5. CASE StartTarget(n) BY <3>5 DEF StartTarget, IsFirst
    <3>6. CASE Upload(n) BY <3>6 DEF Upload
    <3>7. CASE TargetOutcome(n) BY <3>7 DEF TargetOutcome
    <3>8. CASE RollbackTarget(n) BY <3>8 DEF RollbackTarget, IsLast
    <3>9. CASE UploadSnapshot(n) BY <3>9 DEF UploadSnapshot
    <3>10. CASE RollbackOutcome(n) BY <3>10 DEF RollbackOutcome
    <3> QED BY <2>27, <3>1, <3>2, <3>3, <3>4, <3>5, <3>6, <3>7, <3>8, <3>9, <3>10
  <2> QED BY <1>2, <2>1, <2>2, <2>3, <2>4, <2>5, <2>6, <2>7, <2>8, <2>9, <2>10,
      <2>11, <2>12, <2>13, <2>14, <2>15, <2>16, <2>17, <2>18, <2>19, <2>20, <2>21,
      <2>22, <2>23, <2>24, <2>25, <2>26, <2>27 DEF Worker
<1>3. CASE Crash BY <1>3 DEF Crash
<1>4. ASSUME NEW n \in Nodes, ForeignEdit(n) PROVE TypeOK'
  BY <1>4 DEF ForeignEdit
<1>5. CASE UNCHANGED vars BY <1>5 DEF vars
<1> QED BY <1>1, <1>2, <1>3, <1>4, <1>5 DEF Next

\* Every step keeps the program counter and the status in step.
LEMMA ControlStep ==
  TypeOK /\ ControlInv /\ [Next]_vars => ControlInv'
<1> SUFFICES ASSUME TypeOK, ControlInv, [Next]_vars PROVE ControlInv'
  OBVIOUS
<1> USE DEF ControlInv, Between, Running, IN_PROGRESS_STATUSES, TypeOK, Active,
        changeVars, planVars, cmdVars, workVars, history, bounds, vars, Goto, Raise,
        Elsewhere, Fault, NoFault
<1>1. CASE Request
  <2>1. ASSUME NEW p \in Plans, UpdateDraft(p) PROVE ControlInv'
    BY <2>1 DEF UpdateDraft, EDITABLE_STATUSES
  <2>2. CASE Approve BY <2>2 DEF Approve
  <2>3. CASE Cancel BY <2>3 DEF Cancel, CANCELLABLE_STATUSES, EDITABLE_STATUSES
  <2>4. CASE Pause BY <2>4 DEF Pause
  <2>5. CASE CancelPause BY <2>5 DEF CancelPause
  <2>6. ASSUME NEW n \in Nodes, Exclude(n) PROVE ControlInv'
    BY <2>6 DEF Exclude
  <2>7. ASSUME NEW c \in Commands, Enqueue(c[1], c[2]) PROVE ControlInv'
    BY <2>7 DEF Enqueue, Commands, ChangeActions, TargetActions, Deployments, Nodes,
        EDITABLE_STATUSES, CANCELLABLE_STATUSES,
      RETRYABLE_DEPLOY_STATUSES, RESUMABLE_STATUSES, TARGET_ACTION_STATUSES,
      PlanStatuses, RollbackStatuses, Allowed
  <2> QED BY <1>1, <2>1, <2>2, <2>3, <2>4, <2>5, <2>6, <2>7 DEF Request
<1>2. CASE Worker
  <2>1. CASE BeginRefused BY <2>1 DEF BeginRefused
  <2>2. CASE BeginValidate BY <2>2 DEF BeginValidate
  <2>3. CASE BeginChecks BY <2>3 DEF BeginChecks, Allowed, Deployments,
      EDITABLE_STATUSES, CANCELLABLE_STATUSES,
      RETRYABLE_DEPLOY_STATUSES, RESUMABLE_STATUSES, TARGET_ACTION_STATUSES,
      PlanStatuses, RollbackStatuses
  <2>4. CASE BeginRollback BY <2>4 DEF BeginRollback, Allowed, EDITABLE_STATUSES,
      CANCELLABLE_STATUSES,
      RETRYABLE_DEPLOY_STATUSES, RESUMABLE_STATUSES, TARGET_ACTION_STATUSES,
      PlanStatuses, RollbackStatuses
  <2>5. CASE BeginRollbackTarget BY <2>5 DEF BeginRollbackTarget
  <2>6. CASE ValidationDone BY <2>6 DEF ValidationDone
  <2>7. CASE IncludeTarget BY <2>7 DEF IncludeTarget
  <2>8. CASE StartDeploying BY <2>8 DEF StartDeploying
  <2>9. CASE PrepareRollout BY <2>9 DEF PrepareRollout
  <2>10. CASE PrepareRetry BY <2>10 DEF PrepareRetry
  <2>11. CASE ReadBoundary BY <2>11 DEF ReadBoundary, Proceed
  <2>12. CASE ClaimPause BY <2>12 DEF ClaimPause
  <2>13. CASE Reread BY <2>13 DEF Reread, Proceed
  <2>14. CASE AwaitPromotion BY <2>14 DEF AwaitPromotion
  <2>15. CASE StartBatch BY <2>15 DEF StartBatch
  <2>16. CASE BatchDone BY <2>16 DEF BatchDone, BatchOver
  <2>17. CASE RetryDone BY <2>17 DEF RetryDone, BatchOver
  <2>18. CASE Complete BY <2>18 DEF Complete
  <2>19. CASE SaveVersionFails BY <2>19 DEF SaveVersionFails
  <2>20. CASE AutoRollbackDone BY <2>20 DEF AutoRollbackDone, RollbackOver
  <2>21. CASE RollbackDone BY <2>21 DEF RollbackDone, RollbackOver
  <2>22. CASE RollbackTargetDone BY <2>22 DEF RollbackTargetDone, RollbackOver
  <2>23. CASE Interrupt BY <2>23 DEF Interrupt
  <2>24. CASE Recover BY <2>24 DEF Recover
  <2>25. CASE Finish BY <2>25 DEF Finish, TargetActions
  <2>26. CASE Redeliver BY <2>26 DEF Redeliver
  <2>27. ASSUME NEW n \in Nodes,
               \/ ValidateTarget(n) \/ TargetValidated(n) \/ CheckBase(n) \/ Reconcile(n)
               \/ StartTarget(n) \/ Upload(n) \/ TargetOutcome(n)
               \/ RollbackTarget(n) \/ UploadSnapshot(n) \/ RollbackOutcome(n)
        PROVE  ControlInv'
    <3>1. CASE ValidateTarget(n) BY <3>1 DEF ValidateTarget, IsFirst
    <3>2. CASE TargetValidated(n) BY <3>2 DEF TargetValidated
    <3>3. CASE CheckBase(n) BY <3>3 DEF CheckBase, IsFirst
    <3>4. CASE Reconcile(n) BY <3>4 DEF Reconcile, IsFirst
    <3>5. CASE StartTarget(n) BY <3>5 DEF StartTarget, IsFirst
    <3>6. CASE Upload(n) BY <3>6 DEF Upload
    <3>7. CASE TargetOutcome(n) BY <3>7 DEF TargetOutcome
    <3>8. CASE RollbackTarget(n) BY <3>8 DEF RollbackTarget, IsLast
    <3>9. CASE UploadSnapshot(n) BY <3>9 DEF UploadSnapshot
    <3>10. CASE RollbackOutcome(n) BY <3>10 DEF RollbackOutcome
    <3> QED BY <2>27, <3>1, <3>2, <3>3, <3>4, <3>5, <3>6, <3>7, <3>8, <3>9, <3>10
  <2> QED BY <1>2, <2>1, <2>2, <2>3, <2>4, <2>5, <2>6, <2>7, <2>8, <2>9, <2>10,
      <2>11, <2>12, <2>13, <2>14, <2>15, <2>16, <2>17, <2>18, <2>19, <2>20, <2>21,
      <2>22, <2>23, <2>24, <2>25, <2>26, <2>27 DEF Worker
<1>3. CASE Crash BY <1>3 DEF Crash
<1>4. ASSUME NEW n \in Nodes, ForeignEdit(n) PROVE ControlInv'
  BY <1>4 DEF ForeignEdit
<1>5. CASE UNCHANGED vars BY <1>5 DEF vars
<1> QED BY <1>1, <1>2, <1>3, <1>4, <1>5 DEF Next

\* An excluded target takes no part in a deployment.
LEMMA ExclusionStep ==
  TypeOK /\ ControlInv /\ ProgressInv /\ ExclusionInv /\ RetryInv /\ [Next]_vars
    => ExclusionInv'
<1> SUFFICES ASSUME TypeOK, ControlInv, ProgressInv, ExclusionInv, RetryInv,
    [Next]_vars PROVE ExclusionInv'
  OBVIOUS
<1> USE TopologyFacts DEF ExclusionInv, TypeOK, Active, changeVars, planVars,
        cmdVars, workVars, history, bounds, vars, Goto, Raise, Elsewhere, Fault,
        NoFault
<1>1. CASE Request
  <2>1. ASSUME NEW p \in Plans, UpdateDraft(p) PROVE ExclusionInv'
    BY <2>1, PlanAssumption DEF UpdateDraft
  <2>2. CASE Approve BY <2>2 DEF Approve
  <2>3. CASE Cancel BY <2>3 DEF Cancel
  <2>4. CASE Pause BY <2>4 DEF Pause
  <2>5. CASE CancelPause BY <2>5 DEF CancelPause
  <2>6. ASSUME NEW n \in Nodes, Exclude(n) PROVE ExclusionInv'
    BY <2>6 DEF Exclude
  <2>7. ASSUME NEW c \in Commands, Enqueue(c[1], c[2]) PROVE ExclusionInv'
    BY <2>7 DEF Enqueue
  <2> QED BY <1>1, <2>1, <2>2, <2>3, <2>4, <2>5, <2>6, <2>7 DEF Request
<1>2. CASE Worker
  <2>1. CASE BeginRefused BY <2>1 DEF BeginRefused
  <2>2. CASE BeginValidate BY <2>2 DEF BeginValidate, Refreshed
  <2>3. CASE BeginChecks BY <2>3 DEF BeginChecks, Refreshed
  <2>4. CASE BeginRollback BY <2>4 DEF BeginRollback, Refreshed
  <2>5. CASE BeginRollbackTarget BY <2>5 DEF BeginRollbackTarget
  <2>6. CASE ValidationDone BY <2>6 DEF ValidationDone
  <2>7. CASE IncludeTarget BY <2>7 DEF IncludeTarget
  <2>8. CASE StartDeploying BY <2>8 DEF StartDeploying
  <2>9. CASE PrepareRollout BY <2>9 DEF PrepareRollout
  <2>10. CASE PrepareRetry BY <2>10 DEF PrepareRetry, RetryInv
  <2>11. CASE ReadBoundary BY <2>11 DEF ReadBoundary
  <2>12. CASE ClaimPause BY <2>12 DEF ClaimPause
  <2>13. CASE Reread BY <2>13 DEF Reread
  <2>14. CASE AwaitPromotion BY <2>14 DEF AwaitPromotion
  <2>15. CASE StartBatch BY <2>15 DEF StartBatch, Remaining
  <2>16. CASE BatchDone BY <2>16 DEF BatchDone
  <2>17. CASE RetryDone BY <2>17 DEF RetryDone
  <2>18. CASE Complete BY <2>18 DEF Complete
  <2>19. CASE SaveVersionFails BY <2>19 DEF SaveVersionFails
  <2>20. CASE AutoRollbackDone BY <2>20 DEF AutoRollbackDone
  <2>21. CASE RollbackDone BY <2>21 DEF RollbackDone
  <2>22. CASE RollbackTargetDone BY <2>22 DEF RollbackTargetDone
  <2>23. CASE Interrupt BY <2>23 DEF Interrupt, IN_PROGRESS_STATUSES
  <2>24. CASE Recover BY <2>24 DEF Recover
  <2>25. CASE Finish BY <2>25 DEF Finish
  <2>26. CASE Redeliver BY <2>26 DEF Redeliver
  <2>27. ASSUME NEW n \in Nodes,
               \/ ValidateTarget(n) \/ TargetValidated(n) \/ CheckBase(n) \/ Reconcile(n)
               \/ StartTarget(n) \/ Upload(n) \/ TargetOutcome(n)
               \/ RollbackTarget(n) \/ UploadSnapshot(n) \/ RollbackOutcome(n)
        PROVE  ExclusionInv'
    <3>1. CASE ValidateTarget(n) BY <3>1 DEF ValidateTarget, ControlInv, IsFirst
    <3>2. CASE TargetValidated(n) BY <3>2 DEF TargetValidated, ControlInv
    <3>3. CASE CheckBase(n) BY <3>3 DEF CheckBase
    <3>4. CASE Reconcile(n) BY <3>4 DEF Reconcile, ControlInv, IsFirst
    <3>5. CASE StartTarget(n) BY <3>5 DEF StartTarget
    <3>6. CASE Upload(n) BY <3>6 DEF Upload
    <3>7. CASE TargetOutcome(n) BY <3>7 DEF TargetOutcome, ProgressInv
    <3>8. CASE RollbackTarget(n) BY <3>8 DEF RollbackTarget
    <3>9. CASE UploadSnapshot(n) BY <3>9 DEF UploadSnapshot
    <3>10. CASE RollbackOutcome(n) BY <3>10 DEF RollbackOutcome
    <3> QED BY <2>27, <3>1, <3>2, <3>3, <3>4, <3>5, <3>6, <3>7, <3>8, <3>9, <3>10
  <2> QED BY <1>2, <2>1, <2>2, <2>3, <2>4, <2>5, <2>6, <2>7, <2>8, <2>9, <2>10,
      <2>11, <2>12, <2>13, <2>14, <2>15, <2>16, <2>17, <2>18, <2>19, <2>20, <2>21,
      <2>22, <2>23, <2>24, <2>25, <2>26, <2>27 DEF Worker
<1>3. CASE Crash BY <1>3 DEF Crash
<1>4. ASSUME NEW n \in Nodes, ForeignEdit(n) PROVE ExclusionInv'
  BY <1>4 DEF ForeignEdit
<1>5. CASE UNCHANGED vars BY <1>5 DEF vars
<1> QED BY <1>1, <1>2, <1>3, <1>4, <1>5 DEF Next

\* A retry stays alone with its target.
LEMMA RetryStep ==
  TypeOK /\ ControlInv /\ ProgressInv /\ ExclusionInv /\ RetryInv /\ [Next]_vars
    => RetryInv'
<1> SUFFICES ASSUME TypeOK, ControlInv, ProgressInv, ExclusionInv, RetryInv,
    [Next]_vars PROVE RetryInv'
  OBVIOUS
<1> USE DEF RetryInv, Between, TypeOK, Active, changeVars, planVars, cmdVars,
        workVars, history, bounds, vars, Goto, Raise, Elsewhere, Fault, NoFault
<1>1. CASE Request
  <2>1. ASSUME NEW p \in Plans, UpdateDraft(p) PROVE RetryInv'
    BY <2>1 DEF UpdateDraft
  <2>2. CASE Approve BY <2>2 DEF Approve
  <2>3. CASE Cancel BY <2>3 DEF Cancel
  <2>4. CASE Pause BY <2>4 DEF Pause
  <2>5. CASE CancelPause BY <2>5 DEF CancelPause
  <2>6. ASSUME NEW n \in Nodes, Exclude(n) PROVE RetryInv'
    BY <2>6 DEF Exclude
  <2>7. ASSUME NEW c \in Commands, Enqueue(c[1], c[2]) PROVE RetryInv'
    BY <2>7 DEF Enqueue
  <2> QED BY <1>1, <2>1, <2>2, <2>3, <2>4, <2>5, <2>6, <2>7 DEF Request
<1>2. CASE Worker
  <2>1. CASE BeginRefused BY <2>1 DEF BeginRefused
  <2>2. CASE BeginValidate BY <2>2 DEF BeginValidate
  <2>3. CASE BeginChecks BY <2>3 DEF BeginChecks, Allowed, ControlInv, TargetActions,
      Nodes, Deployments
  <2>4. CASE BeginRollback BY <2>4 DEF BeginRollback
  <2>5. CASE BeginRollbackTarget BY <2>5 DEF BeginRollbackTarget
  <2>6. CASE ValidationDone BY <2>6 DEF ValidationDone
  <2>7. CASE IncludeTarget BY <2>7 DEF IncludeTarget
  <2>8. CASE StartDeploying BY <2>8 DEF StartDeploying
  <2>9. CASE PrepareRollout BY <2>9 DEF PrepareRollout, Deployments
  <2>10. CASE PrepareRetry BY <2>10 DEF PrepareRetry
  <2>11. CASE ReadBoundary BY <2>11 DEF ReadBoundary
  <2>12. CASE ClaimPause BY <2>12 DEF ClaimPause
  <2>13. CASE Reread BY <2>13 DEF Reread
  <2>14. CASE AwaitPromotion BY <2>14 DEF AwaitPromotion
  <2>15. CASE StartBatch BY <2>15 DEF StartBatch
  <2>16. CASE BatchDone BY <2>16 DEF BatchDone, Deployments
  <2>17. CASE RetryDone BY <2>17 DEF RetryDone
  <2>18. CASE Complete BY <2>18 DEF Complete
  <2>19. CASE SaveVersionFails BY <2>19 DEF SaveVersionFails
  <2>20. CASE AutoRollbackDone BY <2>20 DEF AutoRollbackDone
  <2>21. CASE RollbackDone BY <2>21 DEF RollbackDone
  <2>22. CASE RollbackTargetDone BY <2>22 DEF RollbackTargetDone
  <2>23. CASE Interrupt BY <2>23 DEF Interrupt
  <2>24. CASE Recover BY <2>24 DEF Recover
  <2>25. CASE Finish BY <2>25 DEF Finish
  <2>26. CASE Redeliver BY <2>26 DEF Redeliver
  <2>27. ASSUME NEW n \in Nodes,
               \/ ValidateTarget(n) \/ TargetValidated(n) \/ CheckBase(n) \/ Reconcile(n)
               \/ StartTarget(n) \/ Upload(n) \/ TargetOutcome(n)
               \/ RollbackTarget(n) \/ UploadSnapshot(n) \/ RollbackOutcome(n)
        PROVE  RetryInv'
    <3>1. CASE ValidateTarget(n) BY <3>1 DEF ValidateTarget
    <3>2. CASE TargetValidated(n) BY <3>2 DEF TargetValidated
    <3>3. CASE CheckBase(n) BY <3>3 DEF CheckBase, FreshDeploy
    <3>4. CASE Reconcile(n) BY <3>4 DEF Reconcile, IsFirst
    <3>5. CASE StartTarget(n) BY <3>5 DEF StartTarget, IsFirst
    <3>6. CASE Upload(n) BY <3>6 DEF Upload
    <3>7. CASE TargetOutcome(n) BY <3>7 DEF TargetOutcome, ProgressInv
    <3>8. CASE RollbackTarget(n) BY <3>8 DEF RollbackTarget
    <3>9. CASE UploadSnapshot(n) BY <3>9 DEF UploadSnapshot
    <3>10. CASE RollbackOutcome(n) BY <3>10 DEF RollbackOutcome
    <3> QED BY <2>27, <3>1, <3>2, <3>3, <3>4, <3>5, <3>6, <3>7, <3>8, <3>9, <3>10
  <2> QED BY <1>2, <2>1, <2>2, <2>3, <2>4, <2>5, <2>6, <2>7, <2>8, <2>9, <2>10,
      <2>11, <2>12, <2>13, <2>14, <2>15, <2>16, <2>17, <2>18, <2>19, <2>20, <2>21,
      <2>22, <2>23, <2>24, <2>25, <2>26, <2>27 DEF Worker
<1>3. CASE Crash BY <1>3 DEF Crash
<1>4. ASSUME NEW n \in Nodes, ForeignEdit(n) PROVE RetryInv'
  BY <1>4 DEF ForeignEdit
<1>5. CASE UNCHANGED vars BY <1>5 DEF vars
<1> QED BY <1>1, <1>2, <1>3, <1>4, <1>5 DEF Next

\* No target keeps a status that only a loop in progress gives.
LEMMA ProgressStep ==
  TypeOK /\ ControlInv /\ ProgressInv /\ ExclusionInv /\ RetryInv /\ [Next]_vars
    => ProgressInv'
<1> SUFFICES ASSUME TypeOK, ControlInv, ProgressInv, ExclusionInv, RetryInv,
    [Next]_vars PROVE ProgressInv'
  OBVIOUS
<1> USE DEF ProgressInv, ControlInv, Between, Running, IN_PROGRESS_STATUSES, TypeOK,
        Active, changeVars, planVars, cmdVars, workVars, history, bounds, vars, Goto,
        Raise, Elsewhere, Fault, NoFault
<1>1. CASE Request
  <2>1. ASSUME NEW p \in Plans, UpdateDraft(p) PROVE ProgressInv'
    BY <2>1 DEF UpdateDraft, EDITABLE_STATUSES
  <2>2. CASE Approve BY <2>2 DEF Approve
  <2>3. CASE Cancel BY <2>3 DEF Cancel, CANCELLABLE_STATUSES, EDITABLE_STATUSES
  <2>4. CASE Pause BY <2>4 DEF Pause
  <2>5. CASE CancelPause BY <2>5 DEF CancelPause
  <2>6. ASSUME NEW n \in Nodes, Exclude(n) PROVE ProgressInv'
    BY <2>6 DEF Exclude
  <2>7. ASSUME NEW c \in Commands, Enqueue(c[1], c[2]) PROVE ProgressInv'
    BY <2>7 DEF Enqueue
  <2> QED BY <1>1, <2>1, <2>2, <2>3, <2>4, <2>5, <2>6, <2>7 DEF Request
<1>2. CASE Worker
  <2>1. CASE BeginRefused BY <2>1 DEF BeginRefused
  <2>2. CASE BeginValidate BY <2>2 DEF BeginValidate, Refreshed
  <2>3. CASE BeginChecks BY <2>3 DEF BeginChecks, Refreshed
  <2>4. CASE BeginRollback BY <2>4 DEF BeginRollback, Refreshed
  <2>5. CASE BeginRollbackTarget BY <2>5 DEF BeginRollbackTarget
  <2>6. CASE ValidationDone BY <2>6 DEF ValidationDone
  <2>7. CASE IncludeTarget BY <2>7 DEF IncludeTarget
  <2>8. CASE StartDeploying BY <2>8 DEF StartDeploying
  <2>9. CASE PrepareRollout BY <2>9 DEF PrepareRollout
  <2>10. CASE PrepareRetry BY <2>10 DEF PrepareRetry
  <2>11. CASE ReadBoundary BY <2>11 DEF ReadBoundary, Proceed
  <2>12. CASE ClaimPause BY <2>12 DEF ClaimPause
  <2>13. CASE Reread BY <2>13 DEF Reread, Proceed, Attempted
  <2>14. CASE AwaitPromotion BY <2>14 DEF AwaitPromotion
  <2>15. CASE StartBatch BY <2>15 DEF StartBatch, Remaining
  <2>16. CASE BatchDone BY <2>16 DEF BatchDone, BatchOver, Broken, Failed, Attempted
  <2>17. CASE RetryDone BY <2>17 DEF RetryDone, BatchOver, Broken, Failed, RetryInv,
      ExclusionInv
  <2>18. CASE Complete BY <2>18 DEF Complete
  <2>19. CASE SaveVersionFails BY <2>19 DEF SaveVersionFails
  <2>20. CASE AutoRollbackDone BY <2>20 DEF AutoRollbackDone, RollbackOver
  <2>21. CASE RollbackDone BY <2>21 DEF RollbackDone, RollbackOver
  <2>22. CASE RollbackTargetDone BY <2>22 DEF RollbackTargetDone, RollbackOver
  <2>23. CASE Interrupt BY <2>23 DEF Interrupt
  <2>24. CASE Recover BY <2>24 DEF Recover
  <2>25. CASE Finish BY <2>25 DEF Finish
  <2>26. CASE Redeliver BY <2>26 DEF Redeliver
  <2>27. ASSUME NEW n \in Nodes,
               \/ ValidateTarget(n) \/ TargetValidated(n) \/ CheckBase(n) \/ Reconcile(n)
               \/ StartTarget(n) \/ Upload(n) \/ TargetOutcome(n)
               \/ RollbackTarget(n) \/ UploadSnapshot(n) \/ RollbackOutcome(n)
        PROVE  ProgressInv'
    <3>1. CASE ValidateTarget(n) BY <3>1 DEF ValidateTarget, IsFirst
    <3>2. CASE TargetValidated(n) BY <3>2 DEF TargetValidated
    <3>3. CASE CheckBase(n) BY <3>3 DEF CheckBase, IsFirst
    <3>4. CASE Reconcile(n) BY <3>4 DEF Reconcile, IsFirst
    <3>5. CASE StartTarget(n) BY <3>5 DEF StartTarget, IsFirst
    <3>6. CASE Upload(n) BY <3>6 DEF Upload
    <3>7. CASE TargetOutcome(n) BY <3>7 DEF TargetOutcome
    <3>8. CASE RollbackTarget(n) BY <3>8 DEF RollbackTarget, IsLast
    <3>9. CASE UploadSnapshot(n) BY <3>9 DEF UploadSnapshot
    <3>10. CASE RollbackOutcome(n) BY <3>10 DEF RollbackOutcome
    <3> QED BY <2>27, <3>1, <3>2, <3>3, <3>4, <3>5, <3>6, <3>7, <3>8, <3>9, <3>10
  <2> QED BY <1>2, <2>1, <2>2, <2>3, <2>4, <2>5, <2>6, <2>7, <2>8, <2>9, <2>10,
      <2>11, <2>12, <2>13, <2>14, <2>15, <2>16, <2>17, <2>18, <2>19, <2>20, <2>21,
      <2>22, <2>23, <2>24, <2>25, <2>26, <2>27 DEF Worker
<1>3. CASE Crash BY <1>3 DEF Crash
<1>4. ASSUME NEW n \in Nodes, ForeignEdit(n) PROVE ProgressInv'
  BY <1>4 DEF ForeignEdit
<1>5. CASE UNCHANGED vars BY <1>5 DEF vars
<1> QED BY <1>1, <1>2, <1>3, <1>4, <1>5 DEF Next

\* A change that is deployed, or about to be, has every active target deployed.
LEMMA CompletedStep ==
  TypeOK /\ ControlInv /\ CompletedInv /\ [Next]_vars => CompletedInv'
<1> SUFFICES ASSUME TypeOK, ControlInv, CompletedInv, [Next]_vars PROVE CompletedInv'
  OBVIOUS
<1> USE DEF CompletedInv, ControlInv, Between, Running, IN_PROGRESS_STATUSES, TypeOK,
        Active, changeVars, planVars, cmdVars, workVars, history, bounds, vars, Goto,
        Raise, Elsewhere, Fault, NoFault
<1>1. CASE Request
  <2>1. ASSUME NEW p \in Plans, UpdateDraft(p) PROVE CompletedInv'
    BY <2>1 DEF UpdateDraft
  <2>2. CASE Approve BY <2>2 DEF Approve
  <2>3. CASE Cancel BY <2>3 DEF Cancel
  <2>4. CASE Pause BY <2>4 DEF Pause
  <2>5. CASE CancelPause BY <2>5 DEF CancelPause
  <2>6. ASSUME NEW n \in Nodes, Exclude(n) PROVE CompletedInv'
    BY <2>6 DEF Exclude, PlanStatuses, RESUMABLE_STATUSES, TARGET_ACTION_STATUSES,
        EDITABLE_STATUSES
  <2>7. ASSUME NEW c \in Commands, Enqueue(c[1], c[2]) PROVE CompletedInv'
    BY <2>7 DEF Enqueue
  <2> QED BY <1>1, <2>1, <2>2, <2>3, <2>4, <2>5, <2>6, <2>7 DEF Request
<1>2. CASE Worker
  <2>1. CASE BeginRefused BY <2>1 DEF BeginRefused
  <2>2. CASE BeginValidate BY <2>2 DEF BeginValidate, Refreshed, Allowed,
      EDITABLE_STATUSES
  <2>3. CASE BeginChecks BY <2>3 DEF BeginChecks, Refreshed
  <2>4. CASE BeginRollback BY <2>4, TopologyAssumption DEF BeginRollback, Refreshed,
      Nodes
  <2>5. CASE BeginRollbackTarget BY <2>5 DEF BeginRollbackTarget
  <2>6. CASE ValidationDone BY <2>6 DEF ValidationDone
  <2>7. CASE IncludeTarget BY <2>7 DEF IncludeTarget, Allowed, PlanStatuses,
      RESUMABLE_STATUSES, TARGET_ACTION_STATUSES, EDITABLE_STATUSES
  <2>8. CASE StartDeploying BY <2>8 DEF StartDeploying
  <2>9. CASE PrepareRollout BY <2>9 DEF PrepareRollout, Remaining
  <2>10. CASE PrepareRetry BY <2>10 DEF PrepareRetry
  <2>11. CASE ReadBoundary BY <2>11 DEF ReadBoundary, Proceed
  <2>12. CASE ClaimPause BY <2>12 DEF ClaimPause
  <2>13. CASE Reread BY <2>13 DEF Reread, Proceed
  <2>14. CASE AwaitPromotion BY <2>14 DEF AwaitPromotion
  <2>15. CASE StartBatch BY <2>15 DEF StartBatch, Remaining
  <2>16. CASE BatchDone BY <2>16 DEF BatchDone, BatchOver, Remaining
  <2>17. CASE RetryDone BY <2>17 DEF RetryDone, BatchOver, Remaining
  <2>18. CASE Complete BY <2>18 DEF Complete
  <2>19. CASE SaveVersionFails BY <2>19 DEF SaveVersionFails
  <2>20. CASE AutoRollbackDone BY <2>20 DEF AutoRollbackDone, RollbackOver
  <2>21. CASE RollbackDone BY <2>21 DEF RollbackDone, RollbackOver
  <2>22. CASE RollbackTargetDone BY <2>22 DEF RollbackTargetDone, RollbackOver
  <2>23. CASE Interrupt BY <2>23 DEF Interrupt
  <2>24. CASE Recover BY <2>24 DEF Recover
  <2>25. CASE Finish BY <2>25 DEF Finish
  <2>26. CASE Redeliver BY <2>26 DEF Redeliver
  <2>27. ASSUME NEW n \in Nodes,
               \/ ValidateTarget(n) \/ TargetValidated(n) \/ CheckBase(n) \/ Reconcile(n)
               \/ StartTarget(n) \/ Upload(n) \/ TargetOutcome(n)
               \/ RollbackTarget(n) \/ UploadSnapshot(n) \/ RollbackOutcome(n)
        PROVE  CompletedInv'
    <3>1. CASE ValidateTarget(n) BY <3>1 DEF ValidateTarget
    <3>2. CASE TargetValidated(n) BY <3>2 DEF TargetValidated
    <3>3. CASE CheckBase(n) BY <3>3 DEF CheckBase
    <3>4. CASE Reconcile(n) BY <3>4 DEF Reconcile
    <3>5. CASE StartTarget(n) BY <3>5 DEF StartTarget
    <3>6. CASE Upload(n) BY <3>6 DEF Upload
    <3>7. CASE TargetOutcome(n) BY <3>7 DEF TargetOutcome
    <3>8. CASE RollbackTarget(n) BY <3>8 DEF RollbackTarget
    <3>9. CASE UploadSnapshot(n) BY <3>9 DEF UploadSnapshot
    <3>10. CASE RollbackOutcome(n) BY <3>10 DEF RollbackOutcome
    <3> QED BY <2>27, <3>1, <3>2, <3>3, <3>4, <3>5, <3>6, <3>7, <3>8, <3>9, <3>10
  <2> QED BY <1>2, <2>1, <2>2, <2>3, <2>4, <2>5, <2>6, <2>7, <2>8, <2>9, <2>10,
      <2>11, <2>12, <2>13, <2>14, <2>15, <2>16, <2>17, <2>18, <2>19, <2>20, <2>21,
      <2>22, <2>23, <2>24, <2>25, <2>26, <2>27 DEF Worker
<1>3. CASE Crash BY <1>3 DEF Crash
<1>4. ASSUME NEW n \in Nodes, ForeignEdit(n) PROVE CompletedInv'
  BY <1>4 DEF ForeignEdit
<1>5. CASE UNCHANGED vars BY <1>5 DEF vars
<1> QED BY <1>1, <1>2, <1>3, <1>4, <1>5 DEF Next

\* The statuses of the targets agree with the servers.
LEMMA ServerStep ==
  TypeOK /\ ControlInv /\ ProgressInv /\ ExclusionInv /\ StatusMatchesServer /\ [Next]_vars
    => StatusMatchesServer'
<1> SUFFICES ASSUME TypeOK, ControlInv, ProgressInv, ExclusionInv,
    StatusMatchesServer, [Next]_vars PROVE StatusMatchesServer'
  OBVIOUS
<1> USE DEF StatusMatchesServer, TypeOK, changeVars, planVars, cmdVars, workVars,
        history, bounds, vars, Goto, Raise, Elsewhere, Fault, NoFault
<1>1. CASE Request
  <2>1. ASSUME NEW p \in Plans, UpdateDraft(p) PROVE StatusMatchesServer'
    BY <2>1 DEF UpdateDraft
  <2>2. CASE Approve BY <2>2 DEF Approve
  <2>3. CASE Cancel BY <2>3 DEF Cancel
  <2>4. CASE Pause BY <2>4 DEF Pause
  <2>5. CASE CancelPause BY <2>5 DEF CancelPause
  <2>6. ASSUME NEW n \in Nodes, Exclude(n) PROVE StatusMatchesServer'
    BY <2>6 DEF Exclude
  <2>7. ASSUME NEW c \in Commands, Enqueue(c[1], c[2]) PROVE StatusMatchesServer'
    BY <2>7 DEF Enqueue
  <2> QED BY <1>1, <2>1, <2>2, <2>3, <2>4, <2>5, <2>6, <2>7 DEF Request
<1>2. CASE Worker
  <2>1. CASE BeginRefused BY <2>1 DEF BeginRefused
  <2>2. CASE BeginValidate BY <2>2 DEF BeginValidate, Refreshed
  <2>3. CASE BeginChecks BY <2>3 DEF BeginChecks, Refreshed
  <2>4. CASE BeginRollback BY <2>4 DEF BeginRollback, Refreshed
  <2>5. CASE BeginRollbackTarget BY <2>5 DEF BeginRollbackTarget
  <2>6. CASE ValidationDone BY <2>6 DEF ValidationDone
  <2>7. CASE IncludeTarget BY <2>7 DEF IncludeTarget, CaptureSnapshot, Allowed,
      ExclusionInv, ControlInv, TargetActions, Nodes
  <2>8. CASE StartDeploying BY <2>8 DEF StartDeploying
  <2>9. CASE PrepareRollout BY <2>9 DEF PrepareRollout
  <2>10. CASE PrepareRetry BY <2>10 DEF PrepareRetry
  <2>11. CASE ReadBoundary BY <2>11 DEF ReadBoundary
  <2>12. CASE ClaimPause BY <2>12 DEF ClaimPause
  <2>13. CASE Reread BY <2>13 DEF Reread
  <2>14. CASE AwaitPromotion BY <2>14 DEF AwaitPromotion
  <2>15. CASE StartBatch BY <2>15 DEF StartBatch
  <2>16. CASE BatchDone BY <2>16 DEF BatchDone
  <2>17. CASE RetryDone BY <2>17 DEF RetryDone
  <2>18. CASE Complete BY <2>18 DEF Complete
  <2>19. CASE SaveVersionFails BY <2>19 DEF SaveVersionFails
  <2>20. CASE AutoRollbackDone BY <2>20 DEF AutoRollbackDone
  <2>21. CASE RollbackDone BY <2>21 DEF RollbackDone
  <2>22. CASE RollbackTargetDone BY <2>22 DEF RollbackTargetDone
  <2>23. CASE Interrupt BY <2>23 DEF Interrupt
  <2>24. CASE Recover BY <2>24 DEF Recover
  <2>25. CASE Finish BY <2>25 DEF Finish
  <2>26. CASE Redeliver BY <2>26 DEF Redeliver
  <2>27. ASSUME NEW n \in Nodes,
               \/ ValidateTarget(n) \/ TargetValidated(n) \/ CheckBase(n) \/ Reconcile(n)
               \/ StartTarget(n) \/ Upload(n) \/ TargetOutcome(n)
               \/ RollbackTarget(n) \/ UploadSnapshot(n) \/ RollbackOutcome(n)
        PROVE  StatusMatchesServer'
    <3>1. CASE ValidateTarget(n) BY <3>1 DEF ValidateTarget
    <3>2. CASE TargetValidated(n) BY <3>2 DEF TargetValidated
    <3>3. CASE CheckBase(n) BY <3>3 DEF CheckBase
    <3>4. CASE Reconcile(n) BY <3>4 DEF Reconcile
    <3>5. CASE StartTarget(n) BY <3>5 DEF StartTarget
    <3>6. CASE Upload(n) BY <3>6 DEF Upload, ProgressInv
    <3>7. CASE TargetOutcome(n) BY <3>7 DEF TargetOutcome
    <3>8. CASE RollbackTarget(n) BY <3>8 DEF RollbackTarget
    <3>9. CASE UploadSnapshot(n) BY <3>9 DEF UploadSnapshot, ProgressInv
    <3>10. CASE RollbackOutcome(n) BY <3>10 DEF RollbackOutcome
    <3> QED BY <2>27, <3>1, <3>2, <3>3, <3>4, <3>5, <3>6, <3>7, <3>8, <3>9, <3>10
  <2> QED BY <1>2, <2>1, <2>2, <2>3, <2>4, <2>5, <2>6, <2>7, <2>8, <2>9, <2>10,
      <2>11, <2>12, <2>13, <2>14, <2>15, <2>16, <2>17, <2>18, <2>19, <2>20, <2>21,
      <2>22, <2>23, <2>24, <2>25, <2>26, <2>27 DEF Worker
<1>3. CASE Crash BY <1>3 DEF Crash
<1>4. ASSUME NEW n \in Nodes, ForeignEdit(n) PROVE StatusMatchesServer'
  BY <1>4 DEF ForeignEdit
<1>5. CASE UNCHANGED vars BY <1>5 DEF vars
<1> QED BY <1>1, <1>2, <1>3, <1>4, <1>5 DEF Next

\* What is foreign on a server that a deployment has checked came after its checks.
LEMMA ForeignStep ==
  TypeOK /\ ControlInv /\ RetryInv /\ ForeignInv /\ [Next]_vars => ForeignInv'
<1> SUFFICES ASSUME TypeOK, ControlInv, RetryInv, ForeignInv,
    [Next]_vars PROVE ForeignInv'
  OBVIOUS
<1> USE DEF ForeignInv, Between, TypeOK, Active, changeVars, planVars, cmdVars,
        workVars, history, bounds, vars, Goto, Raise, Elsewhere, Fault, NoFault
<1>1. CASE Request
  <2>1. ASSUME NEW p \in Plans, UpdateDraft(p) PROVE ForeignInv'
    BY <2>1 DEF UpdateDraft, ControlInv
  <2>2. CASE Approve BY <2>2 DEF Approve
  <2>3. CASE Cancel BY <2>3 DEF Cancel
  <2>4. CASE Pause BY <2>4 DEF Pause
  <2>5. CASE CancelPause BY <2>5 DEF CancelPause
  <2>6. ASSUME NEW n \in Nodes, Exclude(n) PROVE ForeignInv'
    BY <2>6 DEF Exclude, ControlInv
  <2>7. ASSUME NEW c \in Commands, Enqueue(c[1], c[2]) PROVE ForeignInv'
    BY <2>7 DEF Enqueue
  <2> QED BY <1>1, <2>1, <2>2, <2>3, <2>4, <2>5, <2>6, <2>7 DEF Request
<1>2. CASE Worker
  <2>1. CASE BeginRefused BY <2>1 DEF BeginRefused
  <2>2. CASE BeginValidate BY <2>2 DEF BeginValidate
  <2>3. CASE BeginChecks BY <2>3 DEF BeginChecks
  <2>4. CASE BeginRollback BY <2>4 DEF BeginRollback
  <2>5. CASE BeginRollbackTarget BY <2>5 DEF BeginRollbackTarget
  <2>6. CASE ValidationDone BY <2>6 DEF ValidationDone
  <2>7. CASE IncludeTarget BY <2>7 DEF IncludeTarget
  <2>8. CASE StartDeploying BY <2>8 DEF StartDeploying
  <2>9. CASE PrepareRollout BY <2>9 DEF PrepareRollout
  <2>10. CASE PrepareRetry BY <2>10 DEF PrepareRetry
  <2>11. CASE ReadBoundary BY <2>11 DEF ReadBoundary, Proceed
  <2>12. CASE ClaimPause BY <2>12 DEF ClaimPause
  <2>13. CASE Reread BY <2>13 DEF Reread, Proceed
  <2>14. CASE AwaitPromotion BY <2>14 DEF AwaitPromotion
  <2>15. CASE StartBatch BY <2>15 DEF StartBatch
  <2>16. CASE BatchDone BY <2>16 DEF BatchDone, BatchOver
  <2>17. CASE RetryDone BY <2>17 DEF RetryDone, BatchOver
  <2>18. CASE Complete BY <2>18 DEF Complete
  <2>19. CASE SaveVersionFails BY <2>19 DEF SaveVersionFails
  <2>20. CASE AutoRollbackDone BY <2>20 DEF AutoRollbackDone
  <2>21. CASE RollbackDone BY <2>21 DEF RollbackDone
  <2>22. CASE RollbackTargetDone BY <2>22 DEF RollbackTargetDone
  <2>23. CASE Interrupt BY <2>23 DEF Interrupt
  <2>24. CASE Recover BY <2>24 DEF Recover
  <2>25. CASE Finish BY <2>25 DEF Finish
  <2>26. CASE Redeliver BY <2>26 DEF Redeliver
  <2>27. ASSUME NEW n \in Nodes,
               \/ ValidateTarget(n) \/ TargetValidated(n) \/ CheckBase(n) \/ Reconcile(n)
               \/ StartTarget(n) \/ Upload(n) \/ TargetOutcome(n)
               \/ RollbackTarget(n) \/ UploadSnapshot(n) \/ RollbackOutcome(n)
        PROVE  ForeignInv'
    <3>1. CASE ValidateTarget(n) BY <3>1 DEF ValidateTarget
    <3>2. CASE TargetValidated(n) BY <3>2 DEF TargetValidated
    <3>3. CASE CheckBase(n) BY <3>3 DEF CheckBase, IsFirst
    <3>4. CASE Reconcile(n) BY <3>4 DEF Reconcile, IsFirst
    <3>5. CASE StartTarget(n) BY <3>5 DEF StartTarget
    <3>6. CASE Upload(n) BY <3>6 DEF Upload
    <3>7. CASE TargetOutcome(n) BY <3>7 DEF TargetOutcome
    <3>8. CASE RollbackTarget(n) BY <3>8 DEF RollbackTarget
    <3>9. CASE UploadSnapshot(n) BY <3>9 DEF UploadSnapshot
    <3>10. CASE RollbackOutcome(n) BY <3>10 DEF RollbackOutcome
    <3> QED BY <2>27, <3>1, <3>2, <3>3, <3>4, <3>5, <3>6, <3>7, <3>8, <3>9, <3>10
  <2> QED BY <1>2, <2>1, <2>2, <2>3, <2>4, <2>5, <2>6, <2>7, <2>8, <2>9, <2>10,
      <2>11, <2>12, <2>13, <2>14, <2>15, <2>16, <2>17, <2>18, <2>19, <2>20, <2>21,
      <2>22, <2>23, <2>24, <2>25, <2>26, <2>27 DEF Worker
<1>3. CASE Crash BY <1>3 DEF Crash
<1>4. ASSUME NEW n \in Nodes, ForeignEdit(n) PROVE ForeignInv'
  BY <1>4 DEF ForeignEdit
<1>5. CASE UNCHANGED vars BY <1>5 DEF vars
<1> QED BY <1>1, <1>2, <1>3, <1>4, <1>5 DEF Next

\* A worker that met a pending pause at the boundary starts no batch.
LEMMA PauseStep ==
  TypeOK /\ ControlInv /\ PauseInv /\ [Next]_vars => PauseInv'
<1> SUFFICES ASSUME TypeOK, ControlInv, PauseInv, [Next]_vars PROVE PauseInv'
  OBVIOUS
<1> USE DEF PauseInv, TypeOK, changeVars, planVars, cmdVars, workVars, history,
        bounds, vars, Goto, Raise, Elsewhere, Fault, NoFault
<1>1. CASE Request
  <2>1. ASSUME NEW p \in Plans, UpdateDraft(p) PROVE PauseInv'
    BY <2>1 DEF UpdateDraft
  <2>2. CASE Approve BY <2>2 DEF Approve
  <2>3. CASE Cancel BY <2>3 DEF Cancel
  <2>4. CASE Pause BY <2>4 DEF Pause
  <2>5. CASE CancelPause BY <2>5 DEF CancelPause
  <2>6. ASSUME NEW n \in Nodes, Exclude(n) PROVE PauseInv'
    BY <2>6 DEF Exclude
  <2>7. ASSUME NEW c \in Commands, Enqueue(c[1], c[2]) PROVE PauseInv'
    BY <2>7 DEF Enqueue
  <2> QED BY <1>1, <2>1, <2>2, <2>3, <2>4, <2>5, <2>6, <2>7 DEF Request
<1>2. CASE Worker
  <2>1. CASE BeginRefused BY <2>1 DEF BeginRefused
  <2>2. CASE BeginValidate BY <2>2 DEF BeginValidate
  <2>3. CASE BeginChecks BY <2>3 DEF BeginChecks
  <2>4. CASE BeginRollback BY <2>4 DEF BeginRollback
  <2>5. CASE BeginRollbackTarget BY <2>5 DEF BeginRollbackTarget
  <2>6. CASE ValidationDone BY <2>6 DEF ValidationDone
  <2>7. CASE IncludeTarget BY <2>7 DEF IncludeTarget
  <2>8. CASE StartDeploying BY <2>8 DEF StartDeploying
  <2>9. CASE PrepareRollout BY <2>9 DEF PrepareRollout
  <2>10. CASE PrepareRetry BY <2>10 DEF PrepareRetry
  <2>11. CASE ReadBoundary BY <2>11 DEF ReadBoundary, Proceed
  <2>12. CASE ClaimPause BY <2>12 DEF ClaimPause
  <2>13. CASE Reread BY <2>13 DEF Reread, Proceed
  <2>14. CASE AwaitPromotion BY <2>14 DEF AwaitPromotion
  <2>15. CASE StartBatch BY <2>15 DEF StartBatch
  <2>16. CASE BatchDone BY <2>16 DEF BatchDone, BatchOver
  <2>17. CASE RetryDone BY <2>17 DEF RetryDone, BatchOver
  <2>18. CASE Complete BY <2>18 DEF Complete
  <2>19. CASE SaveVersionFails BY <2>19 DEF SaveVersionFails
  <2>20. CASE AutoRollbackDone BY <2>20 DEF AutoRollbackDone, RollbackOver
  <2>21. CASE RollbackDone BY <2>21 DEF RollbackDone, RollbackOver
  <2>22. CASE RollbackTargetDone BY <2>22 DEF RollbackTargetDone, RollbackOver
  <2>23. CASE Interrupt BY <2>23 DEF Interrupt
  <2>24. CASE Recover BY <2>24 DEF Recover
  <2>25. CASE Finish BY <2>25 DEF Finish
  <2>26. CASE Redeliver BY <2>26 DEF Redeliver
  <2>27. ASSUME NEW n \in Nodes,
               \/ ValidateTarget(n) \/ TargetValidated(n) \/ CheckBase(n) \/ Reconcile(n)
               \/ StartTarget(n) \/ Upload(n) \/ TargetOutcome(n)
               \/ RollbackTarget(n) \/ UploadSnapshot(n) \/ RollbackOutcome(n)
        PROVE  PauseInv'
    <3>1. CASE ValidateTarget(n) BY <3>1 DEF ValidateTarget
    <3>2. CASE TargetValidated(n) BY <3>2 DEF TargetValidated
    <3>3. CASE CheckBase(n) BY <3>3 DEF CheckBase
    <3>4. CASE Reconcile(n) BY <3>4 DEF Reconcile
    <3>5. CASE StartTarget(n) BY <3>5 DEF StartTarget
    <3>6. CASE Upload(n) BY <3>6 DEF Upload
    <3>7. CASE TargetOutcome(n) BY <3>7 DEF TargetOutcome
    <3>8. CASE RollbackTarget(n) BY <3>8 DEF RollbackTarget
    <3>9. CASE UploadSnapshot(n) BY <3>9 DEF UploadSnapshot
    <3>10. CASE RollbackOutcome(n) BY <3>10 DEF RollbackOutcome
    <3> QED BY <2>27, <3>1, <3>2, <3>3, <3>4, <3>5, <3>6, <3>7, <3>8, <3>9, <3>10
  <2> QED BY <1>2, <2>1, <2>2, <2>3, <2>4, <2>5, <2>6, <2>7, <2>8, <2>9, <2>10,
      <2>11, <2>12, <2>13, <2>14, <2>15, <2>16, <2>17, <2>18, <2>19, <2>20, <2>21,
      <2>22, <2>23, <2>24, <2>25, <2>26, <2>27 DEF Worker
<1>3. CASE Crash BY <1>3 DEF Crash
<1>4. ASSUME NEW n \in Nodes, ForeignEdit(n) PROVE PauseInv'
  BY <1>4 DEF ForeignEdit
<1>5. CASE UNCHANGED vars BY <1>5 DEF vars
<1> QED BY <1>1, <1>2, <1>3, <1>4, <1>5 DEF Next

\* A set of naturals that is not empty has a least element.
LEMMA NatMin ==
  ASSUME NEW T \in SUBSET Nat, T # {}
  PROVE  \E x \in T : \A y \in T : x <= y
<1> DEFINE R == OpToRel(<, Nat)
<1>1. IsWellFoundedOn(R, Nat) BY NatLessThanWellFounded
<1>2. \E x \in T : \A y \in T : ~(<<y, x>> \in R)
  <2> HIDE DEF R
  <2> QED BY <1>1, WFMin
<1>3. \A x, y \in Nat : <<y, x>> \in R <=> y < x
  BY DEF OpToRel
<1>4. PICK x \in T : \A y \in T : ~(<<y, x>> \in R) BY <1>2
<1> HIDE DEF R
<1>5. \A y \in T : ~(y < x) BY <1>3, <1>4
<1>6. \A y \in T : x <= y BY <1>5
<1> QED BY <1>6

\* The number of a batch is a natural: its size is not 0 where a target is active.
LEMMA BatchNat ==
  ASSUME TypeOK, NEW n \in Active
  PROVE  Batch(n) \in Nat
<1> DEFINE regular == Active \ canary
           before == {m \in regular : m < n}
<1>1. IsFiniteSet(Nodes)
  BY TopologyAssumption, FS_Interval DEF Nodes
<1>2. IsFiniteSet(Active) /\ IsFiniteSet(before)
  BY <1>1, FS_Subset DEF Active
<1>3. Cardinality(Active) \in Nat /\ Cardinality(before) \in Nat
  BY <1>2, FS_CardinalityType
<1>4. Cardinality(Active) # 0
  BY <1>2, FS_EmptySet
<1>5. EffectiveSize \in Nat \ {0}
  BY <1>3, <1>4, OptionAssumption DEF EffectiveSize
<1>6. Cardinality(before) \div EffectiveSize \in Nat
  BY <1>3, <1>5
<1> HIDE DEF before
<1>7. Batch(n) = IF n \in canary THEN 0
                 ELSE (IF canary = {} THEN 0 ELSE 1)
                      + Cardinality(before) \div EffectiveSize
  BY DEF Batch, before
<1> QED BY <1>6, <1>7

\* The batches are those of the plan alone.
LEMMA SameBatches == UNCHANGED <<canary, excluded>> => \A m : Batch(m)' = Batch(m)
BY DEF Batch, EffectiveSize, Active

\* The batch that starts is the lowest one that is not deployed.
LEMMA LowestBatch ==
  ASSUME TypeOK, Remaining(tstatus) # {}
  PROVE  LET b == CHOOSE b \in {Batch(n) : n \in Remaining(tstatus)} :
                    \A n \in Remaining(tstatus) : b <= Batch(n)
         IN  \A n \in Remaining(tstatus) : b <= Batch(n)
<1> DEFINE T == {Batch(n) : n \in Remaining(tstatus)}
<1>1. T \in SUBSET Nat /\ T # {}
  BY BatchNat DEF Remaining
<1>2. \E x \in T : \A y \in T : x <= y
  <2> HIDE DEF T
  <2> QED BY <1>1, NatMin
<1>3. \E x \in T : \A n \in Remaining(tstatus) : x <= Batch(n)
  BY <1>2
<1> QED BY <1>3

\* Every step keeps the order of the batches.
LEMMA OrderStep ==
  TypeOK /\ ControlInv /\ ProgressInv /\ OrderInv /\ [Next]_vars => OrderInv'
<1> SUFFICES ASSUME TypeOK, ControlInv, ProgressInv, OrderInv,
    [Next]_vars PROVE OrderInv'
  OBVIOUS
<1> USE SameBatches DEF OrderInv, Between, TypeOK, Active, changeVars, planVars,
        cmdVars, workVars, history, bounds, vars, Goto, Raise, Elsewhere, Fault,
        NoFault
<1>1. CASE Request
  <2>1. ASSUME NEW p \in Plans, UpdateDraft(p) PROVE OrderInv'
    BY <2>1 DEF UpdateDraft, ControlInv
  <2>2. CASE Approve BY <2>2 DEF Approve, Remaining
  <2>3. CASE Cancel BY <2>3 DEF Cancel, Remaining
  <2>4. CASE Pause BY <2>4 DEF Pause, Remaining
  <2>5. CASE CancelPause BY <2>5 DEF CancelPause, Remaining
  <2>6. ASSUME NEW n \in Nodes, Exclude(n) PROVE OrderInv'
    BY <2>6 DEF Exclude, ControlInv
  <2>7. ASSUME NEW c \in Commands, Enqueue(c[1], c[2]) PROVE OrderInv'
    BY <2>7 DEF Enqueue
  <2> QED BY <1>1, <2>1, <2>2, <2>3, <2>4, <2>5, <2>6, <2>7 DEF Request
<1>2. CASE Worker
  <2>1. CASE BeginRefused BY <2>1 DEF BeginRefused
  <2>2. CASE BeginValidate BY <2>2 DEF BeginValidate
  <2>3. CASE BeginChecks BY <2>3 DEF BeginChecks
  <2>4. CASE BeginRollback BY <2>4 DEF BeginRollback
  <2>5. CASE BeginRollbackTarget BY <2>5 DEF BeginRollbackTarget
  <2>6. CASE ValidationDone BY <2>6 DEF ValidationDone
  <2>7. CASE IncludeTarget BY <2>7 DEF IncludeTarget
  <2>8. CASE StartDeploying BY <2>8 DEF StartDeploying
  <2>9. CASE PrepareRollout BY <2>9 DEF PrepareRollout, Remaining, ControlInv
  <2>10. CASE PrepareRetry BY <2>10 DEF PrepareRetry, Deployments
  <2>11. CASE ReadBoundary BY <2>11 DEF ReadBoundary, Proceed, Remaining
  <2>12. CASE ClaimPause BY <2>12 DEF ClaimPause, Remaining
  <2>13. CASE Reread BY <2>13 DEF Reread, Proceed, Remaining
  <2>14. CASE AwaitPromotion BY <2>14 DEF AwaitPromotion
  <2>15. CASE StartBatch
    <3> DEFINE b == CHOOSE b \in {Batch(n) : n \in Remaining(tstatus)} :
                      \A n \in Remaining(tstatus) : b <= Batch(n)
               batch == {n \in Remaining(tstatus) : Batch(n) = b}
    <3>1. /\ tstatus' = [n \in Nodes |-> IF n \in batch THEN "deploying" ELSE tstatus[n]]
          /\ pc' = "applying" /\ todo' = batch /\ up' = up /\ up = {}
          /\ UNCHANGED <<canary, excluded, cmd>>
      BY <2>15 DEF StartBatch, ControlInv
    <3>2. \A n \in Remaining(tstatus) : b <= Batch(n)
      <4>1. Remaining(tstatus) # {} BY <2>15 DEF StartBatch
      <4> QED BY <4>1, LowestBatch
    <3> HIDE DEF b
    <3> SUFFICES ASSUME NEW n \in batch, NEW m \in Active, Batch(m) < Batch(n)
                 PROVE  tstatus'[m] = "deployed"
      BY <3>1, SameBatches
    <3>3. m \notin Remaining(tstatus)
      <4> SUFFICES ASSUME m \in Remaining(tstatus) PROVE FALSE
        OBVIOUS
      <4>1. b <= Batch(m) /\ Batch(n) = b BY <3>2
      <4>2. Batch(m) \in Nat /\ Batch(n) \in Nat BY BatchNat DEF Remaining
      <4> QED BY <4>1, <4>2
    <3>4. tstatus[m] = "deployed" BY <3>3 DEF Remaining
    <3> QED BY <3>1, <3>3, <3>4
  <2>16. CASE BatchDone BY <2>16 DEF BatchDone, Remaining, BatchOver
  <2>17. CASE RetryDone BY <2>17 DEF RetryDone
  <2>18. CASE Complete BY <2>18 DEF Complete
  <2>19. CASE SaveVersionFails BY <2>19 DEF SaveVersionFails
  <2>20. CASE AutoRollbackDone BY <2>20 DEF AutoRollbackDone
  <2>21. CASE RollbackDone BY <2>21 DEF RollbackDone
  <2>22. CASE RollbackTargetDone BY <2>22 DEF RollbackTargetDone
  <2>23. CASE Interrupt BY <2>23 DEF Interrupt
  <2>24. CASE Recover BY <2>24 DEF Recover
  <2>25. CASE Finish BY <2>25 DEF Finish
  <2>26. CASE Redeliver BY <2>26 DEF Redeliver
  <2>27. ASSUME NEW n \in Nodes,
               \/ ValidateTarget(n) \/ TargetValidated(n) \/ CheckBase(n) \/ Reconcile(n)
               \/ StartTarget(n) \/ Upload(n) \/ TargetOutcome(n)
               \/ RollbackTarget(n) \/ UploadSnapshot(n) \/ RollbackOutcome(n)
        PROVE  OrderInv'
    <3>1. CASE ValidateTarget(n) BY <3>1 DEF ValidateTarget
    <3>2. CASE TargetValidated(n) BY <3>2 DEF TargetValidated
    <3>3. CASE CheckBase(n) BY <3>3 DEF CheckBase
    <3>4. CASE Reconcile(n) BY <3>4 DEF Reconcile
    <3>5. CASE StartTarget(n) BY <3>5 DEF StartTarget, IsFirst
    <3>6. CASE Upload(n) BY <3>6 DEF Upload
    <3>7. CASE TargetOutcome(n) BY <3>7 DEF TargetOutcome, ProgressInv
    <3>8. CASE RollbackTarget(n) BY <3>8 DEF RollbackTarget
    <3>9. CASE UploadSnapshot(n) BY <3>9 DEF UploadSnapshot
    <3>10. CASE RollbackOutcome(n) BY <3>10 DEF RollbackOutcome
    <3> QED BY <2>27, <3>1, <3>2, <3>3, <3>4, <3>5, <3>6, <3>7, <3>8, <3>9, <3>10
  <2> QED BY <1>2, <2>1, <2>2, <2>3, <2>4, <2>5, <2>6, <2>7, <2>8, <2>9, <2>10,
      <2>11, <2>12, <2>13, <2>14, <2>15, <2>16, <2>17, <2>18, <2>19, <2>20, <2>21,
      <2>22, <2>23, <2>24, <2>25, <2>26, <2>27 DEF Worker
<1>3. CASE Crash BY <1>3 DEF Crash
<1>4. ASSUME NEW n \in Nodes, ForeignEdit(n) PROVE OrderInv'
  BY <1>4 DEF ForeignEdit, Remaining
<1>5. CASE UNCHANGED vars BY <1>5 DEF vars, Remaining
<1> QED BY <1>1, <1>2, <1>3, <1>4, <1>5 DEF Next

\* The inductive invariant: every part of it leans on the ones before it.
THEOREM Inductive == Spec => []IndInv
<1>1. Init => IndInv
  <2> SUFFICES ASSUME NEW p \in Plans,
                      Init,
                      canary = p.canary, excluded = p.excluded,
                      tstatus = [n \in Nodes |-> IF n \in p.excluded THEN "excluded"
                                                 ELSE "pending"],
                      snap = Nodes \ p.excluded
               PROVE  IndInv
    BY DEF Init
  <2> USE DEF Init
  <2>1. /\ canary \subseteq Slaves /\ excluded \subseteq Slaves /\ excluded \subseteq Nodes
        /\ tstatus \in [Nodes -> TargetStatuses]
        /\ \A n \in excluded : tstatus[n] = "excluded"
    BY TopologyAssumption, PlanAssumption DEF TargetStatuses, Nodes, Slaves
  <2>2. TypeOK
    <3>1. /\ remote \in [Nodes -> {"base", "candidate", "foreign"}]
          /\ snap \subseteq Nodes
      OBVIOUS
    <3>2. arg \in 0..N BY TopologyAssumption
    <3>3. commands \in 0..MaxCommands /\ pauses \in 0..MaxPauses
          /\ faults \in 0..MaxFaults /\ edits \in 0..MaxEdits
      BY BoundAssumption
    <3>4. /\ status \in Statuses /\ seen \in Statuses \cup {"none"}
          /\ pauseFlag \in BOOLEAN /\ overrun \in BOOLEAN
      BY StatusLiterals
    <3>5. /\ cmd \in ChangeActions \cup TargetActions \cup {"none"}
          /\ pc \in PCs /\ edge \in {"before", "after"}
          /\ todo \subseteq Nodes /\ up \subseteq Nodes /\ late \subseteq Nodes
      BY DEF PCs
    <3> HIDE DEF Init
    <3> QED BY <2>1, <3>1, <3>2, <3>3, <3>4, <3>5 DEF TypeOK
  <2>3. ControlInv
    BY DEF ControlInv, Between, IN_PROGRESS_STATUSES, TargetActions
  <2>4. ProgressInv /\ RetryInv /\ CompletedInv /\ StatusMatchesServer
    BY DEF ProgressInv, RetryInv, CompletedInv, StatusMatchesServer, Between
  <2>5. ExclusionInv BY <2>1 DEF ExclusionInv
  <2>6. ForeignInv /\ PauseInv /\ OrderInv
    BY DEF ForeignInv, PauseInv, OrderInv, Between
  <2> QED BY <2>2, <2>3, <2>4, <2>5, <2>6 DEF IndInv
<1>2. IndInv /\ [Next]_vars => IndInv'
  BY TypeStep, ControlStep, ExclusionStep, RetryStep, ProgressStep, CompletedStep,
     ServerStep, ForeignStep, PauseStep, OrderStep
  DEF IndInv
<1> QED BY <1>1, <1>2, PTL DEF Spec

\* The type invariant, for any number of targets and any bounds.
THEOREM TypeCorrect == Spec => []TypeOK
<1>1. IndInv => TypeOK BY DEF IndInv
<1> QED BY <1>1, Inductive, PTL

\* A change that reads 'deployed' (the transitions at the end of _deploy_rollout and
\* retry_target) has left no active server with the original configuration, through
\* any sequence of partial rollouts, retries, interruptions, exclusions, inclusions
\* and rollbacks of single targets.
THEOREM DeploymentComplete == Spec => []DeployedEverywhere
<1>1. IndInv => DeployedEverywhere
  BY DEF IndInv, CompletedInv, StatusMatchesServer, DeployedEverywhere, Active
<1> QED BY <1>1, Inductive, PTL

\* A target's status never claims more than its server has: the writes of
\* _deploy_target and _rollback_target come after the remote step, and no crash,
\* recovery (recover_change) or reconciliation turns them around.
THEOREM ServerAgrees == Spec => []StatusMatchesServer
<1>1. IndInv => StatusMatchesServer BY DEF IndInv
<1> QED BY <1>1, Inductive, PTL

\* When execute or recover_change has released a change, neither it nor one of its
\* targets reads as validating or deploying, wherever the worker died.
THEOREM ReleasedIsSettled == Spec => []IdleIsSettled
<1>1. IndInv => IdleIsSettled
  BY DEF IndInv, ControlInv, ProgressInv, IdleIsSettled, Running, IN_PROGRESS_STATUSES
<1> QED BY <1>1, Inductive, PTL

\* No server is worked on for a change that reads paused or finished, although
\* pause_change and a resume write its status beside the worker.
THEOREM RemoteWorkAnnounced == Spec => []RemoteOnlyInProgress
<1>1. IndInv => RemoteOnlyInProgress
  BY DEF IndInv, TypeOK, ControlInv, RemoteOnlyInProgress, Running, IN_PROGRESS_STATUSES
<1> QED BY <1>1, Inductive, PTL

\* Only the batch whose boundary a pause request missed starts while the request is
\* pending (_finish_pending_pause before and after every batch).
THEOREM PauseHonoured == Spec => PauseStopsRollout
<1>1. IndInv /\ [Next]_vars =>
        (pc = "starting" /\ pc' = "applying" /\ status = "pause_requested" => ~overrun)
  BY DEF IndInv, TypeOK, PauseInv
<1> QED BY <1>1, Inductive, PTL DEF Spec, PauseStopsRollout

\* The candidate replaces a foreign configuration only if that was put there after
\* the command began its checks (_ensure_base_unchanged on a first deployment,
\* _reconcile_interrupted_rollout on all others).
THEOREM ForeignEditsKept == Spec => ForeignEditsSurvive
<1> DEFINE Kept == \A n \in Nodes : remote[n] = "foreign" /\ remote'[n] = "candidate"
                                    => n \in late
<1>1. IndInv /\ [Next]_vars => [Kept]_vars
  <2> SUFFICES ASSUME IndInv, Next, NEW n \in Nodes,
                      remote[n] = "foreign", remote'[n] = "candidate"
               PROVE  n \in late
    BY DEF vars
  <2>1. PICK m \in Nodes : Upload(m)
    <3>1. CASE Request
      <4> remote' = remote
        BY <3>1 DEF Request, UpdateDraft, Approve, Cancel, Pause, CancelPause,
                    Exclude, Enqueue
      <4> QED OBVIOUS
    <3>2. CASE Worker
      <4>1. CASE IncludeTarget
        BY <4>1 DEF IncludeTarget, CaptureSnapshot, IndInv, TypeOK
      <4>2. ASSUME NEW m \in Nodes, UploadSnapshot(m) PROVE FALSE
        BY <4>2 DEF UploadSnapshot, IndInv, TypeOK
      <4>3. CASE UNCHANGED remote BY <4>3
      <4> QED
        BY <3>2, <4>1, <4>2, <4>3
        DEF Worker, BeginRefused, BeginValidate, BeginChecks, BeginRollback,
            BeginRollbackTarget, ValidationDone, StartDeploying, PrepareRollout,
            PrepareRetry, ReadBoundary, ClaimPause, Reread, AwaitPromotion, StartBatch,
            BatchDone, RetryDone, Complete, SaveVersionFails, AutoRollbackDone,
            RollbackDone, RollbackTargetDone, Interrupt, Recover, Finish, Redeliver,
            ValidateTarget, TargetValidated, CheckBase, Reconcile, StartTarget,
            TargetOutcome, RollbackTarget, RollbackOutcome
    <3>3. CASE Crash BY <3>3 DEF Crash
    <3>4. ASSUME NEW m \in Nodes, ForeignEdit(m) PROVE FALSE
      BY <3>4 DEF ForeignEdit, IndInv, TypeOK
    <3> QED BY <3>1, <3>2, <3>3, <3>4 DEF Next
  <2>2. m = n
    BY <2>1 DEF Upload, IndInv, TypeOK
  <2>3. n \in Active
    BY <2>1, <2>2 DEF Upload, IndInv, ProgressInv, ExclusionInv, Active
  <2> QED BY <2>1, <2>2, <2>3 DEF Upload, IndInv, ForeignInv
<1> QED BY <1>1, Inductive, PTL DEF Spec, ForeignEditsSurvive

\* Batches come in position order behind the canaries: _deploy_batch takes up a target
\* only when all earlier batches are deployed, at whatever batch an interrupted, paused
\* or partly rolled back rollout resumes.
THEOREM BatchesInOrder == Spec => CanariesFirst
<1> DEFINE Order == \A n \in up' \ up : cmd \in Deployments /\ pc = "applying" =>
                      \A m \in Active : Batch(m) < Batch(n) =>
                        tstatus[m] = "deployed" /\ remote[m] # "base"
<1>1. IndInv /\ [Next]_vars => [Order]_vars
  <2> SUFFICES ASSUME IndInv, Next,
                      NEW n \in up' \ up, cmd \in Deployments, pc = "applying",
                      NEW m \in Active, Batch(m) < Batch(n)
               PROVE  tstatus[m] = "deployed" /\ remote[m] # "base"
    BY DEF vars
  <2>1. n \in todo
    <3>1. CASE Request
      <4> up' = up
        BY <3>1 DEF Request, UpdateDraft, Approve, Cancel, Pause, CancelPause, Exclude,
                    Enqueue, workVars
      <4> QED OBVIOUS
    <3>2. CASE Worker
      <4>1. ASSUME NEW k \in Nodes, StartTarget(k) PROVE n \in todo
        BY <4>1 DEF StartTarget, IsFirst
      <4>2. ASSUME NEW k \in Nodes, TargetOutcome(k) PROVE n \in todo
        BY <4>2 DEF TargetOutcome
      <4>3. CASE up' = up \/ up' = {} BY <4>3
      <4>4. pc \notin {"queued", "validating", "checking", "rolling"}
        OBVIOUS
      <4> QED
        BY <3>2, <4>1, <4>2, <4>3, <4>4
        DEF Worker, BeginRefused, BeginValidate, BeginChecks, BeginRollback,
            BeginRollbackTarget, ValidationDone, IncludeTarget, StartDeploying,
            PrepareRollout, PrepareRetry, ReadBoundary, ClaimPause, Reread,
            AwaitPromotion, StartBatch, BatchDone, RetryDone, Complete, SaveVersionFails,
            AutoRollbackDone, RollbackDone, RollbackTargetDone, RollbackOver, Interrupt,
            Recover, Finish, Redeliver, ValidateTarget, TargetValidated, CheckBase,
            Reconcile, Upload, RollbackTarget, UploadSnapshot, RollbackOutcome,
            workVars, Goto, Raise
    <3>3. CASE Crash BY <3>3 DEF Crash, Goto
    <3>4. ASSUME NEW k \in Nodes, ForeignEdit(k) PROVE FALSE
      BY <3>4 DEF ForeignEdit, workVars
    <3> QED BY <3>1, <3>2, <3>3, <3>4 DEF Next
  <2>2. tstatus[m] = "deployed" BY <2>1 DEF IndInv, OrderInv
  <2> QED BY <2>2 DEF IndInv, StatusMatchesServer, Active
<1> QED BY <1>1, Inductive, PTL DEF Spec, CanariesFirst

=============================================================================
