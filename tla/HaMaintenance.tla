--------------------------- MODULE HaMaintenance ---------------------------
(***************************************************************************)
(* Planned maintenance of the nodes of a Keepalived cluster                *)
(* (app/modules/service/ha_maintenance.py): a plan is reviewed, approved in *)
(* the Change Center, the node drained, handed over, reviewed again and     *)
(* returned.  Operations workers execute one action at a time under the    *)
(* lock of the cluster; an action that was interrupted is never repeated.   *)
(* Every other change of the cluster goes through the guards of             *)
(* app/modules/service/ha_mutation.py, which refuse it while a node is      *)
(* reserved.  The operations queue (OperationQueue) is what may deliver a   *)
(* task again, at any time until its row has ended.                         *)
(***************************************************************************)
EXTENDS Naturals

CONSTANTS ClusterNodes,
          NoNode,          \* the one of a plan that is not made yet
          LastPlan,        \* plans are numbered in the order of their creation
          MaxActions,      \* bound: tasks
          MaxWrites,       \* bound: other changes of the cluster
          MaxMishaps       \* bound: remote calls that fail or whose answer is lost, workers that
                           \* die, and deliveries to a second worker before the first one began

ASSUME MaintenanceAssumption ==
    /\ LastPlan \in Nat /\ MaxActions \in Nat /\ MaxWrites \in Nat /\ MaxMishaps \in Nat
    /\ NoNode \notin ClusterNodes

Plans == 1..LastPlan

VARIABLES
    plan,     \* plan[p]: the HaMaintenancePlan row with its payload
    change,   \* change[p]: the ConfigChange row that carries its approval
    tasks,    \* the InstallationTasks rows, in the order of their creation
    work,     \* the task that is executed under the lock of the cluster, and how far it is
    waiting,  \* tasks that a second worker has read before they were started
    writing,  \* another change of the cluster holds the locks
    running,  \* running[n]: Keepalived runs on the node
    masked,   \* masked[n]: its unit is masked
    config,   \* what the configuration of the cluster is the digest of
    spare     \* what is left of each bound

haRows == <<plan, change, tasks>>
haHost == <<running, masked, config>>
haVars == <<plan, change, tasks, work, waiting, writing, running, masked, config, spare>>

TaskIds  == 1..MaxActions
NoReview == [returning |-> FALSE, config |-> 0]

\* The statuses in which assert_idle keeps everybody else out of the cluster.
ReservedStatuses == {"draining", "ready", "unknown", "resuming", "return-reviewed"}
PlanStatuses == ReservedStatuses \cup
    {"none", "draft", "reviewed", "review-failed", "completed"}
CancellableStatuses == {"draft", "validation_failed", "pending_approval", "approved"}

Actions == {"review", "drain", "verify", "review-return", "resume"}

Reviews  == [returning : BOOLEAN, config : 0..(MaxWrites + 1)]
PlanRows == [status : PlanStatuses, node : ClusterNodes \cup {NoNode}, review : Reviews,
             journal : {"none", "requested", "held", "restoring", "restored"},
             drained : BOOLEAN, task : {0} \cup TaskIds]
ApprovalRows == [status : CancellableStatuses \cup
                     {"cancelled", "deploying", "paused", "deployment_interrupted", "deployed"},
                 approver : BOOLEAN, task : {0} \cup TaskIds]
\* What is left of a task that has ended is not read any more.
ActionRows == [status : {"none", "ended"}] \cup
              [status : {"created", "started"}, plan : Plans, action : Actions]

HaTypeOK ==
    /\ plan \in [Plans -> PlanRows]
    /\ change \in [Plans -> ApprovalRows]
    /\ tasks \in [TaskIds -> ActionRows]
    /\ running \in [ClusterNodes -> BOOLEAN] /\ masked \in [ClusterNodes -> BOOLEAN]
    /\ config \in 1..(MaxWrites + 1)

NoPlan   == [status |-> "none", node |-> NoNode,
             review |-> NoReview, journal |-> "none", drained |-> FALSE, task |-> 0]
NoChange == [status |-> "draft", approver |-> FALSE, task |-> 0]
Resting  == [step |-> "idle", task |-> 0]

HaInit ==
    /\ plan = [p \in Plans |-> NoPlan]
    /\ change = [p \in Plans |-> NoChange]
    /\ tasks = [t \in TaskIds |-> [status |-> "none"]]
    /\ work = Resting /\ waiting = {} /\ writing = FALSE
    /\ running = [n \in ClusterNodes |-> TRUE]
    /\ masked = [n \in ClusterNodes |-> FALSE]
    /\ config = 1
    /\ spare = [writes |-> MaxWrites, mishaps |-> MaxMishaps]

Spends(kind) == spare[kind] > 0 /\ spare' = [spare EXCEPT ![kind] = @ - 1]

\* Workers and writers hold the lock of the cluster while they work; a worker waits for it,
\* everybody else is refused.
Locked == writing \/ work # Resting

\* Mutant: a plan that waits for its next action reserves nothing.
ReservesAtWork(p) == plan[p].task # 0

\* assert_idle: no other plan has the cluster reserved.
Reserves(p) == plan[p].status \in ReservedStatuses \/ plan[p].task # 0
Idle(others) == \A p \in others : ~Reserves(p)

Others(n) == ClusterNodes \ {n}
OthersRun(n) == \A m \in Others(n) : running[m]

-----------------------------------------------------------------------------
(* Requests of users. *)

CreatePlan(p, n) ==
    /\ plan[p].status = "none" /\ \A q \in 1..(p - 1) : plan[q].status # "none"
    /\ plan' = [plan EXCEPT ![p].status = "draft", ![p].node = n]
    /\ UNCHANGED <<change, tasks, work, waiting, writing, haHost, spare>>

Allowed(action) ==
    CASE action = "review"        -> {"draft", "reviewed", "review-failed"}
      [] action = "drain"         -> {"reviewed"}
      [] action = "verify"        -> {"draining", "unknown"}
      [] action = "review-return" -> {"ready", "draining", "unknown", "return-reviewed"}
      [] action = "resume"        -> {"return-reviewed"}

Approved(p) == change[p].status = "approved" /\ change[p].approver

\* Under the topology lock and the lock of the cluster: the three writes are not seen apart.
EnqueueAction(p, action) ==
    /\ ~Locked
    /\ plan[p].task = 0
    /\ change[p].status # "cancelled" /\ plan[p].status \in Allowed(action)
    /\ action \in {"drain", "resume"} => Approved(p)
    /\ Idle(Plans \ {p})
    /\ \E t \in TaskIds :
          /\ tasks[t].status = "none" /\ \A u \in 1..(t - 1) : tasks[u].status # "none"
          /\ tasks' = [tasks EXCEPT ![t] = [status |-> "created", plan |-> p, action |-> action]]
          /\ plan' = [plan EXCEPT ![p].task = t]
          /\ change' = [change EXCEPT ![p].task = t]
    /\ UNCHANGED <<work, waiting, writing, haHost, spare>>

\* The page asks for an idle change first; the public API does not.
Approve(p) ==
    /\ change[p].status = "pending_approval"
    /\ change' = [change EXCEPT ![p].status = "approved", ![p].approver = TRUE]
    /\ UNCHANGED <<plan, tasks, work, waiting, writing, haHost, spare>>

Cancel(p) ==
    /\ change' = [change EXCEPT ![p].status = "cancelled"]
    /\ UNCHANGED <<plan, tasks, work, waiting, writing, haHost, spare>>

\* A drained node requires a reviewed return; its reservation cannot be cancelled.
CancelOnPage(p) ==
    /\ plan[p].status # "none" /\ change[p].task = 0
    /\ ~plan[p].drained /\ plan[p].status \notin ReservedStatuses
    /\ change[p].status \in CancellableStatuses
    /\ Cancel(p)

CancelByApi(p) ==
    /\ plan[p].status # "none" /\ change[p].status \in CancellableStatuses
    /\ Cancel(p)

-----------------------------------------------------------------------------
(* Other changes of the cluster: its configuration, or Keepalived on a node.  They look for a *)
(* reservation under the topology lock, which keeps new ones out, and again under the lock of *)
(* the cluster.                                                                              *)

WriterEnters ==
    /\ spare["writes"] > 0
    /\ ~Locked /\ Idle(Plans)
    /\ writing' = TRUE
    /\ UNCHANGED <<haRows, work, waiting, haHost, spare>>

Write ==
    /\ writing /\ writing' = FALSE
    /\ Spends("writes")
    /\ \/ config' = config + 1 /\ UNCHANGED running
       \/ \E n \in ClusterNodes :
             /\ masked[n] => running[n]
             /\ running' = [running EXCEPT ![n] = ~@]
             /\ UNCHANGED config
    /\ UNCHANGED <<haRows, work, waiting, masked>>

\* A node under maintenance is restarted; systemd starts what is not masked.
Reboot(n) ==
    /\ \E p \in Plans : plan[p].node = n /\ plan[p].status \in ReservedStatuses
    /\ running[n] = masked[n]
    /\ running' = [running EXCEPT ![n] = ~masked[n]]
    /\ UNCHANGED <<haRows, work, waiting, writing, masked, config, spare>>

-----------------------------------------------------------------------------
(* The worker: execute, process and execute_step. *)

PlanOf == tasks[work.task].plan
At(s)  == work.step = s
Go(s)  == work' = [work EXCEPT !.step = s]
NodeOf == plan[PlanOf].node

\* The payload is read with the delivery, before the lock is there: a second worker may have
\* read it when the task was not started yet.
ReadEarly(t) ==
    /\ tasks[t].status = "created" /\ t \notin waiting
    /\ Spends("mishaps")
    /\ waiting' = waiting \cup {t}
    /\ UNCHANGED <<haRows, work, writing, haHost>>

Begin(t) ==
    /\ ~Locked
    /\ \/ tasks[t].status = "created" /\ UNCHANGED waiting
       \/ tasks[t].status = "started" /\ t \in waiting /\ waiting' = waiting \ {t}
    /\ tasks' = [tasks EXCEPT ![t].status = "started"]
    /\ work' = [step |-> "begun", task |-> t]
    /\ UNCHANGED <<plan, change, writing, haHost, spare>>

\* Interrupted maintenance is not replayed.
Interrupted(t) ==
    /\ ~Locked /\ tasks[t].status = "started"
    /\ LET p == tasks[t].plan
       IN  /\ plan' = [plan EXCEPT ![p].status = "unknown", ![p].task = 0]
           /\ change' = [change EXCEPT ![p].status = "deployment_interrupted", ![p].task = 0]
    /\ tasks' = [tasks EXCEPT ![t] = [status |-> "ended"]] /\ waiting' = waiting \ {t}
    /\ UNCHANGED <<work, writing, haHost, spare>>

\* process gives up the plan if the task owns it, and the task's row is written after that.
Released(row) == [row EXCEPT !.task = IF @ = work.task THEN 0 ELSE @]

Succeed(p, planRow, changeRow) ==
    /\ plan' = [plan EXCEPT ![p] = Released(planRow)]
    /\ change' = [change EXCEPT ![p] = Released(changeRow)]
    /\ Go("ending")

Fail ==
    LET p == PlanOf
        unsure == plan[p].status \in ReservedStatuses \/ plan[p].drained
    IN  Succeed(p,
            [plan[p] EXCEPT !.status = IF unsure THEN "unknown" ELSE "review-failed"],
            [change[p] EXCEPT !.status = IF unsure THEN "deployment_interrupted"
                                         ELSE "validation_failed"])

EndTask ==
    /\ At("ending")
    /\ tasks' = [tasks EXCEPT ![work.task] = [status |-> "ended"]]
    /\ work' = Resting /\ waiting' = waiting \ {work.task}
    /\ UNCHANGED <<plan, change, writing, haHost, spare>>

Owns   == plan[PlanOf].task = work.task
Asked  == tasks[work.task].action

\* Mutant: the node itself counts among those that survive.
ViewableAny(returning) == returning \/ \E n \in ClusterNodes : running[n]

\* ka_view: who survives runs, before a drain.  Its fingerprint is what a later action compares.
Viewable(returning) == returning \/ OthersRun(NodeOf)
StillAsReviewed(returning) == Viewable(returning) /\ plan[PlanOf].review.config = config

Review(returning) ==
    LET p == PlanOf
    IN  /\ At("begun") /\ Owns
        /\ Asked = IF returning THEN "review-return" ELSE "review"
        /\ Viewable(returning)
        /\ plan' = [plan EXCEPT ![p].review = [returning |-> returning, config |-> config],
                    ![p].status = IF returning THEN "return-reviewed" ELSE "reviewed"]
        /\ change' = [change EXCEPT ![p].status = "pending_approval"]
        /\ Go("reviewed")
        /\ UNCHANGED <<tasks, waiting, writing, haHost, spare>>

\* The approval of an earlier review is withdrawn in a write of its own.
WithdrawApproval ==
    /\ At("reviewed")
    /\ Succeed(PlanOf, plan[PlanOf], [change[PlanOf] EXCEPT !.approver = FALSE])
    /\ UNCHANGED <<tasks, waiting, writing, haHost, spare>>

\* What the approval was given for is still so.
MayProceed(returning) ==
    LET p == PlanOf
    IN  /\ Idle(Plans \ {p}) /\ Approved(p)
        /\ plan[p].review.returning = returning /\ StillAsReviewed(returning)

StartDrain ==
    LET p == PlanOf
    IN  /\ At("begun") /\ Owns /\ Asked = "drain" /\ MayProceed(FALSE)
        /\ plan' = [plan EXCEPT ![p].status = "draining"]
        /\ change' = [change EXCEPT ![p].status = "deploying"]
        /\ Go("draining")
        /\ UNCHANGED <<tasks, waiting, writing, haHost, spare>>

StartReturn ==
    LET p == PlanOf
    IN  /\ At("begun") /\ Owns /\ Asked = "resume" /\ MayProceed(TRUE)
        /\ plan' = [plan EXCEPT ![p].status = "resuming"]
        /\ change' = [change EXCEPT ![p].status = "deploying"]
        /\ Go(IF plan[p].journal = "none" THEN "starting" ELSE "restoring")
        /\ UNCHANGED <<tasks, waiting, writing, haHost, spare>>

StartVerify ==
    /\ At("begun") /\ Owns /\ Asked = "verify" /\ plan[PlanOf].review # NoReview
    /\ Go("observing")
    /\ UNCHANGED <<haRows, waiting, writing, haHost, spare>>

\* A check of execute_step fails, and nothing has been done to the node.
Refused ==
    /\ At("begun")
    /\ \/ ~Owns
       \/ Asked = "review" /\ ~Viewable(FALSE)
       \/ Asked = "drain" /\ ~MayProceed(FALSE)
       \/ Asked = "resume" /\ ~MayProceed(TRUE)
       \/ Asked = "verify" /\ plan[PlanOf].review = NoReview
    /\ Fail
    /\ UNCHANGED <<tasks, waiting, writing, haHost, spare>>

\* ka_hold: the intent is saved before the first remote write.
JournalHold ==
    LET p == PlanOf
    IN  /\ At("draining")
        /\ IF plan[p].journal = "none" /\ masked[NodeOf]
           THEN Fail
           ELSE /\ plan' = [plan EXCEPT ![p].journal = IF @ = "none" THEN "requested" ELSE @]
                /\ Go("holding")
                /\ UNCHANGED change
        /\ UNCHANGED <<tasks, waiting, writing, haHost, spare>>

\* A remote call has its effect; its answer may be lost.
Answered(next) ==
    \/ Go(next) /\ UNCHANGED <<plan, change, spare>>
    \/ Spends("mishaps") /\ Fail

Mask ==
    /\ At("holding")
    /\ masked' = [masked EXCEPT ![NodeOf] = TRUE]
    /\ Answered("masked")
    /\ UNCHANGED <<tasks, waiting, writing, running, config>>

JournalHeld ==
    /\ At("masked")
    /\ plan' = [plan EXCEPT ![PlanOf].journal = "held"]
    /\ Go("checking")
    /\ UNCHANGED <<change, tasks, waiting, writing, haHost, spare>>

\* Masking may have taken a while: the survivors are looked at again.
CheckAgain ==
    /\ At("checking")
    /\ IF StillAsReviewed(FALSE)
       THEN Go("stopping") /\ UNCHANGED <<plan, change>>
       ELSE Fail
    /\ UNCHANGED <<tasks, waiting, writing, haHost, spare>>

StopKeepalived ==
    /\ At("stopping")
    /\ running' = [running EXCEPT ![NodeOf] = FALSE]
    /\ Answered("observing")
    /\ UNCHANGED <<tasks, waiting, writing, masked, config>>

\* observe: the node is handed over only when it is seen to be drained and held.
Drained(p) ==
    /\ ~running[plan[p].node] /\ OthersRun(plan[p].node)
    /\ plan[p].journal = "held" /\ masked[plan[p].node]

HandOver ==
    LET p == PlanOf
    IN  /\ At("observing")
        /\ IF Drained(p)
           THEN Succeed(p, [plan[p] EXCEPT !.status = "ready", !.drained = TRUE],
                              [change[p] EXCEPT !.status = "paused"])
           ELSE Fail
        /\ UNCHANGED <<tasks, waiting, writing, haHost, spare>>

\* ka_restore, ka_action and the observation of the return.
JournalRestore ==
    /\ At("restoring")
    /\ plan' = [plan EXCEPT ![PlanOf].journal = "restoring"]
    /\ Go("unmasking")
    /\ UNCHANGED <<change, tasks, waiting, writing, haHost, spare>>

Unmask ==
    /\ At("unmasking")
    /\ masked' = [masked EXCEPT ![NodeOf] = FALSE]
    /\ Answered("unmasked")
    /\ UNCHANGED <<tasks, waiting, writing, running, config>>

JournalRestored ==
    /\ At("unmasked")
    /\ plan' = [plan EXCEPT ![PlanOf].journal = "restored"]
    /\ Go("starting")
    /\ UNCHANGED <<change, tasks, waiting, writing, haHost, spare>>

StartKeepalived ==
    /\ At("starting")
    /\ IF masked[NodeOf]
       THEN Fail /\ UNCHANGED <<running, spare>>
       ELSE running' = [running EXCEPT ![NodeOf] = TRUE] /\ Answered("watching")
    /\ UNCHANGED <<tasks, waiting, writing, masked, config>>

Complete ==
    LET p == PlanOf
    IN  /\ At("watching")
        /\ IF \A n \in ClusterNodes : running[n]
           THEN Succeed(p, [plan[p] EXCEPT !.status = "completed"],
                              [change[p] EXCEPT !.status = "deployed"])
           ELSE Fail
        /\ UNCHANGED <<tasks, waiting, writing, haHost, spare>>

\* A remote call fails and did nothing, sessions do not drain in time, or a check of
\* readiness fails after the return.
RemoteFails ==
    /\ work.step \in {"begun", "draining", "holding", "checking", "stopping", "observing",
                           "unmasking", "starting", "watching"}
    /\ Spends("mishaps")
    /\ Fail
    /\ UNCHANGED <<tasks, waiting, writing, haHost>>

Dies ==
    /\ work # Resting
    /\ Spends("mishaps")
    /\ work' = Resting
    /\ UNCHANGED <<haRows, waiting, writing, haHost>>

-----------------------------------------------------------------------------

HaNext ==
    \/ \E p \in Plans :
          \/ \E n \in ClusterNodes : CreatePlan(p, n)
          \/ \E action \in Actions : EnqueueAction(p, action)
          \/ Approve(p) \/ CancelOnPage(p) \/ CancelByApi(p)
    \/ WriterEnters \/ Write
    \/ \E n \in ClusterNodes : Reboot(n)
    \/ \E t \in TaskIds : ReadEarly(t) \/ Begin(t) \/ Interrupted(t)
    \/ EndTask
    \/ \E returning \in BOOLEAN : Review(returning)
    \/ WithdrawApproval
    \/ StartDrain \/ StartReturn \/ StartVerify \/ Refused
    \/ JournalHold \/ Mask \/ JournalHeld \/ CheckAgain \/ StopKeepalived \/ HandOver
    \/ JournalRestore \/ Unmask \/ JournalRestored \/ StartKeepalived \/ Complete
    \/ RemoteFails \/ Dies

HaSpec == HaInit /\ [][HaNext]_haVars

-----------------------------------------------------------------------------

\* A node that was handed over is out of service and stays so, also when it is restarted, and
\* every other node of its cluster is in service: nothing else changes the cluster, however
\* the drain was interrupted, verified later or delivered again.
HandoverHeld ==
    \A p \in Plans : plan[p].status = "ready" => Drained(p)

\* "A drained node requires a reviewed return; its reservation cannot be cancelled": the plan of
\* a node out of service can still take the actions that return it.
ReturnStaysOpen ==
    \A p \in Plans : plan[p].drained /\ Reserves(p) => change[p].status # "cancelled"

\* Maintenance stops Keepalived only on the node of a plan whose last review describes the
\* configuration as it is, was approved, and while all other nodes run.
StopsAsReviewed ==
    [][\A n \in ClusterNodes : running[n] /\ ~running'[n] =>
          \/ writing
          \/ masked[n] /\ \E p \in Plans :
                /\ plan[p].node = n /\ plan[p].review.config = config /\ OthersRun(n)
                /\ work' # work => change[p].approver]_haVars

\* A node is stopped only as it was reviewed, and held as it was handed over.
StoppedAndHeld == []HandoverHeld /\ StopsAsReviewed

=============================================================================
