------------------------ MODULE HaMaintenanceProofs ------------------------
(***************************************************************************)
(* Proofs about planned maintenance, for any nodes and any numbers of      *)
(* plans, tasks, other changes of the cluster and mishaps.                 *)
(***************************************************************************)
EXTENDS HaMaintenance, TLAPS

Draining  == {"draining", "holding", "masked", "checking", "stopping"}
Returning == {"restoring", "unmasking", "unmasked", "starting", "watching"}
Working   == Draining \cup Returning
BusySteps == Working \cup {"begun", "reviewed", "observing", "ending"}

\* What the worker works on, if it does.
HeldTask(w, rows) ==
    /\ w \in [step : BusySteps, task : TaskIds]
    /\ rows[w.task].status = "started"
WorkTyped ==
    /\ work = Resting \/ HeldTask(work, tasks)
    /\ waiting \in SUBSET TaskIds
    /\ writing \in BOOLEAN
    /\ spare \in [writes : Nat, mishaps : Nat] /\ config + spare.writes <= MaxWrites + 1

\* A plan that is not made has no task, and the task of a plan is the plan's.
TasksOfPlans ==
    /\ \A p \in Plans : plan[p].status = "none" => plan[p].task = 0
    /\ \A p \in Plans : plan[p].task # 0 =>
          tasks[plan[p].task].status \in {"created", "started"} /\ tasks[plan[p].task].plan = p
    /\ \A p \in Plans : plan[p].status # "none" => plan[p].node \in ClusterNodes
    /\ \A t \in TaskIds : tasks[t].status \in {"created", "started"} =>
          plan[tasks[t].plan].status # "none"

\* Whoever writes has the cluster for himself.
WritersAlone == writing => work = Resting /\ \A p \in Plans : ~Reserves(p)

\* So has the plan that is drained or returned, which its task still owns.
WorkersAlone ==
    /\ work.step \in Working => \A p \in Plans \ {PlanOf} : ~Reserves(p)
    /\ work.step \in Working \cup {"observing"} => plan[PlanOf].task = work.task
    /\ work.step = "ending" => plan[PlanOf].task # work.task
    /\ work.step \in Draining => plan[PlanOf].status = "draining" /\ Asked = "drain"
    /\ work.step \in Returning => plan[PlanOf].status = "resuming"

\* Nothing that a drain was approved for changes while it is under way.
DrainsAsReviewed ==
    /\ work.step \in Draining =>
          /\ plan[PlanOf].review.config = config
          /\ OthersRun(NodeOf) /\ change[PlanOf].approver
    /\ work.step \in {"masked", "checking", "stopping"} => masked[NodeOf]
    /\ work.step = "watching" => ~masked[NodeOf]

\* One node is masked at most, for a plan that reserves the cluster; what is still running on
\* it may be stopped, and nobody else has a task.
MasksReserved ==
    \A n \in ClusterNodes : masked[n] =>
       /\ \E p \in Plans : /\ plan[p].node = n /\ plan[p].status \in ReservedStatuses
                           /\ plan[p].review.config = config
       /\ \A m \in ClusterNodes : masked[m] => m = n
       /\ running[n] => OthersRun(n)
       /\ \A p \in Plans : plan[p].task # 0 \/ plan[p].status = "ready" => plan[p].node = n
       /\ \A p \in Plans : plan[p].task # 0 => tasks[plan[p].task].action # "review"

HaInv ==
    /\ HaTypeOK /\ WorkTyped
    /\ TasksOfPlans /\ WritersAlone /\ WorkersAlone /\ DrainsAsReviewed /\ MasksReserved
    /\ HandoverHeld

-----------------------------------------------------------------------------
(* The rows. *)

\* The fields of a plan, an approval and a task.
LEMMA PlanFields ==
  ASSUME NEW e \in PlanRows
  PROVE  /\ e.status \in PlanStatuses /\ e.node \in ClusterNodes \cup {NoNode}
         /\ e.review \in Reviews /\ e.drained \in BOOLEAN /\ e.task \in {0} \cup TaskIds
         /\ e.journal \in {"none", "requested", "held", "restoring", "restored"}
BY DEF PlanRows

LEMMA ActionFields ==
  ASSUME NEW e \in ActionRows
  PROVE  /\ e.status \in {"none", "ended", "created", "started"}
         /\ e.status \in {"created", "started"} => e.plan \in Plans /\ e.action \in Actions
BY DEF ActionRows

\* A task is never named 0, and the step of a worker at rest is not a busy one.
LEMMA Basics ==
  /\ 0 \notin TaskIds /\ \A t \in TaskIds : t # 0
  /\ "idle" \notin BusySteps /\ Resting.step = "idle"
  /\ Working \subseteq BusySteps /\ Draining \subseteq Working /\ Returning \subseteq Working
  /\ NoPlan \in PlanRows /\ NoChange \in ApprovalRows
<1>1. 0 \notin TaskIds /\ \A t \in TaskIds : t # 0
  BY MaintenanceAssumption DEF TaskIds
<1>2. /\ "idle" \notin BusySteps /\ Resting.step = "idle"
      /\ Working \subseteq BusySteps /\ Draining \subseteq Working /\ Returning \subseteq Working
  BY DEF BusySteps, Working, Draining, Returning, Resting
<1>3. NoReview \in Reviews
  BY MaintenanceAssumption DEF NoReview, Reviews
<1>4. NoPlan \in PlanRows
  BY <1>3 DEF NoPlan, PlanRows, PlanStatuses
<1>5. NoChange \in ApprovalRows
  BY DEF NoChange, ApprovalRows, CancellableStatuses
<1> QED BY <1>1, <1>2, <1>4, <1>5

\* What the writes of a row leave alone.
SamePlan(n, e) == n.node = e.node /\ n.task = e.task

LEMMA StatusWrite ==
  ASSUME NEW e \in PlanRows, NEW s \in PlanStatuses
  PROVE  LET n == [e EXCEPT !.status = s] IN
         /\ n \in PlanRows /\ n.status = s /\ SamePlan(n, e)
         /\ n.review = e.review /\ n.journal = e.journal /\ n.drained = e.drained
BY DEF PlanRows, SamePlan

LEMMA JournalWrite ==
  ASSUME NEW e \in PlanRows,
         NEW j \in {"none", "requested", "held", "restoring", "restored"}
  PROVE  LET n == [e EXCEPT !.journal = j] IN
         /\ n \in PlanRows /\ n.journal = j /\ SamePlan(n, e)
         /\ n.status = e.status /\ n.review = e.review /\ n.drained = e.drained
BY DEF PlanRows, SamePlan

LEMMA ReviewWrite ==
  ASSUME NEW e \in PlanRows, NEW v \in Reviews, NEW s \in PlanStatuses
  PROVE  LET n == [e EXCEPT !.review = v, !.status = s] IN
         /\ n \in PlanRows /\ n.review = v /\ n.status = s /\ SamePlan(n, e)
         /\ n.journal = e.journal /\ n.drained = e.drained
BY DEF PlanRows, SamePlan

LEMMA ReadyWrite ==
  ASSUME NEW e \in PlanRows
  PROVE  LET n == [e EXCEPT !.status = "ready", !.drained = TRUE] IN
         /\ n \in PlanRows /\ n.status = "ready" /\ SamePlan(n, e)
         /\ n.journal = e.journal /\ n.review = e.review
BY DEF PlanRows, PlanStatuses, ReservedStatuses, SamePlan

LEMMA ReleaseWrite ==
  ASSUME NEW e \in PlanRows, NEW t \in TaskIds
  PROVE  LET n == [e EXCEPT !.task = IF @ = t THEN 0 ELSE @] IN
         /\ n \in PlanRows /\ n.task # t /\ n.task \in {0, e.task} /\ n.node = e.node
         /\ n.status = e.status /\ n.journal = e.journal /\ n.review = e.review
         /\ n.drained = e.drained
<1> DEFINE k == IF e.task = t THEN 0 ELSE e.task
<1>1. k \in {0} \cup TaskIds /\ k # t /\ k \in {0, e.task}
  BY PlanFields, Basics
<1> HIDE DEF k
<1>2. LET n == [e EXCEPT !.task = k] IN
      /\ n \in PlanRows /\ n.task = k /\ n.node = e.node
      /\ n.status = e.status /\ n.journal = e.journal /\ n.review = e.review
      /\ n.drained = e.drained
  BY <1>1 DEF PlanRows
<1> QED BY <1>1, <1>2 DEF k

LEMMA TaskWrite ==
  ASSUME NEW e \in PlanRows, NEW t \in {0} \cup TaskIds
  PROVE  LET n == [e EXCEPT !.task = t] IN
         /\ n \in PlanRows /\ n.task = t /\ n.node = e.node
         /\ n.status = e.status /\ n.journal = e.journal /\ n.review = e.review
BY DEF PlanRows

\* The same for the change that carries the approval.
LEMMA ApprovalWrites ==
  ASSUME NEW e \in ApprovalRows, NEW t \in {0} \cup TaskIds,
         NEW s \in CancellableStatuses \cup
               {"cancelled", "deploying", "paused", "deployment_interrupted", "deployed"}
  PROVE  /\ [e EXCEPT !.status = s] \in ApprovalRows
         /\ [e EXCEPT !.status = s].approver = e.approver
         /\ [e EXCEPT !.status = s, !.approver = TRUE] \in ApprovalRows
         /\ [e EXCEPT !.status = s, !.approver = TRUE].approver
         /\ [e EXCEPT !.approver = FALSE] \in ApprovalRows
         /\ [e EXCEPT !.task = t] \in ApprovalRows
         /\ [e EXCEPT !.task = t].approver = e.approver
         /\ [e EXCEPT !.status = s, !.task = t] \in ApprovalRows
BY DEF ApprovalRows

-----------------------------------------------------------------------------
(* The steps of the worker.  Each of them writes the row of one plan, and   *)
(* perhaps that of its change, and goes on.                                 *)

\* A mishap takes nothing from the other changes of the cluster.
MishapsOnly ==
  spare' \in [writes : Nat, mishaps : Nat] /\ spare'.writes = spare.writes

LEMMA MishapSpent ==
  ASSUME spare \in [writes : Nat, mishaps : Nat], Spends("mishaps") \/ spare' = spare
  PROVE  MishapsOnly
<1>1. CASE spare' = spare BY <1>1 DEF MishapsOnly
<1>2. CASE Spends("mishaps")
  <2>1. spare["mishaps"] > 0 /\ spare' = [spare EXCEPT !["mishaps"] = @ - 1]
    BY <1>2 DEF Spends
  <2>2. spare.mishaps \in Nat /\ spare.mishaps > 0 BY <2>1
  <2>3. spare.mishaps - 1 \in Nat BY <2>2
  <2> QED BY <2>1, <2>3 DEF MishapsOnly
<1> QED BY <1>1, <1>2

\* A worker goes on to another step of its task.
LEMMA GoesOn ==
  ASSUME WorkTyped, work # Resting, NEW s \in BusySteps, work' = [work EXCEPT !.step = s]
  PROVE  /\ work \in [step : BusySteps, task : TaskIds]
         /\ work' \in [step : BusySteps, task : TaskIds]
         /\ work'.step = s /\ work'.task = work.task /\ work' # Resting
<1>1. work \in [step : BusySteps, task : TaskIds] BY DEF WorkTyped, HeldTask
<1>2. /\ work' \in [step : BusySteps, task : TaskIds]
      /\ work'.step = s /\ work'.task = work.task
  BY <1>1
<1>3. work' # Resting BY <1>2, Basics
<1> QED BY <1>1, <1>2, <1>3

\* What a step of the worker is: the rows r and c of plan p and the next step s.
RowsWritten(p, t, r, c, s) ==
    /\ work # Resting /\ work.task = t /\ PlanOf = p
    /\ plan' = [plan EXCEPT ![p] = r] /\ change' = [change EXCEPT ![p] = c]
    /\ work' = [work EXCEPT !.step = s]
    /\ UNCHANGED <<tasks, waiting, writing, config>> /\ MishapsOnly
    /\ r.node = plan[p].node /\ r.status # "none" /\ r.task \in {0, plan[p].task}

\* What the next step may rely on.
StepJustified(p, t, r, c, s) ==
    /\ s \in Working => \/ work.step \in Working
                         \/ \A q \in Plans \ {p} : ~Reserves(q)
    /\ s \in Working \cup {"observing"} => r.task = t
    /\ s = "ending" => r.task # t
    /\ s \in Draining => r.status = "draining" /\ Asked = "drain"
    /\ s \in Draining => r.review.config = config /\ c.approver
    /\ s \in Returning => r.status = "resuming"

\* The rows of a worker's step keep their types, and its plan the cluster.
LEMMA WorkerRows ==
  ASSUME HaInv, NEW p \in Plans, NEW t \in TaskIds, NEW r \in PlanRows,
         NEW c \in ApprovalRows, NEW s \in BusySteps,
         RowsWritten(p, t, r, c, s), StepJustified(p, t, r, c, s)
  PROVE  /\ plan' \in [Plans -> PlanRows] /\ change' \in [Plans -> ApprovalRows]
         /\ tasks' \in [TaskIds -> ActionRows] /\ config' \in 1..(MaxWrites + 1)
         /\ work'.step = s /\ work'.task = t /\ work' # Resting /\ PlanOf' = p
         /\ \A q \in Plans : plan'[q] = IF q = p THEN r ELSE plan[q]
         /\ change'[p] = c
         /\ ~writing
         /\ WorkTyped' /\ TasksOfPlans' /\ WritersAlone' /\ WorkersAlone'
<1> USE DEF HaInv
<1>1. /\ work \in [step : BusySteps, task : TaskIds]
      /\ work' \in [step : BusySteps, task : TaskIds]
      /\ work'.step = s /\ work'.task = t /\ work' # Resting
  BY GoesOn DEF RowsWritten
<1>2. /\ plan \in [Plans -> PlanRows] /\ change \in [Plans -> ApprovalRows]
      /\ tasks \in [TaskIds -> ActionRows] /\ config \in 1..(MaxWrites + 1)
  BY DEF HaTypeOK
<1>3. /\ plan' = [plan EXCEPT ![p] = r] /\ change' = [change EXCEPT ![p] = c]
      /\ tasks' = tasks /\ waiting' = waiting /\ writing' = writing /\ config' = config
      /\ r.node = plan[p].node /\ r.status # "none" /\ r.task \in {0, plan[p].task}
      /\ work # Resting /\ work.task = t /\ tasks[t].plan = p
  BY DEF RowsWritten, PlanOf
<1>4. /\ plan' \in [Plans -> PlanRows] /\ change' \in [Plans -> ApprovalRows]
      /\ tasks' \in [TaskIds -> ActionRows] /\ config' \in 1..(MaxWrites + 1)
      /\ \A q \in Plans : plan'[q] = IF q = p THEN r ELSE plan[q]
      /\ change'[p] = c
  BY <1>2, <1>3
<1>5. PlanOf' = p BY <1>1, <1>3 DEF PlanOf
<1>6. ~writing BY <1>3 DEF WritersAlone
<1>7. WorkTyped'
  BY <1>1, <1>3 DEF WorkTyped, HeldTask, RowsWritten, MishapsOnly
<1>8. TasksOfPlans'
  <2>1. /\ \A q \in Plans : plan[q].status = "none" => plan[q].task = 0
        /\ \A q \in Plans : plan[q].task # 0 =>
              tasks[plan[q].task].status \in {"created", "started"} /\ tasks[plan[q].task].plan = q
        /\ \A q \in Plans : plan[q].status # "none" => plan[q].node \in ClusterNodes
        /\ \A u \in TaskIds : tasks[u].status \in {"created", "started"} =>
              plan[tasks[u].plan].status # "none"
    BY DEF TasksOfPlans
  <2>2. \A u \in TaskIds : tasks[u].status \in {"created", "started"} => tasks[u].plan \in Plans
    BY <1>2, ActionFields
  <2>3. tasks[t].status = "started" BY <1>3 DEF WorkTyped, HeldTask
  <2>4. \A q \in Plans : plan'[q].status # "none" => plan'[q].node \in ClusterNodes
    BY <1>3, <1>4, <2>1, <2>3
  <2>5. \A u \in TaskIds : tasks[u].status \in {"created", "started"} =>
          plan'[tasks[u].plan].status # "none"
    BY <1>3, <1>4, <2>1, <2>2
  <2>6. \A q \in Plans : plan'[q].status = "none" => plan'[q].task = 0
    BY <1>3, <1>4, <2>1
  <2>7. \A q \in Plans : plan'[q].task # 0 =>
          tasks[plan'[q].task].status \in {"created", "started"} /\ tasks[plan'[q].task].plan = q
    BY <1>3, <1>4, <2>1
  <2> QED BY <1>3, <2>4, <2>5, <2>6, <2>7 DEF TasksOfPlans
<1>9. WritersAlone' BY <1>3, <1>6 DEF WritersAlone
<1>10. WorkersAlone'
  <2>1. \A q \in Plans \ {p} : ~Reserves(q)' <=> ~Reserves(q)
    BY <1>4 DEF Reserves
  <2>2. s \in Working => \A q \in Plans \ {p} : ~Reserves(q)
    BY <1>3 DEF WorkersAlone, StepJustified, RowsWritten
  <2>3. Asked' = Asked BY <1>1, <1>3 DEF Asked
  <2> QED BY <1>1, <1>4, <1>5, <2>1, <2>2, <2>3 DEF WorkersAlone, StepJustified
<1> QED BY <1>1, <1>4, <1>5, <1>6, <1>7, <1>8, <1>9, <1>10

\* A step that touches nothing on the nodes.
LEMMA RowsOnly ==
  ASSUME HaInv, NEW p \in Plans, NEW t \in TaskIds, NEW r \in PlanRows,
         NEW c \in ApprovalRows, NEW s \in BusySteps,
         RowsWritten(p, t, r, c, s), StepJustified(p, t, r, c, s),
         UNCHANGED <<running, masked>>,
         s \in Draining => OthersRun(plan[p].node),
         s \in {"masked", "checking", "stopping"} => masked[plan[p].node],
         s = "watching" => ~masked[plan[p].node],
         r.review.config = plan[p].review.config \/ r.review.config = config,
         plan[p].status \in ReservedStatuses /\ r.status \notin ReservedStatuses
           => \A n \in ClusterNodes : masked[n] => n # plan[p].node,
         r.status = "ready" =>
           /\ ~running[r.node] /\ OthersRun(r.node) /\ r.journal = "held" /\ masked[r.node]
           /\ \A n \in ClusterNodes : masked[n] => n = r.node
  PROVE  HaInv'
<1> USE DEF HaInv
<1> DEFINE n0 == plan[p].node
<1>1. /\ plan' \in [Plans -> PlanRows] /\ change' \in [Plans -> ApprovalRows]
      /\ tasks' \in [TaskIds -> ActionRows] /\ config' \in 1..(MaxWrites + 1)
      /\ work'.step = s /\ work'.task = t /\ work' # Resting /\ PlanOf' = p
      /\ \A q \in Plans : plan'[q] = IF q = p THEN r ELSE plan[q]
      /\ change'[p] = c
      /\ WorkTyped' /\ TasksOfPlans' /\ WritersAlone' /\ WorkersAlone'
  BY WorkerRows
<1>2. r.node = plan[p].node /\ r.task \in {0, plan[p].task} /\ config' = config /\ tasks' = tasks
  BY DEF RowsWritten
<1>3. HaTypeOK' BY <1>1 DEF HaTypeOK
<1>4. DrainsAsReviewed'
  BY <1>1, <1>2 DEF DrainsAsReviewed, StepJustified, NodeOf, OthersRun, Others
<1>5. MasksReserved'
  <2> SUFFICES ASSUME NEW n \in ClusterNodes, masked[n]
               PROVE  /\ \E q \in Plans : /\ plan'[q].node = n
                                          /\ plan'[q].status \in ReservedStatuses
                                          /\ plan'[q].review.config = config
                      /\ \A m \in ClusterNodes : masked[m] => m = n
                      /\ running[n] => OthersRun(n)
                      /\ \A q \in Plans : plan'[q].task # 0 \/ plan'[q].status = "ready" =>
                             plan'[q].node = n
                      /\ \A q \in Plans : plan'[q].task # 0 =>
                             tasks[plan'[q].task].action # "review"
    BY <1>2 DEF MasksReserved, OthersRun, Others
  <2>1. /\ \E q \in Plans : /\ plan[q].node = n /\ plan[q].status \in ReservedStatuses
                            /\ plan[q].review.config = config
        /\ \A m \in ClusterNodes : masked[m] => m = n
        /\ running[n] => OthersRun(n)
        /\ \A q \in Plans : plan[q].task # 0 \/ plan[q].status = "ready" => plan[q].node = n
        /\ \A q \in Plans : plan[q].task # 0 => tasks[plan[q].task].action # "review"
    BY DEF MasksReserved
  <2>2. \E q \in Plans : /\ plan'[q].node = n /\ plan'[q].status \in ReservedStatuses
                         /\ plan'[q].review.config = config
    <3>1. PICK q \in Plans : /\ plan[q].node = n /\ plan[q].status \in ReservedStatuses
                             /\ plan[q].review.config = config
      BY <2>1
    <3>2. CASE q = p BY <1>1, <1>2, <3>1, <3>2
    <3>3. CASE q # p BY <1>1, <3>1, <3>3
    <3> QED BY <3>2, <3>3
  <2>3. \A q \in Plans : plan'[q].task # 0 \/ plan'[q].status = "ready" => plan'[q].node = n
    BY <1>1, <1>2, <2>1
  <2>4. \A q \in Plans : plan'[q].task # 0 => tasks[plan'[q].task].action # "review"
    BY <1>1, <1>2, <2>1
  <2> QED BY <2>1, <2>2, <2>3, <2>4
<1>6. HandoverHeld'
  BY <1>1, <1>2 DEF HandoverHeld, Drained, OthersRun, Others
<1> QED BY <1>1, <1>3, <1>4, <1>5, <1>6

\* What a step of a drain or a return may leave on node n: its mask mk, and rn whether
\* Keepalived runs; and what step s relies on.
NodeLeft(n, mk, rn) ==
    /\ masked' = [masked EXCEPT ![n] = mk] /\ running' = [running EXCEPT ![n] = rn]
    /\ mk => masked[n] \/ work.step \in Draining
    /\ mk /\ rn => work.step \in Draining
MaskFits(s, mk) ==
    /\ s \in {"masked", "checking", "stopping"} => mk
    /\ s = "watching" => ~mk

\* A step of a drain or a return that has its effect on the node.
LEMMA OnTheNode ==
  ASSUME HaInv, NEW p \in Plans, NEW t \in TaskIds, NEW r \in PlanRows,
         NEW c \in ApprovalRows, NEW s \in BusySteps,
         RowsWritten(p, t, r, c, s), StepJustified(p, t, r, c, s),
         work.step \in Working, NEW mk \in BOOLEAN, NEW rn \in BOOLEAN,
         NodeLeft(plan[p].node, mk, rn), MaskFits(s, mk),
         r.status \in ReservedStatuses, r.status # "ready", r.review = plan[p].review,
         s \in Draining => work.step \in Draining
  PROVE  HaInv'
<1> USE DEF HaInv
<1>1. /\ plan' \in [Plans -> PlanRows] /\ change' \in [Plans -> ApprovalRows]
      /\ tasks' \in [TaskIds -> ActionRows] /\ config' \in 1..(MaxWrites + 1)
      /\ work'.step = s /\ work'.task = t /\ work' # Resting /\ PlanOf' = p
      /\ \A q \in Plans : plan'[q] = IF q = p THEN r ELSE plan[q]
      /\ change'[p] = c
      /\ WorkTyped' /\ TasksOfPlans' /\ WritersAlone' /\ WorkersAlone'
  BY WorkerRows
<1>2. /\ r.node = plan[p].node /\ r.task \in {0, plan[p].task} /\ config' = config /\ tasks' = tasks
      /\ work.task = t /\ PlanOf = p /\ tasks[t].plan = p
  BY DEF RowsWritten, PlanOf
<1> DEFINE n0 == plan[p].node
<1>0. /\ masked' = [masked EXCEPT ![n0] = mk] /\ running' = [running EXCEPT ![n0] = rn]
      /\ mk => masked[n0] \/ work.step \in Draining
      /\ mk /\ rn => work.step \in Draining
      /\ s \in {"masked", "checking", "stopping"} => mk
      /\ s = "watching" => ~mk
  BY DEF NodeLeft, MaskFits
<1>3. n0 \in ClusterNodes
  <2>1. tasks[t].status = "started"
    BY <1>2 DEF WorkTyped, HeldTask, RowsWritten
  <2>2. plan[p].status # "none" BY <1>2, <2>1 DEF TasksOfPlans
  <2> QED BY <2>2 DEF TasksOfPlans
<1>4. /\ \A n \in ClusterNodes : masked'[n] = IF n = n0 THEN mk ELSE masked[n]
      /\ \A n \in ClusterNodes : running'[n] = IF n = n0 THEN rn ELSE running[n]
      /\ running' \in [ClusterNodes -> BOOLEAN] /\ masked' \in [ClusterNodes -> BOOLEAN]
  BY <1>0 DEF HaTypeOK
<1>5. HaTypeOK' BY <1>1, <1>4 DEF HaTypeOK
<1>6. OthersRun(n0)' <=> OthersRun(n0)
  <2>1. n0' = n0 BY <1>1, <1>2
  <2>2. OthersRun(n0)' <=> \A m \in ClusterNodes \ {n0} : running'[m]
    BY <2>1 DEF OthersRun, Others
  <2> QED BY <1>4, <2>2 DEF OthersRun, Others
<1>7. work.step \in Draining => OthersRun(n0) /\ plan[p].review.config = config /\ Asked = "drain"
  BY <1>2 DEF DrainsAsReviewed, NodeOf, WorkersAlone
<1>8. NodeOf' = n0 BY <1>1, <1>2 DEF NodeOf
<1>9. DrainsAsReviewed'
  <2>1. s \in Draining => OthersRun(n0)' BY <1>6, <1>7
  <2>2. s \in Draining => OthersRun(NodeOf)'
    <3>1. NodeOf' = n0' BY <1>1, <1>2, <1>8
    <3> QED BY <2>1, <3>1 DEF OthersRun, Others
  <2>3. s \in {"masked", "checking", "stopping"} => masked'[NodeOf']
    BY <1>0, <1>3, <1>4, <1>8
  <2>4. s = "watching" => ~masked'[NodeOf'] BY <1>0, <1>3, <1>4, <1>8
  <2>5. s \in Draining => r.review.config = config /\ c.approver
    BY DEF StepJustified
  <2> QED BY <1>1, <1>2, <2>2, <2>3, <2>4, <2>5 DEF DrainsAsReviewed
<1>10. \A q \in Plans \ {p} : plan[q].status \notin ReservedStatuses /\ plan[q].task = 0
  BY <1>2 DEF WorkersAlone, Reserves
<1>11. \A n \in ClusterNodes : masked[n] => n = n0
  BY <1>10 DEF MasksReserved
<1>12. \A n \in ClusterNodes : masked'[n] => n = n0 /\ mk
  BY <1>4, <1>11
<1>13. mk => r.review.config = config
  BY <1>0, <1>3, <1>7, <1>10 DEF MasksReserved
<1>14. mk /\ r.task # 0 => tasks[r.task].action # "review"
  <2>1. CASE masked[n0] BY <1>2, <1>3, <2>1 DEF MasksReserved
  <2>2. CASE work.step \in Draining
    <3>1. plan[p].task = t BY <1>2 DEF WorkersAlone
    <3> QED BY <1>2, <1>7, <2>2, <3>1 DEF Asked
  <2> QED BY <1>0, <2>1, <2>2
<1>15. MasksReserved'
  <2> SUFFICES ASSUME mk
               PROVE  /\ \E q \in Plans : /\ plan'[q].node = n0
                                          /\ plan'[q].status \in ReservedStatuses
                                          /\ plan'[q].review.config = config
                      /\ \A m \in ClusterNodes : masked'[m] => m = n0
                      /\ running'[n0] => \A m \in ClusterNodes \ {n0} : running'[m]
                      /\ \A q \in Plans : plan'[q].task # 0 \/ plan'[q].status = "ready" =>
                             plan'[q].node = n0
                      /\ \A q \in Plans : plan'[q].task # 0 =>
                             tasks[plan'[q].task].action # "review"
    BY <1>2, <1>12 DEF MasksReserved, OthersRun, Others
  <2>1. \E q \in Plans : /\ plan'[q].node = n0 /\ plan'[q].status \in ReservedStatuses
                         /\ plan'[q].review.config = config
    BY <1>1, <1>2, <1>13
  <2>2. running'[n0] => \A m \in ClusterNodes \ {n0} : running'[m]
    BY <1>0, <1>3, <1>4, <1>7 DEF OthersRun, Others
  <2>3. \A q \in Plans : plan'[q].task # 0 \/ plan'[q].status = "ready" => plan'[q].node = n0
    BY <1>1, <1>2, <1>10 DEF ReservedStatuses
  <2>4. \A q \in Plans : plan'[q].task # 0 => tasks[plan'[q].task].action # "review"
    BY <1>1, <1>10, <1>14
  <2> QED BY <1>12, <2>1, <2>2, <2>3, <2>4
<1>16. HandoverHeld'
  BY <1>1, <1>10 DEF HandoverHeld, ReservedStatuses
<1> QED BY <1>1, <1>5, <1>9, <1>15, <1>16
-----------------------------------------------------------------------------
(* The actions of the worker. *)

\* What a worker at work has in its hands.
LEMMA WorkFacts ==
  ASSUME HaInv, work # Resting
  PROVE  /\ work.step \in BusySteps /\ work.task \in TaskIds /\ work.task # 0
         /\ tasks[work.task].status = "started" /\ Asked \in Actions
         /\ PlanOf \in Plans /\ plan[PlanOf] \in PlanRows /\ change[PlanOf] \in ApprovalRows
         /\ plan[PlanOf].status # "none" /\ NodeOf \in ClusterNodes
         /\ config \in 1..(MaxWrites + 1)
<1> USE DEF HaInv
<1>1. HeldTask(work, tasks) BY DEF WorkTyped
<1>2. /\ plan \in [Plans -> PlanRows] /\ change \in [Plans -> ApprovalRows]
      /\ tasks \in [TaskIds -> ActionRows] /\ config \in 1..(MaxWrites + 1)
  BY DEF HaTypeOK
<1>3. work.step \in BusySteps /\ work.task \in TaskIds /\ tasks[work.task].status = "started"
  BY <1>1 DEF HeldTask
<1>4. PlanOf \in Plans /\ Asked \in Actions
  BY <1>2, <1>3, ActionFields DEF PlanOf, Asked
<1>5. plan[PlanOf].status # "none" BY <1>3 DEF TasksOfPlans, PlanOf
<1>6. NodeOf \in ClusterNodes BY <1>4, <1>5 DEF TasksOfPlans, NodeOf
<1> QED BY <1>2, <1>3, <1>4, <1>5, <1>6, Basics

LEMMA AtWork ==
  ASSUME NEW s, s # "idle", At(s)
  PROVE  work # Resting
BY DEF At, Resting

\* The plan is given up with the rows pr and cr.
LEMMA Ends ==
  ASSUME HaInv, work # Resting, NEW pr \in PlanRows, NEW cr \in ApprovalRows,
         SamePlan(pr, plan[PlanOf]), pr.status # "none",
         Succeed(PlanOf, pr, cr), UNCHANGED <<tasks, waiting, writing, config>>, MishapsOnly
  PROVE  \E r \in PlanRows, c \in ApprovalRows :
            /\ RowsWritten(PlanOf, work.task, r, c, "ending")
            /\ StepJustified(PlanOf, work.task, r, c, "ending")
            /\ r.status = pr.status /\ r.journal = pr.journal /\ r.review = pr.review
<1>1. work.task \in TaskIds /\ work.task # 0 BY WorkFacts
<1> DEFINE r == [pr EXCEPT !.task = IF @ = work.task THEN 0 ELSE @]
           k == IF cr.task = work.task THEN 0 ELSE cr.task
           c == [cr EXCEPT !.task = IF @ = work.task THEN 0 ELSE @]
<1>2. /\ r \in PlanRows /\ r.task # work.task /\ r.task \in {0, pr.task} /\ r.node = pr.node
      /\ r.status = pr.status /\ r.journal = pr.journal /\ r.review = pr.review
  BY <1>1, ReleaseWrite
<1>3. c \in ApprovalRows
  <2>1. cr.task \in {0} \cup TaskIds BY DEF ApprovalRows
  <2>2. [cr EXCEPT !.task = k] \in ApprovalRows BY <2>1 DEF ApprovalRows
  <2> QED BY <2>2
<1>4. /\ plan' = [plan EXCEPT ![PlanOf] = r] /\ change' = [change EXCEPT ![PlanOf] = c]
      /\ work' = [work EXCEPT !.step = "ending"]
  BY DEF Succeed, Released, Go
<1> HIDE DEF r, c
<1>5. RowsWritten(PlanOf, work.task, r, c, "ending")
  BY <1>2, <1>4 DEF RowsWritten, SamePlan
<1>6. StepJustified(PlanOf, work.task, r, c, "ending")
  BY <1>2 DEF StepJustified, Working, Draining, Returning
<1> QED BY <1>2, <1>3, <1>5, <1>6

\* A failure: a plan that has reserved the cluster is not known to be anything.
LEMMA Fails ==
  ASSUME HaInv, work # Resting, Fail,
         UNCHANGED <<tasks, waiting, writing, config>>, MishapsOnly
  PROVE  \E r \in PlanRows, c \in ApprovalRows :
            /\ RowsWritten(PlanOf, work.task, r, c, "ending")
            /\ StepJustified(PlanOf, work.task, r, c, "ending")
            /\ r.status \in {"unknown", "review-failed"}
            /\ plan[PlanOf].status \in ReservedStatuses => r.status = "unknown"
            /\ r.journal = plan[PlanOf].journal /\ r.review = plan[PlanOf].review
<1>1. /\ plan[PlanOf] \in PlanRows /\ change[PlanOf] \in ApprovalRows
  BY WorkFacts
<1> DEFINE unsure == plan[PlanOf].status \in ReservedStatuses \/ plan[PlanOf].drained
           ps == IF unsure THEN "unknown" ELSE "review-failed"
           cs == IF unsure THEN "deployment_interrupted" ELSE "validation_failed"
<1>2. /\ ps \in PlanStatuses /\ ps \in {"unknown", "review-failed"} /\ ps # "none"
      /\ plan[PlanOf].status \in ReservedStatuses => ps = "unknown"
      /\ cs \in CancellableStatuses \cup
            {"cancelled", "deploying", "paused", "deployment_interrupted", "deployed"}
  BY DEF PlanStatuses, ReservedStatuses, CancellableStatuses
<1>3. Succeed(PlanOf, [plan[PlanOf] EXCEPT !.status = ps], [change[PlanOf] EXCEPT !.status = cs])
  BY DEF Fail
<1> HIDE DEF ps, cs
<1> DEFINE pr == [plan[PlanOf] EXCEPT !.status = ps]
           cr == [change[PlanOf] EXCEPT !.status = cs]
<1>4. /\ pr \in PlanRows /\ pr.status = ps /\ SamePlan(pr, plan[PlanOf])
      /\ pr.review = plan[PlanOf].review /\ pr.journal = plan[PlanOf].journal
  BY <1>1, <1>2, StatusWrite
<1>5. cr \in ApprovalRows BY <1>1, <1>2, ApprovalWrites
<1>6. Succeed(PlanOf, pr, cr) BY <1>3
<1> HIDE DEF pr, cr
<1>7. \E r \in PlanRows, c \in ApprovalRows :
            /\ RowsWritten(PlanOf, work.task, r, c, "ending")
            /\ StepJustified(PlanOf, work.task, r, c, "ending")
            /\ r.status = pr.status /\ r.journal = pr.journal /\ r.review = pr.review
  BY <1>2, <1>4, <1>5, <1>6, Ends
<1> QED BY <1>2, <1>4, <1>7

\* A failure that leaves the nodes alone.
LEMMA FailsSafely ==
  ASSUME HaInv, work # Resting, Fail, UNCHANGED <<tasks, waiting, writing, haHost>>, MishapsOnly
  PROVE  HaInv'
<1>1. UNCHANGED <<running, masked, config>> BY DEF haHost
<1>2. PICK r \in PlanRows, c \in ApprovalRows :
            /\ RowsWritten(PlanOf, work.task, r, c, "ending")
            /\ StepJustified(PlanOf, work.task, r, c, "ending")
            /\ r.status \in {"unknown", "review-failed"}
            /\ plan[PlanOf].status \in ReservedStatuses => r.status = "unknown"
            /\ r.journal = plan[PlanOf].journal /\ r.review = plan[PlanOf].review
  BY <1>1, Fails
<1>3. PlanOf \in Plans /\ work.task \in TaskIds BY WorkFacts
<1>4. "ending" \in BusySteps /\ "ending" \notin Draining
  BY DEF BusySteps, Draining
<1> QED BY <1>1, <1>2, <1>3, <1>4, RowsOnly DEF ReservedStatuses

\* The plan stays as it is, but perhaps for its journal, and the drain or the return goes on.
LEMMA Proceeds ==
  ASSUME HaInv, work # Resting, NEW r \in PlanRows, NEW s \in BusySteps,
         SamePlan(r, plan[PlanOf]), r.status = plan[PlanOf].status,
         r.review = plan[PlanOf].review, plan' = [plan EXCEPT ![PlanOf] = r],
         change' = change, Go(s), UNCHANGED <<tasks, waiting, writing, config>>, MishapsOnly,
         \/ work.step \in Draining /\ s \in Draining
         \/ work.step \in Returning /\ s \in Returning
         \/ plan[PlanOf].task = work.task /\ s = "observing"
  PROVE  /\ RowsWritten(PlanOf, work.task, r, change[PlanOf], s)
         /\ StepJustified(PlanOf, work.task, r, change[PlanOf], s)
<1> USE DEF HaInv
<1>1. change' = [change EXCEPT ![PlanOf] = change[PlanOf]]
  BY WorkFacts DEF HaTypeOK
<1>2. r.status # "none" BY WorkFacts
<1>3. RowsWritten(PlanOf, work.task, r, change[PlanOf], s)
  BY <1>1, <1>2 DEF RowsWritten, SamePlan, Go
<1>4. /\ Draining \cap Returning = {} /\ "observing" \notin Working /\ "ending" \notin Working
      /\ Working = Draining \cup Returning
  BY DEF Draining, Returning, Working
<1>5. r.task = work.task BY <1>4 DEF SamePlan, WorkersAlone
<1>6. StepJustified(PlanOf, work.task, r, change[PlanOf], s)
  BY <1>4, <1>5 DEF StepJustified, WorkersAlone, DrainsAsReviewed, Working
<1> QED BY <1>3, <1>6
\* The review of a drain takes nothing from a node that is masked: its task would not be there.
LEMMA ReviewKeeps ==
  ASSUME HaInv, NEW returning \in BOOLEAN, Review(returning)
  PROVE  HaInv'
<1> USE DEF HaInv
<1> DEFINE s0 == IF returning THEN "return-reviewed" ELSE "reviewed"
           v == [returning |-> returning, config |-> config]
           r == [plan[PlanOf] EXCEPT !.review = v, !.status = s0]
           c == [change[PlanOf] EXCEPT !.status = "pending_approval"]
<1>1. work # Resting BY AtWork DEF Review
<1>2. /\ work.task \in TaskIds /\ PlanOf \in Plans /\ plan[PlanOf] \in PlanRows
      /\ change[PlanOf] \in ApprovalRows /\ NodeOf \in ClusterNodes
      /\ config \in 1..(MaxWrites + 1) /\ work.task # 0
  BY <1>1, WorkFacts
<1>3. /\ Owns /\ Asked = IF returning THEN "review-return" ELSE "review"
      /\ plan' = [plan EXCEPT ![PlanOf] = r] /\ change' = [change EXCEPT ![PlanOf] = c]
      /\ work' = [work EXCEPT !.step = "reviewed"]
      /\ UNCHANGED <<tasks, waiting, writing, running, masked, config, spare>>
  BY DEF Review, Go, haHost
<1>4. s0 \in PlanStatuses /\ s0 # "none" /\ s0 # "ready"
  BY DEF PlanStatuses, ReservedStatuses
<1>5. v \in Reviews /\ v.config = config
  BY <1>2, MaintenanceAssumption DEF Reviews
<1> HIDE DEF v, s0, r
<1>6. /\ r \in PlanRows /\ r.review = v /\ r.status = s0 /\ SamePlan(r, plan[PlanOf])
  BY <1>2, <1>4, <1>5 DEF r, PlanRows, SamePlan
<1>7. c \in ApprovalRows
  <2>1. "pending_approval" \in CancellableStatuses BY DEF CancellableStatuses
  <2> QED BY <1>2, <2>1, ApprovalWrites
<1> HIDE DEF c
<1>8. MishapsOnly BY <1>3, MishapSpent DEF WorkTyped
<1>9. RowsWritten(PlanOf, work.task, r, c, "reviewed")
  BY <1>1, <1>3, <1>4, <1>6, <1>8 DEF RowsWritten, SamePlan
<1>10. /\ "reviewed" \in BusySteps /\ "reviewed" \notin Working /\ "reviewed" \notin Draining
       /\ "reviewed" \notin Returning
  BY DEF BusySteps, Working, Draining, Returning
<1>11. StepJustified(PlanOf, work.task, r, c, "reviewed")
  BY <1>10 DEF StepJustified
<1>12. ASSUME s0 \notin ReservedStatuses, NEW n \in ClusterNodes, masked[n]
       PROVE  FALSE
  <2>1. Asked = "review" BY <1>3, <1>12 DEF s0, ReservedStatuses
  <2>2. plan[PlanOf].task = work.task BY <1>3 DEF Owns
  <2> QED BY <1>2, <1>12, <2>1, <2>2 DEF MasksReserved, Asked
<1>13. r.status # "ready" /\ r.review.config = config BY <1>4, <1>5, <1>6
<1>14. plan[PlanOf].status \in ReservedStatuses /\ r.status \notin ReservedStatuses
         => \A n \in ClusterNodes : masked[n] => n # plan[PlanOf].node
  BY <1>6, <1>12
<1> QED BY <1>2, <1>3, <1>6, <1>7, <1>9, <1>10, <1>11, <1>13, <1>14, RowsOnly

\* An end of the task's plan that leaves the nodes alone.
LEMMA EndsSafely ==
  ASSUME HaInv, work # Resting, NEW pr \in PlanRows, NEW cr \in ApprovalRows,
         SamePlan(pr, plan[PlanOf]), pr.status # "none", pr.review = plan[PlanOf].review,
         Succeed(PlanOf, pr, cr), UNCHANGED <<tasks, waiting, writing, haHost>>, MishapsOnly,
         plan[PlanOf].status \in ReservedStatuses /\ pr.status \notin ReservedStatuses
           => ~masked[NodeOf],
         pr.status = "ready" =>
           /\ ~running[NodeOf] /\ OthersRun(NodeOf) /\ pr.journal = "held" /\ masked[NodeOf]
  PROVE  HaInv'
<1> USE DEF HaInv
<1>1. UNCHANGED <<running, masked, config>> BY DEF haHost
<1>2. PICK r \in PlanRows, c \in ApprovalRows :
            /\ RowsWritten(PlanOf, work.task, r, c, "ending")
            /\ StepJustified(PlanOf, work.task, r, c, "ending")
            /\ r.status = pr.status /\ r.journal = pr.journal /\ r.review = pr.review
  BY <1>1, Ends
<1>3. PlanOf \in Plans /\ work.task \in TaskIds /\ NodeOf \in ClusterNodes BY WorkFacts
<1>4. "ending" \in BusySteps /\ "ending" \notin Draining
  BY DEF BusySteps, Draining
<1>5. r.node = NodeOf BY <1>2 DEF RowsWritten, NodeOf
<1>6. masked[NodeOf] => \A n \in ClusterNodes : masked[n] => n = NodeOf
  BY <1>3 DEF MasksReserved
<1>7. plan[PlanOf].status \in ReservedStatuses /\ r.status \notin ReservedStatuses
        => \A n \in ClusterNodes : masked[n] => n # plan[PlanOf].node
  BY <1>2 DEF NodeOf
<1>8. r.status = "ready" =>
        /\ ~running[r.node] /\ OthersRun(r.node) /\ r.journal = "held" /\ masked[r.node]
        /\ \A n \in ClusterNodes : masked[n] => n = r.node
  BY <1>2, <1>5, <1>6
<1>9. r.review.config = plan[PlanOf].review.config BY <1>2
<1> QED BY <1>1, <1>2, <1>3, <1>4, <1>7, <1>8, <1>9, RowsOnly

LEMMA WithdrawApprovalKeeps ==
  ASSUME HaInv, WithdrawApproval
  PROVE  HaInv'
<1> USE DEF HaInv
<1>1. work # Resting BY AtWork DEF WithdrawApproval
<1>2. /\ plan[PlanOf] \in PlanRows /\ change[PlanOf] \in ApprovalRows /\ PlanOf \in Plans
      /\ plan[PlanOf].status # "none"
  BY <1>1, WorkFacts
<1> DEFINE cr == [change[PlanOf] EXCEPT !.approver = FALSE]
<1>3. cr \in ApprovalRows BY <1>2 DEF ApprovalRows
<1> HIDE DEF cr
<1>4. Succeed(PlanOf, plan[PlanOf], cr) /\ UNCHANGED <<tasks, waiting, writing, haHost, spare>>
  BY DEF WithdrawApproval, cr
<1>5. MishapsOnly BY <1>4, MishapSpent DEF WorkTyped
<1>6. SamePlan(plan[PlanOf], plan[PlanOf]) BY DEF SamePlan
<1>7. plan[PlanOf].status = "ready" =>
        /\ ~running[NodeOf] /\ OthersRun(NodeOf) /\ plan[PlanOf].journal = "held"
        /\ masked[NodeOf]
  BY <1>2 DEF HandoverHeld, Drained, NodeOf
<1> QED BY <1>1, <1>2, <1>3, <1>4, <1>5, <1>6, <1>7, EndsSafely

\* A drain or a return takes the cluster for its plan.
LEMMA StartDrainKeeps ==
  ASSUME HaInv, StartDrain
  PROVE  HaInv'
<1> USE DEF HaInv
<1> DEFINE r == [plan[PlanOf] EXCEPT !.status = "draining"]
           c == [change[PlanOf] EXCEPT !.status = "deploying"]
<1>1. work # Resting BY AtWork DEF StartDrain
<1>2. /\ plan[PlanOf] \in PlanRows /\ change[PlanOf] \in ApprovalRows /\ PlanOf \in Plans
      /\ work.task \in TaskIds /\ NodeOf \in ClusterNodes
  BY <1>1, WorkFacts
<1>3. /\ Owns /\ Asked = "drain" /\ MayProceed(FALSE)
      /\ plan' = [plan EXCEPT ![PlanOf] = r] /\ change' = [change EXCEPT ![PlanOf] = c]
      /\ work' = [work EXCEPT !.step = "draining"]
      /\ UNCHANGED <<tasks, waiting, writing, running, masked, config, spare>>
  BY DEF StartDrain, Go, haHost
<1>4. "draining" \in PlanStatuses /\ "draining" \in ReservedStatuses
  BY DEF PlanStatuses, ReservedStatuses
<1>5. /\ r \in PlanRows /\ r.status = "draining" /\ r.review = plan[PlanOf].review
      /\ SamePlan(r, plan[PlanOf])
  BY <1>2, <1>4, StatusWrite
<1>6. c \in ApprovalRows /\ c.approver = change[PlanOf].approver
  BY <1>2, ApprovalWrites
<1> HIDE DEF r, c
<1>7. /\ Idle(Plans \ {PlanOf}) /\ change[PlanOf].approver
      /\ plan[PlanOf].review.config = config /\ OthersRun(NodeOf)
  BY <1>3 DEF MayProceed, Approved, StillAsReviewed, Viewable
<1>8. MishapsOnly BY <1>3, MishapSpent DEF WorkTyped
<1>9. RowsWritten(PlanOf, work.task, r, c, "draining")
  BY <1>1, <1>3, <1>5, <1>8 DEF RowsWritten, SamePlan
<1>10. "draining" \in BusySteps /\ "draining" \notin Returning
  BY DEF BusySteps, Working, Draining, Returning
<1>11. StepJustified(PlanOf, work.task, r, c, "draining")
  BY <1>3, <1>5, <1>6, <1>7, <1>10 DEF StepJustified, Idle, Owns, SamePlan
<1>12. OthersRun(plan[PlanOf].node) BY <1>7 DEF NodeOf
<1>13. r.review.config = plan[PlanOf].review.config /\ r.status # "ready" BY <1>5
<1> QED BY <1>2, <1>3, <1>4, <1>5, <1>6, <1>9, <1>10, <1>11, <1>12, <1>13, RowsOnly

LEMMA StartReturnKeeps ==
  ASSUME HaInv, StartReturn
  PROVE  HaInv'
<1> USE DEF HaInv
<1> DEFINE r == [plan[PlanOf] EXCEPT !.status = "resuming"]
           c == [change[PlanOf] EXCEPT !.status = "deploying"]
           s == IF plan[PlanOf].journal = "none" THEN "starting" ELSE "restoring"
<1>1. work # Resting BY AtWork DEF StartReturn
<1>2. /\ plan[PlanOf] \in PlanRows /\ change[PlanOf] \in ApprovalRows /\ PlanOf \in Plans
      /\ work.task \in TaskIds
  BY <1>1, WorkFacts
<1>3. /\ Owns /\ MayProceed(TRUE)
      /\ plan' = [plan EXCEPT ![PlanOf] = r] /\ change' = [change EXCEPT ![PlanOf] = c]
      /\ work' = [work EXCEPT !.step = s]
      /\ UNCHANGED <<tasks, waiting, writing, running, masked, config, spare>>
  BY DEF StartReturn, Go, haHost
<1>4. "resuming" \in PlanStatuses /\ "resuming" \in ReservedStatuses
  BY DEF PlanStatuses, ReservedStatuses
<1>5. /\ r \in PlanRows /\ r.status = "resuming" /\ r.review = plan[PlanOf].review
      /\ SamePlan(r, plan[PlanOf])
  BY <1>2, <1>4, StatusWrite
<1>6. c \in ApprovalRows BY <1>2, ApprovalWrites
<1>7. s \in BusySteps /\ s \notin Draining /\ s \notin {"masked", "checking", "stopping"}
      /\ s # "watching" /\ s # "ending"
  BY DEF BusySteps, Working, Draining, Returning
<1> HIDE DEF r, c, s
<1>8. Idle(Plans \ {PlanOf}) BY <1>3 DEF MayProceed
<1>9. MishapsOnly BY <1>3, MishapSpent DEF WorkTyped
<1>10. RowsWritten(PlanOf, work.task, r, c, s)
  BY <1>1, <1>3, <1>5, <1>9 DEF RowsWritten, SamePlan
<1>11. StepJustified(PlanOf, work.task, r, c, s)
  BY <1>3, <1>5, <1>7, <1>8 DEF StepJustified, Idle, Owns, SamePlan
<1> QED BY <1>2, <1>3, <1>4, <1>5, <1>6, <1>7, <1>10, <1>11, RowsOnly

\* The worker goes on and leaves the nodes alone.
LEMMA ProceedsSafely ==
  ASSUME HaInv, work # Resting, NEW r \in PlanRows, NEW s \in BusySteps,
         SamePlan(r, plan[PlanOf]), r.status = plan[PlanOf].status,
         r.review = plan[PlanOf].review, plan' = [plan EXCEPT ![PlanOf] = r],
         change' = change, Go(s), UNCHANGED <<tasks, waiting, writing, haHost, spare>>,
         \/ work.step \in Draining /\ s \in Draining
         \/ work.step \in Returning /\ s \in Returning
         \/ plan[PlanOf].task = work.task /\ s = "observing",
         plan[PlanOf].status = "ready" => s = "observing" /\ r.journal = "held",
         s \in {"masked", "checking", "stopping"} => masked[NodeOf],
         s = "watching" => ~masked[NodeOf]
  PROVE  HaInv'
<1> USE DEF HaInv
<1>1. UNCHANGED <<running, masked, config, tasks, waiting, writing, spare>> BY DEF haHost
<1>2. MishapsOnly BY <1>1, MishapSpent DEF WorkTyped
<1>3. /\ RowsWritten(PlanOf, work.task, r, change[PlanOf], s)
      /\ StepJustified(PlanOf, work.task, r, change[PlanOf], s)
  BY <1>1, <1>2, Proceeds
<1>4. /\ PlanOf \in Plans /\ work.task \in TaskIds /\ change[PlanOf] \in ApprovalRows
      /\ NodeOf \in ClusterNodes
  BY WorkFacts
<1>5. Draining \cap Returning = {} /\ "observing" \notin Draining
  BY DEF Draining, Returning
<1>6. s \in Draining => OthersRun(NodeOf)
  BY <1>5 DEF DrainsAsReviewed
<1>7. plan[PlanOf].status = "ready" =>
        /\ ~running[NodeOf] /\ OthersRun(NodeOf) /\ masked[NodeOf]
        /\ \A n \in ClusterNodes : masked[n] => n = NodeOf
  BY <1>4 DEF HandoverHeld, Drained, NodeOf, MasksReserved
<1> QED BY <1>1, <1>3, <1>4, <1>6, <1>7, RowsOnly DEF NodeOf, SamePlan
\* The remote calls: whether they are answered or not, the node is as they leave it.
LEMMA CallsKeep ==
  ASSUME HaInv, NEW next \in BusySteps, Answered(next),
         UNCHANGED <<tasks, waiting, writing, config>>,
         \/ work.step \in Draining /\ next \in Draining \cup {"observing"}
         \/ work.step \in Returning /\ next \in Returning,
         NEW mk \in BOOLEAN, NEW rn \in BOOLEAN,
         NodeLeft(NodeOf, mk, rn), MaskFits(next, mk)
  PROVE  HaInv'
<1> USE DEF HaInv
<1>1. work.step \in Working /\ Working = Draining \cup Returning BY DEF Working
<1>2. work # Resting BY <1>1, Basics
<1>3. /\ PlanOf \in Plans /\ work.task \in TaskIds /\ plan[PlanOf] \in PlanRows
      /\ change[PlanOf] \in ApprovalRows
  BY <1>2, WorkFacts
<1>4. /\ plan[PlanOf].status \in ReservedStatuses /\ plan[PlanOf].status # "ready"
      /\ plan[PlanOf].task = work.task
  BY <1>1 DEF WorkersAlone, ReservedStatuses
<1>5. NodeLeft(plan[PlanOf].node, mk, rn) BY DEF NodeOf
<1>8. CASE Go(next) /\ UNCHANGED <<plan, change, spare>>
  <2>1. plan' = [plan EXCEPT ![PlanOf] = plan[PlanOf]] /\ change' = change
    BY <1>3, <1>8 DEF HaTypeOK
  <2>2. MishapsOnly BY <1>8, MishapSpent DEF WorkTyped
  <2>3. SamePlan(plan[PlanOf], plan[PlanOf]) BY DEF SamePlan
  <2>4. /\ RowsWritten(PlanOf, work.task, plan[PlanOf], change[PlanOf], next)
        /\ StepJustified(PlanOf, work.task, plan[PlanOf], change[PlanOf], next)
    BY <1>2, <1>3, <1>4, <1>8, <2>1, <2>2, <2>3, Proceeds
  <2>5. next \in Draining => work.step \in Draining
    BY DEF Draining, Returning
  <2> QED BY <1>1, <1>3, <1>4, <1>5, <2>4, <2>5, OnTheNode
<1>9. CASE Spends("mishaps") /\ Fail
  <2>1. MishapsOnly BY <1>9, MishapSpent DEF WorkTyped
  <2>2. PICK r \in PlanRows, c \in ApprovalRows :
            /\ RowsWritten(PlanOf, work.task, r, c, "ending")
            /\ StepJustified(PlanOf, work.task, r, c, "ending")
            /\ r.status \in {"unknown", "review-failed"}
            /\ plan[PlanOf].status \in ReservedStatuses => r.status = "unknown"
            /\ r.journal = plan[PlanOf].journal /\ r.review = plan[PlanOf].review
    BY <1>2, <1>9, <2>1, Fails
  <2>3. r.status \in ReservedStatuses /\ r.status # "ready"
    BY <1>4, <2>2 DEF ReservedStatuses
  <2>4. "ending" \in BusySteps /\ "ending" \notin Draining /\ MaskFits("ending", mk)
    BY DEF BusySteps, Draining, MaskFits
  <2> QED BY <1>1, <1>3, <1>5, <2>2, <2>3, <2>4, OnTheNode
<1> QED BY <1>8, <1>9 DEF Answered

LEMMA MaskKeeps ==
  ASSUME HaInv, Mask
  PROVE  HaInv'
<1> USE DEF HaInv
<1>1. work # Resting BY AtWork DEF Mask
<1>2. NodeOf \in ClusterNodes BY <1>1, WorkFacts
<1>3. running' = [running EXCEPT ![NodeOf] = running[NodeOf]] /\ running[NodeOf] \in BOOLEAN
  BY <1>2 DEF Mask, HaTypeOK
<1>4. /\ work.step \in Draining /\ "masked" \in Draining /\ "masked" \in BusySteps
      /\ masked' = [masked EXCEPT ![NodeOf] = TRUE] /\ Answered("masked")
      /\ UNCHANGED <<tasks, waiting, writing, config>>
  BY DEF Mask, At, Draining, BusySteps, Working
<1>5. NodeLeft(NodeOf, TRUE, running[NodeOf]) BY <1>3, <1>4 DEF NodeLeft
<1>6. MaskFits("masked", TRUE) BY DEF MaskFits
<1> QED BY <1>3, <1>4, <1>5, <1>6, CallsKeep

LEMMA StopKeepalivedKeeps ==
  ASSUME HaInv, StopKeepalived
  PROVE  HaInv'
<1> USE DEF HaInv
<1>1. work # Resting BY AtWork DEF StopKeepalived
<1>2. NodeOf \in ClusterNodes BY <1>1, WorkFacts
<1>3. masked[NodeOf] = TRUE /\ work.step = "stopping"
  BY <1>2 DEF StopKeepalived, At, DrainsAsReviewed, HaTypeOK
<1>4. masked' = [masked EXCEPT ![NodeOf] = TRUE]
  BY <1>2, <1>3 DEF StopKeepalived, HaTypeOK
<1>5. /\ work.step \in Draining /\ "observing" \in BusySteps
      /\ running' = [running EXCEPT ![NodeOf] = FALSE] /\ Answered("observing")
      /\ UNCHANGED <<tasks, waiting, writing, config>>
  BY DEF StopKeepalived, At, Draining, BusySteps
<1>6. NodeLeft(NodeOf, TRUE, FALSE) BY <1>3, <1>4, <1>5 DEF NodeLeft
<1>7. MaskFits("observing", TRUE) BY DEF MaskFits
<1> QED BY <1>5, <1>6, <1>7, CallsKeep

LEMMA UnmaskKeeps ==
  ASSUME HaInv, Unmask
  PROVE  HaInv'
<1> USE DEF HaInv
<1>1. work # Resting BY AtWork DEF Unmask
<1>2. NodeOf \in ClusterNodes BY <1>1, WorkFacts
<1>3. running' = [running EXCEPT ![NodeOf] = running[NodeOf]] /\ running[NodeOf] \in BOOLEAN
  BY <1>2 DEF Unmask, HaTypeOK
<1>4. /\ work.step \in Returning /\ "unmasked" \in Returning /\ "unmasked" \in BusySteps
      /\ masked' = [masked EXCEPT ![NodeOf] = FALSE] /\ Answered("unmasked")
      /\ UNCHANGED <<tasks, waiting, writing, config>>
  BY DEF Unmask, At, Returning, BusySteps, Working
<1>5. NodeLeft(NodeOf, FALSE, running[NodeOf]) BY <1>3, <1>4 DEF NodeLeft
<1>6. MaskFits("unmasked", FALSE) BY DEF MaskFits
<1> QED BY <1>3, <1>4, <1>5, <1>6, CallsKeep

LEMMA StartKeepalivedKeeps ==
  ASSUME HaInv, StartKeepalived
  PROVE  HaInv'
<1> USE DEF HaInv
<1>1. work # Resting BY AtWork DEF StartKeepalived
<1>2. NodeOf \in ClusterNodes BY <1>1, WorkFacts
<1>3. CASE masked[NodeOf]
  <2>1. Fail /\ UNCHANGED <<tasks, waiting, writing, haHost, spare>>
    BY <1>3 DEF StartKeepalived, haHost
  <2>2. MishapsOnly BY <2>1, MishapSpent DEF WorkTyped
  <2> QED BY <1>1, <2>1, <2>2, FailsSafely
<1>4. CASE ~masked[NodeOf]
  <2>1. masked' = [masked EXCEPT ![NodeOf] = FALSE]
    BY <1>2, <1>4 DEF StartKeepalived, HaTypeOK
  <2>2. /\ work.step \in Returning /\ "watching" \in Returning /\ "watching" \in BusySteps
        /\ running' = [running EXCEPT ![NodeOf] = TRUE] /\ Answered("watching")
        /\ UNCHANGED <<tasks, waiting, writing, config>>
    BY <1>4 DEF StartKeepalived, At, Returning, BusySteps, Working
  <2>3. NodeLeft(NodeOf, FALSE, TRUE) BY <2>1, <2>2 DEF NodeLeft
  <2>4. MaskFits("watching", FALSE) BY DEF MaskFits
  <2> QED BY <2>2, <2>3, <2>4, CallsKeep
<1> QED BY <1>3, <1>4

LEMMA StartVerifyKeeps ==
  ASSUME HaInv, StartVerify
  PROVE  HaInv'
<1> USE DEF HaInv
<1>1. work # Resting BY AtWork DEF StartVerify
<1>2. plan[PlanOf] \in PlanRows /\ PlanOf \in Plans BY <1>1, WorkFacts
<1>3. /\ plan[PlanOf].task = work.task /\ Go("observing") /\ change' = change /\ plan' = plan
      /\ UNCHANGED <<tasks, waiting, writing, haHost, spare>>
  BY DEF StartVerify, Owns, haRows
<1>4. plan' = [plan EXCEPT ![PlanOf] = plan[PlanOf]]
  BY <1>2, <1>3 DEF HaTypeOK
<1>5. "observing" \in BusySteps BY DEF BusySteps
<1>6. plan[PlanOf].status = "ready" => plan[PlanOf].journal = "held"
  BY <1>2 DEF HandoverHeld, Drained
<1>7. SamePlan(plan[PlanOf], plan[PlanOf]) BY DEF SamePlan
<1> QED BY <1>1, <1>2, <1>3, <1>4, <1>5, <1>6, <1>7, ProceedsSafely

LEMMA RefusedKeeps ==
  ASSUME HaInv, Refused
  PROVE  HaInv'
<1> USE DEF HaInv
<1>1. work # Resting BY AtWork DEF Refused
<1>2. Fail /\ UNCHANGED <<tasks, waiting, writing, haHost, spare>> BY DEF Refused
<1>3. MishapsOnly BY <1>2, MishapSpent DEF WorkTyped
<1> QED BY <1>1, <1>2, <1>3, FailsSafely

LEMMA RemoteFailsKeeps ==
  ASSUME HaInv, RemoteFails
  PROVE  HaInv'
<1> USE DEF HaInv
<1>1. work # Resting BY DEF RemoteFails, Resting
<1>2. Fail /\ Spends("mishaps") /\ UNCHANGED <<tasks, waiting, writing, haHost>>
  BY DEF RemoteFails
<1>3. MishapsOnly BY <1>2, MishapSpent DEF WorkTyped
<1> QED BY <1>1, <1>2, <1>3, FailsSafely

\* The journal is written before and after a remote call.
LEMMA JournalKeeps ==
  ASSUME HaInv, NEW j \in {"none", "requested", "held", "restoring", "restored"}, NEW s \in Working,
         work.step \in Working,
         plan' = [plan EXCEPT ![PlanOf] = [plan[PlanOf] EXCEPT !.journal = j]],
         Go(s), UNCHANGED <<change, tasks, waiting, writing, haHost, spare>>,
         \/ work.step \in Draining /\ s \in Draining
         \/ work.step \in Returning /\ s \in Returning,
         s \in {"masked", "checking", "stopping"} => masked[NodeOf],
         s # "watching"
  PROVE  HaInv'
<1> USE DEF HaInv
<1> DEFINE r == [plan[PlanOf] EXCEPT !.journal = j]
<1>1. work # Resting BY Basics
<1>2. plan[PlanOf] \in PlanRows BY <1>1, WorkFacts
<1>3. /\ r \in PlanRows /\ SamePlan(r, plan[PlanOf]) /\ r.status = plan[PlanOf].status
      /\ r.review = plan[PlanOf].review
  BY <1>2, JournalWrite
<1>4. plan' = [plan EXCEPT ![PlanOf] = r] OBVIOUS
<1> HIDE DEF r
<1>5. plan[PlanOf].status # "ready" BY DEF WorkersAlone, Working
<1>6. s \in BusySteps BY Basics
<1> QED BY <1>1, <1>3, <1>4, <1>5, <1>6, ProceedsSafely
LEMMA JournalHoldKeeps ==
  ASSUME HaInv, JournalHold
  PROVE  HaInv'
<1> USE DEF HaInv
<1>1. work # Resting BY AtWork DEF JournalHold
<1>2. plan[PlanOf] \in PlanRows BY <1>1, WorkFacts
<1>3. UNCHANGED <<tasks, waiting, writing, haHost, spare>> /\ work.step = "draining"
  BY DEF JournalHold, At
<1>4. CASE plan[PlanOf].journal = "none" /\ masked[NodeOf]
  <2>1. Fail BY <1>4 DEF JournalHold
  <2>2. MishapsOnly BY <1>3, MishapSpent DEF WorkTyped
  <2> QED BY <1>1, <1>3, <2>1, <2>2, FailsSafely
<1>5. CASE ~(plan[PlanOf].journal = "none" /\ masked[NodeOf])
  <2> DEFINE j == IF plan[PlanOf].journal = "none" THEN "requested" ELSE plan[PlanOf].journal
  <2>1. j \in {"none", "requested", "held", "restoring", "restored"}
    BY <1>2, PlanFields
  <2>2. plan' = [plan EXCEPT ![PlanOf].journal = IF @ = "none" THEN "requested" ELSE @]
    BY <1>5 DEF JournalHold
  <2>3. plan' = [plan EXCEPT ![PlanOf] = [plan[PlanOf] EXCEPT !.journal = j]]
    BY <2>2
  <2>4. Go("holding") /\ change' = change BY <1>5 DEF JournalHold
  <2>5. work.step \in Draining /\ "holding" \in Draining /\ work.step \in Working
        /\ "holding" \in Working /\ "holding" \notin {"masked", "checking", "stopping"}
    BY <1>3 DEF Draining, Working
  <2> QED BY <1>3, <2>1, <2>3, <2>4, <2>5, JournalKeeps
<1> QED BY <1>4, <1>5

LEMMA JournalHeldKeeps ==
  ASSUME HaInv, JournalHeld
  PROVE  HaInv'
<1>1. /\ UNCHANGED <<change, tasks, waiting, writing, haHost, spare>> /\ work.step = "masked"
      /\ plan' = [plan EXCEPT ![PlanOf] = [plan[PlanOf] EXCEPT !.journal = "held"]]
      /\ Go("checking")
  BY DEF JournalHeld, At
<1>2. work.step \in Draining /\ "checking" \in Draining /\ work.step \in Working
      /\ "checking" \in Working
  BY <1>1 DEF Draining, Working
<1>3. masked[NodeOf] BY <1>1 DEF HaInv, DrainsAsReviewed
<1> QED BY <1>1, <1>2, <1>3, JournalKeeps

LEMMA JournalRestoreKeeps ==
  ASSUME HaInv, JournalRestore
  PROVE  HaInv'
<1>1. /\ UNCHANGED <<change, tasks, waiting, writing, haHost, spare>> /\ work.step = "restoring"
      /\ plan' = [plan EXCEPT ![PlanOf] = [plan[PlanOf] EXCEPT !.journal = "restoring"]]
      /\ Go("unmasking")
  BY DEF JournalRestore, At
<1>2. work.step \in Returning /\ "unmasking" \in Returning /\ work.step \in Working
      /\ "unmasking" \in Working
  BY <1>1 DEF Returning, Working
<1> QED BY <1>1, <1>2, JournalKeeps

LEMMA JournalRestoredKeeps ==
  ASSUME HaInv, JournalRestored
  PROVE  HaInv'
<1>1. /\ UNCHANGED <<change, tasks, waiting, writing, haHost, spare>> /\ work.step = "unmasked"
      /\ plan' = [plan EXCEPT ![PlanOf] = [plan[PlanOf] EXCEPT !.journal = "restored"]]
      /\ Go("starting")
  BY DEF JournalRestored, At
<1>2. work.step \in Returning /\ "starting" \in Returning /\ work.step \in Working
      /\ "starting" \in Working
  BY <1>1 DEF Returning, Working
<1> QED BY <1>1, <1>2, JournalKeeps

LEMMA CheckAgainKeeps ==
  ASSUME HaInv, CheckAgain
  PROVE  HaInv'
<1> USE DEF HaInv
<1>1. work # Resting BY AtWork DEF CheckAgain
<1>2. plan[PlanOf] \in PlanRows /\ PlanOf \in Plans BY <1>1, WorkFacts
<1>3. UNCHANGED <<tasks, waiting, writing, haHost, spare>> /\ work.step = "checking"
  BY DEF CheckAgain, At
<1>4. CASE StillAsReviewed(FALSE)
  <2>1. Go("stopping") /\ plan' = plan /\ change' = change BY <1>4 DEF CheckAgain
  <2>2. plan' = [plan EXCEPT ![PlanOf] = plan[PlanOf]] BY <1>2, <2>1 DEF HaTypeOK
  <2>3. work.step \in Draining /\ "stopping" \in Draining /\ "stopping" \in BusySteps
    BY <1>3 DEF Draining, Working, BusySteps
  <2>4. masked[NodeOf] BY <1>3 DEF DrainsAsReviewed
  <2>5. plan[PlanOf].status # "ready" BY <2>3 DEF WorkersAlone
  <2>6. SamePlan(plan[PlanOf], plan[PlanOf]) BY DEF SamePlan
  <2> QED BY <1>1, <1>2, <1>3, <2>1, <2>2, <2>3, <2>4, <2>5, <2>6, ProceedsSafely
<1>5. CASE ~StillAsReviewed(FALSE)
  <2>1. Fail BY <1>5 DEF CheckAgain
  <2>2. MishapsOnly BY <1>3, MishapSpent DEF WorkTyped
  <2> QED BY <1>1, <1>3, <2>1, <2>2, FailsSafely
<1> QED BY <1>4, <1>5

\* The node is handed over: it is the only one that is masked.
LEMMA HandOverKeeps ==
  ASSUME HaInv, HandOver
  PROVE  HaInv'
<1> USE DEF HaInv
<1>1. work # Resting BY AtWork DEF HandOver
<1>2. /\ plan[PlanOf] \in PlanRows /\ PlanOf \in Plans /\ change[PlanOf] \in ApprovalRows
  BY <1>1, WorkFacts
<1>3. UNCHANGED <<tasks, waiting, writing, haHost, spare>>
  BY DEF HandOver
<1>4. MishapsOnly BY <1>3, MishapSpent DEF WorkTyped
<1>5. CASE Drained(PlanOf)
  <2> DEFINE pr == [plan[PlanOf] EXCEPT !.status = "ready", !.drained = TRUE]
             cr == [change[PlanOf] EXCEPT !.status = "paused"]
  <2>1. /\ pr \in PlanRows /\ pr.status = "ready" /\ SamePlan(pr, plan[PlanOf])
        /\ pr.journal = plan[PlanOf].journal /\ pr.review = plan[PlanOf].review
    BY <1>2, ReadyWrite
  <2>2. cr \in ApprovalRows BY <1>2, ApprovalWrites
  <2>3. Succeed(PlanOf, pr, cr) BY <1>5 DEF HandOver
  <2> HIDE DEF pr, cr
  <2>4. /\ ~running[NodeOf] /\ OthersRun(NodeOf) /\ pr.journal = "held" /\ masked[NodeOf]
    BY <1>5, <2>1 DEF Drained, NodeOf
  <2>5. pr.status \in ReservedStatuses BY <2>1 DEF ReservedStatuses
  <2> QED BY <1>1, <1>3, <1>4, <2>1, <2>2, <2>3, <2>4, <2>5, EndsSafely
<1>6. CASE ~Drained(PlanOf)
  <2>1. Fail BY <1>6 DEF HandOver
  <2> QED BY <1>1, <1>3, <1>4, <2>1, FailsSafely
<1> QED BY <1>5, <1>6

LEMMA CompleteKeeps ==
  ASSUME HaInv, Complete
  PROVE  HaInv'
<1> USE DEF HaInv
<1>1. work # Resting BY AtWork DEF Complete
<1>2. /\ plan[PlanOf] \in PlanRows /\ PlanOf \in Plans /\ change[PlanOf] \in ApprovalRows
  BY <1>1, WorkFacts
<1>3. UNCHANGED <<tasks, waiting, writing, haHost, spare>> /\ work.step = "watching"
  BY DEF Complete, At
<1>4. MishapsOnly BY <1>3, MishapSpent DEF WorkTyped
<1>5. CASE \A n \in ClusterNodes : running[n]
  <2> DEFINE pr == [plan[PlanOf] EXCEPT !.status = "completed"]
             cr == [change[PlanOf] EXCEPT !.status = "deployed"]
  <2>1. "completed" \in PlanStatuses BY DEF PlanStatuses
  <2>2. /\ pr \in PlanRows /\ pr.status = "completed" /\ SamePlan(pr, plan[PlanOf])
        /\ pr.review = plan[PlanOf].review
    BY <1>2, <2>1, StatusWrite
  <2>3. cr \in ApprovalRows BY <1>2, ApprovalWrites
  <2>4. Succeed(PlanOf, pr, cr) BY <1>5 DEF Complete
  <2> HIDE DEF pr, cr
  <2>5. ~masked[NodeOf] BY <1>3 DEF DrainsAsReviewed
  <2> QED BY <1>1, <1>3, <1>4, <2>2, <2>3, <2>4, <2>5, EndsSafely
<1>6. CASE ~(\A n \in ClusterNodes : running[n])
  <2>1. Fail BY <1>6 DEF Complete
  <2> QED BY <1>1, <1>3, <1>4, <2>1, FailsSafely
<1> QED BY <1>5, <1>6
-----------------------------------------------------------------------------
(* What users, other changes, hosts and the queue do. *)

LEMMA RestingSteps ==
  /\ Resting.step = "idle" /\ "idle" \notin Working /\ "idle" \notin Draining
  /\ "idle" \notin Returning
BY DEF Resting, Working, Draining, Returning

LEMMA CreatePlanKeeps ==
  ASSUME HaInv, NEW p \in Plans, NEW n \in ClusterNodes, CreatePlan(p, n)
  PROVE  HaInv'
<1> USE DEF HaInv
<1> DEFINE r == [plan[p] EXCEPT !.status = "draft", !.node = n]
<1>1. /\ plan \in [Plans -> PlanRows] /\ plan[p].status = "none"
      /\ plan' = [plan EXCEPT ![p] = r]
      /\ UNCHANGED <<change, tasks, work, waiting, writing, running, masked, config, spare>>
  BY DEF CreatePlan, haHost, HaTypeOK
<1>2. plan[p].task = 0 BY <1>1 DEF TasksOfPlans
<1>3. r \in PlanRows /\ r.status = "draft" /\ r.node = n /\ r.task = 0
  BY <1>1, <1>2 DEF PlanRows, PlanStatuses
<1> HIDE DEF r
<1>4. /\ plan' \in [Plans -> PlanRows]
      /\ \A q \in Plans : plan'[q] = IF q = p THEN r ELSE plan[q]
  BY <1>1, <1>3
<1>5. "draft" \notin ReservedStatuses BY DEF ReservedStatuses
<1>6. \A q \in Plans : Reserves(q)' <=> Reserves(q)
  BY <1>1, <1>2, <1>3, <1>4, <1>5 DEF Reserves, ReservedStatuses
<1>7. HaTypeOK' BY <1>1, <1>4 DEF HaTypeOK
<1>8. WorkTyped' BY <1>1 DEF WorkTyped, HeldTask
<1>9. TasksOfPlans'
  <2>1. /\ \A q \in Plans : plan[q].status = "none" => plan[q].task = 0
        /\ \A q \in Plans : plan[q].task # 0 =>
              tasks[plan[q].task].status \in {"created", "started"} /\ tasks[plan[q].task].plan = q
        /\ \A q \in Plans : plan[q].status # "none" => plan[q].node \in ClusterNodes
        /\ \A u \in TaskIds : tasks[u].status \in {"created", "started"} =>
              plan[tasks[u].plan].status # "none"
    BY DEF TasksOfPlans
  <2>2. \A u \in TaskIds : tasks[u].status \in {"created", "started"} => tasks[u].plan \in Plans
    BY ActionFields DEF HaTypeOK
  <2>3. \A q \in Plans : plan'[q].task # 0 =>
          tasks[plan'[q].task].status \in {"created", "started"} /\ tasks[plan'[q].task].plan = q
    BY <1>3, <1>4, <2>1
  <2>4. \A u \in TaskIds : tasks[u].status \in {"created", "started"} =>
          plan'[tasks[u].plan].status # "none"
    BY <1>3, <1>4, <2>1, <2>2
  <2>5. \A q \in Plans : plan'[q].status = "none" => plan'[q].task = 0
    BY <1>3, <1>4, <2>1
  <2>6. \A q \in Plans : plan'[q].status # "none" => plan'[q].node \in ClusterNodes
    BY <1>3, <1>4, <2>1
  <2> QED BY <1>1, <2>3, <2>4, <2>5, <2>6 DEF TasksOfPlans
<1>10. WritersAlone' BY <1>1, <1>6 DEF WritersAlone
<1>11. /\ work # Resting => PlanOf \in Plans /\ PlanOf # p
       /\ PlanOf' = PlanOf /\ Asked' = Asked
  BY <1>1, WorkFacts DEF PlanOf, Asked
<1>12. WorkersAlone'
  BY <1>1, <1>4, <1>6, <1>11, RestingSteps DEF WorkersAlone, Resting
<1>13. DrainsAsReviewed'
  BY <1>1, <1>4, <1>11, RestingSteps
  DEF DrainsAsReviewed, NodeOf, OthersRun, Others, Resting
<1>14. MasksReserved'
  <2> SUFFICES ASSUME NEW m \in ClusterNodes, masked[m]
               PROVE  /\ \E q \in Plans : /\ plan'[q].node = m
                                          /\ plan'[q].status \in ReservedStatuses
                                          /\ plan'[q].review.config = config
                      /\ \A k \in ClusterNodes : masked[k] => k = m
                      /\ running[m] => OthersRun(m)
                      /\ \A q \in Plans : plan'[q].task # 0 \/ plan'[q].status = "ready" =>
                             plan'[q].node = m
                      /\ \A q \in Plans : plan'[q].task # 0 =>
                             tasks[plan'[q].task].action # "review"
    BY <1>1 DEF MasksReserved, OthersRun, Others
  <2>1. PICK q \in Plans : /\ plan[q].node = m /\ plan[q].status \in ReservedStatuses
                           /\ plan[q].review.config = config
    BY DEF MasksReserved
  <2>2. plan'[q] = plan[q] BY <1>1, <1>4, <2>1 DEF ReservedStatuses
  <2>3. \A o \in Plans : plan'[o].task # 0 \/ plan'[o].status = "ready" => plan'[o].node = m
    BY <1>3, <1>4 DEF MasksReserved
  <2>4. \A o \in Plans : plan'[o].task # 0 => tasks[plan'[o].task].action # "review"
    BY <1>3, <1>4 DEF MasksReserved
  <2> QED BY <2>1, <2>2, <2>3, <2>4 DEF MasksReserved
<1>15. HandoverHeld'
  BY <1>1, <1>3, <1>4 DEF HandoverHeld, Drained, OthersRun, Others
<1> QED BY <1>7, <1>8, <1>9, <1>10, <1>12, <1>13, <1>14, <1>15

\* An approval may be given or the change cancelled; neither takes an approval away.
LEMMA ApprovalsOnly ==
  ASSUME HaInv, UNCHANGED <<plan, tasks, work, waiting, writing, running, masked, config, spare>>,
         change' \in [Plans -> ApprovalRows],
         \A q \in Plans : change[q].approver => change'[q].approver
  PROVE  HaInv'
<1> USE DEF HaInv
<1>1. HaTypeOK' BY DEF HaTypeOK
<1>2. WorkTyped' BY DEF WorkTyped, HeldTask
<1>3. TasksOfPlans' BY DEF TasksOfPlans
<1>4. WritersAlone' BY DEF WritersAlone, Reserves
<1>5. PlanOf' = PlanOf /\ Asked' = Asked /\ NodeOf' = NodeOf BY DEF PlanOf, Asked, NodeOf
<1>6. WorkersAlone' BY <1>5 DEF WorkersAlone, Reserves
<1>7. work # Resting => PlanOf \in Plans BY WorkFacts
<1>8. DrainsAsReviewed'
  BY <1>5, <1>7, RestingSteps DEF DrainsAsReviewed, OthersRun, Others
<1>9. MasksReserved' BY DEF MasksReserved, OthersRun, Others
<1>10. HandoverHeld' BY DEF HandoverHeld, Drained, OthersRun, Others
<1> QED BY <1>1, <1>2, <1>3, <1>4, <1>6, <1>8, <1>9, <1>10

LEMMA ApprovalsKeep ==
  ASSUME HaInv, NEW p \in Plans, Approve(p) \/ CancelOnPage(p) \/ CancelByApi(p)
  PROVE  HaInv'
<1> USE DEF HaInv
<1>1. UNCHANGED <<plan, tasks, work, waiting, writing, running, masked, config, spare>>
  BY DEF Approve, CancelOnPage, CancelByApi, Cancel, haHost
<1>2. change \in [Plans -> ApprovalRows] BY DEF HaTypeOK
<1>3. \/ change' = [change EXCEPT ![p] = [change[p] EXCEPT !.status = "approved", !.approver = TRUE]]
      \/ change' = [change EXCEPT ![p] = [change[p] EXCEPT !.status = "cancelled"]]
  BY DEF Approve, CancelOnPage, CancelByApi, Cancel
<1>4. "approved" \in CancellableStatuses BY DEF CancellableStatuses
<1>5. /\ [change[p] EXCEPT !.status = "approved", !.approver = TRUE] \in ApprovalRows
      /\ [change[p] EXCEPT !.status = "approved", !.approver = TRUE].approver
  BY <1>2, <1>4 DEF ApprovalRows
<1>6. /\ [change[p] EXCEPT !.status = "cancelled"] \in ApprovalRows
      /\ [change[p] EXCEPT !.status = "cancelled"].approver = change[p].approver
  BY <1>2 DEF ApprovalRows
<1>7. change' \in [Plans -> ApprovalRows] /\ \A q \in Plans : change[q].approver =>
          change'[q].approver
  BY <1>2, <1>3, <1>5, <1>6
<1> QED BY <1>1, <1>7, ApprovalsOnly
\* Only the plan that is enqueued may have the cluster reserved, and a review is not enqueued
\* for a plan that has.
LEMMA EnqueueActionKeeps ==
  ASSUME HaInv, NEW p \in Plans, NEW action \in Actions, EnqueueAction(p, action)
  PROVE  HaInv'
<1> USE DEF HaInv
<1>1. /\ work = Resting /\ ~writing /\ plan[p].task = 0 /\ plan[p].status \in Allowed(action)
      /\ \A q \in Plans \ {p} : ~Reserves(q)
      /\ UNCHANGED <<work, waiting, writing, running, masked, config, spare>>
  BY DEF EnqueueAction, Locked, Idle, haHost
<1>2. PICK t \in TaskIds :
         /\ tasks[t].status = "none"
         /\ tasks' = [tasks EXCEPT ![t] = [status |-> "created", plan |-> p, action |-> action]]
         /\ plan' = [plan EXCEPT ![p].task = t]
         /\ change' = [change EXCEPT ![p].task = t]
  BY DEF EnqueueAction
<1> DEFINE r == [plan[p] EXCEPT !.task = t]
           c == [change[p] EXCEPT !.task = t]
           a == [status |-> "created", plan |-> p, action |-> action]
<1>3. /\ plan \in [Plans -> PlanRows] /\ change \in [Plans -> ApprovalRows]
      /\ tasks \in [TaskIds -> ActionRows]
  BY DEF HaTypeOK
<1>4. /\ r \in PlanRows /\ r.task = t /\ r.node = plan[p].node
      /\ r.status = plan[p].status /\ r.journal = plan[p].journal /\ r.review = plan[p].review
  BY <1>3, TaskWrite
<1>5. c \in ApprovalRows BY <1>3 DEF ApprovalRows
<1>6. a \in ActionRows /\ a.status = "created" /\ a.plan = p /\ a.action = action
  BY DEF ActionRows
<1> HIDE DEF r, c, a
<1>7. /\ plan' = [plan EXCEPT ![p] = r] /\ change' = [change EXCEPT ![p] = c]
      /\ tasks' = [tasks EXCEPT ![t] = a]
  BY <1>2 DEF r, c, a
<1>8. /\ plan' \in [Plans -> PlanRows] /\ change' \in [Plans -> ApprovalRows]
      /\ tasks' \in [TaskIds -> ActionRows]
      /\ \A q \in Plans : plan'[q] = IF q = p THEN r ELSE plan[q]
      /\ \A u \in TaskIds : tasks'[u] = IF u = t THEN a ELSE tasks[u]
  BY <1>3, <1>4, <1>5, <1>6, <1>7
<1>9. plan[p].status # "none" /\ (plan[p].status \in ReservedStatuses => action # "review")
  BY <1>1 DEF Allowed, ReservedStatuses, Actions
<1>10. HaTypeOK' BY <1>1, <1>8 DEF HaTypeOK
<1>11. WorkTyped' BY <1>1 DEF WorkTyped
<1>12. TasksOfPlans'
  <2>1. /\ \A q \in Plans : plan[q].status = "none" => plan[q].task = 0
        /\ \A q \in Plans : plan[q].task # 0 =>
              tasks[plan[q].task].status \in {"created", "started"} /\ tasks[plan[q].task].plan = q
        /\ \A q \in Plans : plan[q].status # "none" => plan[q].node \in ClusterNodes
        /\ \A u \in TaskIds : tasks[u].status \in {"created", "started"} =>
              plan[tasks[u].plan].status # "none"
    BY DEF TasksOfPlans
  <2>2. \A u \in TaskIds : tasks[u].status \in {"created", "started"} => tasks[u].plan \in Plans
    BY <1>3, ActionFields
  <2>3. ASSUME NEW q \in Plans, plan'[q].task # 0
        PROVE  /\ tasks'[plan'[q].task].status \in {"created", "started"}
               /\ tasks'[plan'[q].task].plan = q
    <3>1. CASE q = p BY <1>4, <1>6, <1>8, <3>1
    <3>2. CASE q # p
      <4>1. plan'[q] = plan[q] /\ plan[q].task \in TaskIds
        BY <1>3, <1>8, <2>3, <3>2, PlanFields
      <4>2. plan[q].task # t BY <1>2, <2>1, <2>3, <4>1
      <4> QED BY <1>8, <2>1, <2>3, <4>1, <4>2
    <3> QED BY <3>1, <3>2
  <2>4. ASSUME NEW u \in TaskIds, tasks'[u].status \in {"created", "started"}
        PROVE  plan'[tasks'[u].plan].status # "none"
    <3>1. CASE u = t BY <1>4, <1>6, <1>8, <1>9, <3>1
    <3>2. CASE u # t BY <1>4, <1>8, <1>9, <2>1, <2>2, <2>4, <3>2
    <3> QED BY <3>1, <3>2
  <2>5. \A q \in Plans : plan'[q].status = "none" => plan'[q].task = 0
    BY <1>4, <1>8, <1>9, <2>1
  <2>6. \A q \in Plans : plan'[q].status # "none" => plan'[q].node \in ClusterNodes
    BY <1>4, <1>8, <1>9, <2>1
  <2> QED BY <2>3, <2>4, <2>5, <2>6 DEF TasksOfPlans
<1>13. WritersAlone' BY <1>1 DEF WritersAlone
<1>14. WorkersAlone' /\ DrainsAsReviewed'
  BY <1>1, RestingSteps DEF WorkersAlone, DrainsAsReviewed, Resting
<1>15. MasksReserved'
  <2> SUFFICES ASSUME NEW m \in ClusterNodes, masked[m]
               PROVE  /\ \E q \in Plans : /\ plan'[q].node = m
                                          /\ plan'[q].status \in ReservedStatuses
                                          /\ plan'[q].review.config = config
                      /\ \A k \in ClusterNodes : masked[k] => k = m
                      /\ running[m] => OthersRun(m)
                      /\ \A q \in Plans : plan'[q].task # 0 \/ plan'[q].status = "ready" =>
                             plan'[q].node = m
                      /\ \A q \in Plans : plan'[q].task # 0 =>
                             tasks'[plan'[q].task].action # "review"
    BY <1>1 DEF MasksReserved, OthersRun, Others
  <2>1. PICK q \in Plans : /\ plan[q].node = m /\ plan[q].status \in ReservedStatuses
                           /\ plan[q].review.config = config
    BY DEF MasksReserved
  <2>2. q = p BY <1>1, <2>1 DEF Reserves
  <2>3. \A o \in Plans : o # p => plan'[o].task = 0 /\ plan'[o].status \notin ReservedStatuses
    BY <1>1, <1>8 DEF Reserves
  <2>4. /\ plan'[p].node = m /\ plan'[p].status \in ReservedStatuses
        /\ plan'[p].review.config = config
        /\ tasks'[plan'[p].task].action = action /\ action # "review"
    BY <1>4, <1>6, <1>8, <1>9, <2>1, <2>2
  <2>5. \A o \in Plans : plan'[o].task # 0 \/ plan'[o].status = "ready" => plan'[o].node = m
    BY <2>3, <2>4 DEF ReservedStatuses
  <2> QED BY <2>3, <2>4, <2>5 DEF MasksReserved
<1>16. HandoverHeld'
  BY <1>1, <1>4, <1>8 DEF HandoverHeld, Drained, OthersRun, Others
<1> QED BY <1>10, <1>11, <1>12, <1>13, <1>14, <1>15, <1>16

LEMMA WriterEntersKeeps ==
  ASSUME HaInv, WriterEnters
  PROVE  HaInv'
<1> USE DEF HaInv
<1>1. /\ work = Resting /\ \A q \in Plans : ~Reserves(q)
      /\ writing' = TRUE
      /\ UNCHANGED <<plan, change, tasks, work, waiting, running, masked, config, spare>>
  BY DEF WriterEnters, Locked, Idle, haHost, haRows
<1>2. HaTypeOK' BY <1>1 DEF HaTypeOK
<1>3. WorkTyped' BY <1>1 DEF WorkTyped, HeldTask
<1>4. TasksOfPlans' BY <1>1 DEF TasksOfPlans
<1>5. WritersAlone' BY <1>1 DEF WritersAlone, Reserves
<1>6. WorkersAlone' /\ DrainsAsReviewed'
  BY <1>1, RestingSteps DEF WorkersAlone, DrainsAsReviewed, Resting
<1>7. MasksReserved' BY <1>1 DEF MasksReserved, OthersRun, Others
<1>8. HandoverHeld' BY <1>1 DEF HandoverHeld, Drained, OthersRun, Others
<1> QED BY <1>2, <1>3, <1>4, <1>5, <1>6, <1>7, <1>8

\* While another change is written nothing is masked and nobody is handed over.
LEMMA WriteKeeps ==
  ASSUME HaInv, Write
  PROVE  HaInv'
<1> USE DEF HaInv
<1>1. /\ writing /\ writing' = FALSE /\ Spends("writes")
      /\ \/ config' = config + 1 /\ running' = running
         \/ \E n \in ClusterNodes : running' = [running EXCEPT ![n] = ~@] /\ config' = config
      /\ UNCHANGED <<plan, change, tasks, work, waiting, masked>>
  BY DEF Write, haRows
<1>2. work = Resting /\ \A q \in Plans : ~Reserves(q) BY <1>1 DEF WritersAlone
<1>3. \A n \in ClusterNodes : ~masked[n] BY <1>2 DEF MasksReserved, Reserves
<1>4. \A q \in Plans : plan[q].status # "ready" BY <1>2 DEF Reserves, ReservedStatuses
<1>5. /\ spare \in [writes : Nat, mishaps : Nat] /\ config + spare.writes <= MaxWrites + 1
      /\ config \in 1..(MaxWrites + 1) /\ running \in [ClusterNodes -> BOOLEAN]
  BY DEF WorkTyped, HaTypeOK
<1>6. spare["writes"] > 0 /\ spare' = [spare EXCEPT !["writes"] = @ - 1] BY <1>1 DEF Spends
<1>7. /\ spare' \in [writes : Nat, mishaps : Nat] /\ spare'.writes = spare.writes - 1
      /\ spare.writes \in Nat /\ spare.writes > 0
  BY <1>5, <1>6
<1>8. config' \in {config, config + 1} BY <1>1
<1>9. config' \in 1..(MaxWrites + 1) /\ config' + spare'.writes <= MaxWrites + 1
  BY <1>5, <1>7, <1>8, MaintenanceAssumption
<1>10. running' \in [ClusterNodes -> BOOLEAN] BY <1>1, <1>5
<1>11. HaTypeOK' BY <1>1, <1>9, <1>10 DEF HaTypeOK
<1>12. WorkTyped' BY <1>1, <1>2, <1>7, <1>9 DEF WorkTyped
<1>13. TasksOfPlans' BY <1>1 DEF TasksOfPlans
<1>14. WritersAlone' BY <1>1 DEF WritersAlone
<1>15. WorkersAlone' /\ DrainsAsReviewed'
  BY <1>1, <1>2, RestingSteps DEF WorkersAlone, DrainsAsReviewed, Resting
<1>16. MasksReserved' BY <1>1, <1>3 DEF MasksReserved
<1>17. HandoverHeld' BY <1>1, <1>4 DEF HandoverHeld
<1> QED BY <1>11, <1>12, <1>13, <1>14, <1>15, <1>16, <1>17

\* A node that was handed over is not started by a restart: it is held.
LEMMA RebootKeeps ==
  ASSUME HaInv, NEW n \in ClusterNodes, Reboot(n)
  PROVE  HaInv'
<1> USE DEF HaInv
<1>1. /\ running[n] = masked[n] /\ running' = [running EXCEPT ![n] = ~masked[n]]
      /\ UNCHANGED <<plan, change, tasks, work, waiting, writing, masked, config, spare>>
  BY DEF Reboot, haRows
<1>2. PICK p \in Plans : plan[p].node = n /\ plan[p].status \in ReservedStatuses
  BY DEF Reboot
<1>3. running \in [ClusterNodes -> BOOLEAN] /\ masked \in [ClusterNodes -> BOOLEAN]
  BY DEF HaTypeOK
<1>4. /\ running' \in [ClusterNodes -> BOOLEAN] /\ running'[n] = ~masked[n]
      /\ \A m \in ClusterNodes : m # n => running'[m] = running[m]
  BY <1>1, <1>3
<1>5. HaTypeOK' BY <1>1, <1>4 DEF HaTypeOK
<1>6. WorkTyped' BY <1>1 DEF WorkTyped, HeldTask
<1>7. TasksOfPlans' BY <1>1 DEF TasksOfPlans
<1>8. WritersAlone' BY <1>1 DEF WritersAlone, Reserves
<1>9. PlanOf' = PlanOf /\ Asked' = Asked /\ NodeOf' = NodeOf BY <1>1 DEF PlanOf, Asked, NodeOf
<1>10. WorkersAlone' BY <1>1, <1>9 DEF WorkersAlone, Reserves
<1>11. work.step \in Draining => NodeOf = n
  BY <1>2 DEF WorkersAlone, Working, Reserves, NodeOf
<1>12. DrainsAsReviewed'
  <2>1. work.step \in Draining => OthersRun(NodeOf)'
    BY <1>4, <1>9, <1>11 DEF DrainsAsReviewed, OthersRun, Others
  <2> QED BY <1>1, <1>9, <2>1 DEF DrainsAsReviewed
<1>13. \A m \in ClusterNodes : masked[m] => (running'[m] =>
           \A k \in ClusterNodes \ {m} : running'[k])
  <2> SUFFICES ASSUME NEW m \in ClusterNodes, masked[m], running'[m]
               PROVE  \A k \in ClusterNodes \ {m} : running'[k]
    OBVIOUS
  <2>1. m # n BY <1>4
  <2>2. ~masked[n] BY <2>1 DEF MasksReserved
  <2>3. running[m] BY <1>4, <2>1
  <2>4. \A k \in ClusterNodes \ {m} : running[k] BY <2>3 DEF MasksReserved, OthersRun, Others
  <2> QED BY <1>4, <2>2, <2>4
<1>14. MasksReserved' BY <1>1, <1>13 DEF MasksReserved, OthersRun, Others
<1>15. ASSUME NEW q \in Plans, plan[q].status = "ready"
       PROVE  FALSE
  <2>1. /\ ~running[plan[q].node] /\ OthersRun(plan[q].node) /\ masked[plan[q].node]
    BY <1>15 DEF HandoverHeld, Drained
  <2>2. plan[q].node \in ClusterNodes BY <1>15 DEF TasksOfPlans
  <2>3. plan[q].node # n BY <1>1, <2>1
  <2>4. masked[n] BY <1>1, <2>1, <2>3 DEF OthersRun, Others
  <2> QED BY <2>1, <2>2, <2>3, <2>4 DEF MasksReserved
<1>16. HandoverHeld' BY <1>1, <1>15 DEF HandoverHeld
<1> QED BY <1>5, <1>6, <1>7, <1>8, <1>10, <1>12, <1>14, <1>16
-----------------------------------------------------------------------------
(* The deliveries of the queue, and workers that die. *)

\* A step that ends or does nothing of what is under way, and leaves the rows alone.
LEMMA NothingUnderWay ==
  ASSUME HaInv, UNCHANGED <<plan, change, running, masked, config>>,
         WorkTyped', TasksOfPlans', HaTypeOK',
         writing' => writing /\ work' = work,
         UNCHANGED <<work, tasks>> \/ (work'.step \notin Working \cup {"observing", "ending"}),
         \A q \in Plans : plan[q].task # 0 =>
             tasks'[plan[q].task].action = tasks[plan[q].task].action
  PROVE  HaInv'
<1> USE DEF HaInv
<1>1. WritersAlone' BY DEF WritersAlone, Reserves
<1>2. Working = Draining \cup Returning /\ "masked" \in Draining /\ "checking" \in Draining
      /\ "stopping" \in Draining /\ "watching" \in Returning
  BY DEF Working, Draining, Returning
<1>3. WorkersAlone' /\ DrainsAsReviewed'
  <2>1. CASE UNCHANGED <<work, tasks>>
    <3>1. PlanOf' = PlanOf /\ Asked' = Asked /\ NodeOf' = NodeOf
      BY <2>1 DEF PlanOf, Asked, NodeOf
    <3>2. WorkersAlone' BY <2>1, <3>1 DEF WorkersAlone, Reserves
    <3>3. DrainsAsReviewed' BY <2>1, <3>1 DEF DrainsAsReviewed, OthersRun, Others
    <3> QED BY <3>2, <3>3
  <2>2. CASE work'.step \notin Working \cup {"observing", "ending"}
    <3>1. WorkersAlone' BY <1>2, <2>2 DEF WorkersAlone
    <3>2. DrainsAsReviewed' BY <1>2, <2>2 DEF DrainsAsReviewed
    <3> QED BY <3>1, <3>2
  <2> QED BY <2>1, <2>2
<1>4. MasksReserved' BY DEF MasksReserved, OthersRun, Others
<1>5. HandoverHeld' BY DEF HandoverHeld, Drained, OthersRun, Others
<1> QED BY <1>1, <1>3, <1>4, <1>5

LEMMA ReadEarlyKeeps ==
  ASSUME HaInv, NEW t \in TaskIds, ReadEarly(t)
  PROVE  HaInv'
<1> USE DEF HaInv
<1>1. /\ Spends("mishaps") /\ waiting' = waiting \cup {t}
      /\ UNCHANGED <<plan, change, tasks, work, writing, running, masked, config>>
  BY DEF ReadEarly, haRows, haHost
<1>2. MishapsOnly BY <1>1, MishapSpent DEF WorkTyped
<1>3. WorkTyped' BY <1>1, <1>2 DEF WorkTyped, HeldTask, MishapsOnly
<1>4. HaTypeOK' BY <1>1 DEF HaTypeOK
<1>5. TasksOfPlans' BY <1>1 DEF TasksOfPlans
<1> QED BY <1>1, <1>3, <1>4, <1>5, NothingUnderWay

LEMMA StutterKeeps ==
  ASSUME HaInv, UNCHANGED haVars
  PROVE  HaInv'
<1> USE DEF HaInv
<1>1. UNCHANGED <<plan, change, tasks, work, waiting, writing, running, masked, config, spare>>
  BY DEF haVars
<1>2. WorkTyped' BY <1>1 DEF WorkTyped, HeldTask
<1>3. HaTypeOK' BY <1>1 DEF HaTypeOK
<1>4. TasksOfPlans' BY <1>1 DEF TasksOfPlans
<1> QED BY <1>1, <1>2, <1>3, <1>4, NothingUnderWay

LEMMA DiesKeeps ==
  ASSUME HaInv, Dies
  PROVE  HaInv'
<1> USE DEF HaInv
<1>1. /\ Spends("mishaps") /\ work' = Resting /\ work # Resting
      /\ UNCHANGED <<plan, change, tasks, waiting, writing, running, masked, config>>
  BY DEF Dies, haRows, haHost
<1>2. MishapsOnly BY <1>1, MishapSpent DEF WorkTyped
<1>3. WorkTyped' BY <1>1, <1>2 DEF WorkTyped, MishapsOnly
<1>4. HaTypeOK' BY <1>1 DEF HaTypeOK
<1>5. TasksOfPlans' BY <1>1 DEF TasksOfPlans
<1>6. ~writing BY <1>1 DEF WritersAlone
<1>7. work'.step \notin Working \cup {"observing", "ending"}
  BY <1>1, RestingSteps DEF Resting
<1> QED BY <1>1, <1>3, <1>4, <1>5, <1>6, <1>7, NothingUnderWay

LEMMA BeginKeeps ==
  ASSUME HaInv, NEW t \in TaskIds, Begin(t)
  PROVE  HaInv'
<1> USE DEF HaInv
<1> DEFINE a == [tasks[t] EXCEPT !.status = "started"]
<1>1. /\ ~writing /\ tasks[t].status \in {"created", "started"}
      /\ waiting' \in SUBSET TaskIds /\ tasks' = [tasks EXCEPT ![t] = a]
      /\ work' = [step |-> "begun", task |-> t]
      /\ UNCHANGED <<plan, change, writing, running, masked, config, spare>>
  BY DEF Begin, Locked, haHost, WorkTyped
<1>2. tasks \in [TaskIds -> ActionRows] BY DEF HaTypeOK
<1>3. /\ a \in ActionRows /\ a.status = "started" /\ a.plan = tasks[t].plan
      /\ a.action = tasks[t].action
  BY <1>1, <1>2 DEF ActionRows
<1> HIDE DEF a
<1>4. /\ tasks' \in [TaskIds -> ActionRows]
      /\ \A u \in TaskIds : tasks'[u] = IF u = t THEN a ELSE tasks[u]
  BY <1>1, <1>2, <1>3
<1>5. HaTypeOK' BY <1>1, <1>4 DEF HaTypeOK
<1>6. /\ work'.step = "begun" /\ work' \in [step : BusySteps, task : TaskIds] /\ work'.task = t
  BY <1>1 DEF BusySteps
<1>7. WorkTyped' BY <1>1, <1>3, <1>4, <1>6 DEF WorkTyped, HeldTask
<1>8. \A q \in Plans : plan[q].task # 0 => plan[q].task \in TaskIds
  BY PlanFields DEF HaTypeOK
<1>9. TasksOfPlans'
  <2>1. /\ \A q \in Plans : plan[q].task # 0 =>
              tasks[plan[q].task].status \in {"created", "started"} /\ tasks[plan[q].task].plan = q
        /\ \A u \in TaskIds : tasks[u].status \in {"created", "started"} =>
              plan[tasks[u].plan].status # "none"
    BY DEF TasksOfPlans
  <2>2. \A q \in Plans : plan[q].task # 0 =>
          tasks'[plan[q].task].status \in {"created", "started"} /\ tasks'[plan[q].task].plan = q
    BY <1>3, <1>4, <1>8, <2>1
  <2>3. \A u \in TaskIds : tasks'[u].status \in {"created", "started"} =>
          plan[tasks'[u].plan].status # "none"
    BY <1>1, <1>3, <1>4, <2>1
  <2> QED BY <1>1, <2>2, <2>3 DEF TasksOfPlans
<1>10. work'.step \notin Working \cup {"observing", "ending"}
  BY <1>6 DEF Working, Draining, Returning
<1>11. \A q \in Plans : plan[q].task # 0 =>
         tasks'[plan[q].task].action = tasks[plan[q].task].action
  BY <1>3, <1>4, <1>8
<1> QED BY <1>1, <1>5, <1>7, <1>9, <1>10, <1>11, NothingUnderWay

\* When its row is written, no plan has the task any more.
LEMMA EndTaskKeeps ==
  ASSUME HaInv, EndTask
  PROVE  HaInv'
<1> USE DEF HaInv
<1> DEFINE t == work.task
           a == [status |-> "ended"]
<1>1. work # Resting BY AtWork DEF EndTask
<1>2. /\ work.step = "ending" /\ tasks' = [tasks EXCEPT ![t] = a] /\ work' = Resting
      /\ waiting' = waiting \ {t}
      /\ UNCHANGED <<plan, change, writing, running, masked, config, spare>>
  BY DEF EndTask, At, haHost
<1>3. t \in TaskIds /\ t # 0 /\ PlanOf \in Plans BY <1>1, WorkFacts
<1>4. a \in ActionRows /\ a.status = "ended" BY DEF ActionRows
<1> HIDE DEF a
<1>5. /\ tasks' \in [TaskIds -> ActionRows]
      /\ \A u \in TaskIds : tasks'[u] = IF u = t THEN a ELSE tasks[u]
  BY <1>2, <1>3, <1>4 DEF HaTypeOK
<1>6. HaTypeOK' BY <1>2, <1>5 DEF HaTypeOK
<1>7. WorkTyped' BY <1>2 DEF WorkTyped
<1>8. \A q \in Plans : plan[q].task # t
  <2>1. plan[PlanOf].task # t BY <1>2 DEF WorkersAlone
  <2>2. \A q \in Plans : plan[q].task = t => q = PlanOf BY <1>3 DEF TasksOfPlans, PlanOf
  <2> QED BY <2>1, <2>2
<1>9. \A q \in Plans : plan[q].task # 0 =>
        plan[q].task \in TaskIds /\ tasks'[plan[q].task] = tasks[plan[q].task]
  BY <1>5, <1>8, PlanFields DEF HaTypeOK
<1>10. TasksOfPlans' BY <1>2, <1>4, <1>5, <1>9 DEF TasksOfPlans
<1>11. ~writing BY <1>1 DEF WritersAlone
<1>12. work'.step \notin Working \cup {"observing", "ending"}
  BY <1>2, RestingSteps DEF Resting
<1> QED BY <1>2, <1>6, <1>7, <1>9, <1>10, <1>11, <1>12, NothingUnderWay

\* An interrupted action reserves the cluster for its plan, whatever that was.
LEMMA InterruptedKeeps ==
  ASSUME HaInv, NEW t \in TaskIds, Interrupted(t)
  PROVE  HaInv'
<1> USE DEF HaInv
<1> DEFINE p == tasks[t].plan
           r == [plan[p] EXCEPT !.status = "unknown", !.task = 0]
           c == [change[p] EXCEPT !.status = "deployment_interrupted", !.task = 0]
           a == [status |-> "ended"]
<1>1. /\ work = Resting /\ ~writing /\ tasks[t].status = "started"
      /\ plan' = [plan EXCEPT ![p] = r] /\ change' = [change EXCEPT ![p] = c]
      /\ tasks' = [tasks EXCEPT ![t] = a] /\ waiting' = waiting \ {t}
      /\ UNCHANGED <<work, writing, running, masked, config, spare>>
  BY DEF Interrupted, Locked, haHost
<1>2. /\ plan \in [Plans -> PlanRows] /\ change \in [Plans -> ApprovalRows]
      /\ tasks \in [TaskIds -> ActionRows]
  BY DEF HaTypeOK
<1>3. p \in Plans BY <1>1, <1>2, ActionFields
<1>4. plan[p].status # "none" BY <1>1 DEF TasksOfPlans
<1>5. /\ r \in PlanRows /\ r.status = "unknown" /\ r.task = 0 /\ r.node = plan[p].node
      /\ r.review = plan[p].review
  <2>1. "unknown" \in PlanStatuses BY DEF PlanStatuses, ReservedStatuses
  <2>2. plan[p] \in PlanRows BY <1>2, <1>3
  <2> QED BY <2>1, <2>2 DEF PlanRows
<1>6. c \in ApprovalRows BY <1>2, <1>3 DEF ApprovalRows
<1>7. a \in ActionRows /\ a.status = "ended" BY DEF ActionRows
<1> HIDE DEF r, c, a, p
<1>8. /\ plan' \in [Plans -> PlanRows] /\ change' \in [Plans -> ApprovalRows]
      /\ tasks' \in [TaskIds -> ActionRows]
      /\ \A q \in Plans : plan'[q] = IF q = p THEN r ELSE plan[q]
      /\ \A u \in TaskIds : tasks'[u] = IF u = t THEN a ELSE tasks[u]
  BY <1>1, <1>2, <1>3, <1>5, <1>6, <1>7
<1>9. HaTypeOK' BY <1>1, <1>8 DEF HaTypeOK
<1>10. WorkTyped' BY <1>1 DEF WorkTyped
<1>11. \A q \in Plans : q # p /\ plan[q].task # 0 => plan[q].task \in TaskIds /\ plan[q].task # t
  BY <1>2, PlanFields DEF TasksOfPlans, p
<1>12. \A q \in Plans : plan'[q].task # 0 =>
         plan'[q].task \in TaskIds /\ plan[q].task = plan'[q].task
         /\ tasks'[plan'[q].task] = tasks[plan[q].task]
  BY <1>5, <1>8, <1>11
<1>13. TasksOfPlans'
  <2>1. /\ \A q \in Plans : plan[q].status = "none" => plan[q].task = 0
        /\ \A q \in Plans : plan[q].task # 0 =>
              tasks[plan[q].task].status \in {"created", "started"} /\ tasks[plan[q].task].plan = q
        /\ \A q \in Plans : plan[q].status # "none" => plan[q].node \in ClusterNodes
        /\ \A u \in TaskIds : tasks[u].status \in {"created", "started"} =>
              plan[tasks[u].plan].status # "none"
    BY DEF TasksOfPlans
  <2>2. \A u \in TaskIds : tasks[u].status \in {"created", "started"} => tasks[u].plan \in Plans
    BY <1>2, ActionFields
  <2>3. \A q \in Plans : plan'[q].task # 0 =>
          tasks'[plan'[q].task].status \in {"created", "started"} /\ tasks'[plan'[q].task].plan = q
    BY <1>12, <2>1
  <2>4. \A u \in TaskIds : tasks'[u].status \in {"created", "started"} =>
          plan'[tasks'[u].plan].status # "none"
    BY <1>5, <1>7, <1>8, <2>1, <2>2
  <2>5. \A q \in Plans : plan'[q].status = "none" => plan'[q].task = 0
    BY <1>5, <1>8, <2>1
  <2>6. \A q \in Plans : plan'[q].status # "none" => plan'[q].node \in ClusterNodes
    BY <1>3, <1>4, <1>5, <1>8, <2>1
  <2> QED BY <2>3, <2>4, <2>5, <2>6 DEF TasksOfPlans
<1>14. WritersAlone' BY <1>1 DEF WritersAlone
<1>15. WorkersAlone' /\ DrainsAsReviewed'
  BY <1>1, RestingSteps DEF WorkersAlone, DrainsAsReviewed, Resting
<1>16. MasksReserved'
  <2> SUFFICES ASSUME NEW m \in ClusterNodes, masked[m]
               PROVE  /\ \E q \in Plans : /\ plan'[q].node = m
                                          /\ plan'[q].status \in ReservedStatuses
                                          /\ plan'[q].review.config = config
                      /\ \A k \in ClusterNodes : masked[k] => k = m
                      /\ running[m] => OthersRun(m)
                      /\ \A q \in Plans : plan'[q].task # 0 \/ plan'[q].status = "ready" =>
                             plan'[q].node = m
                      /\ \A q \in Plans : plan'[q].task # 0 =>
                             tasks'[plan'[q].task].action # "review"
    BY <1>1 DEF MasksReserved, OthersRun, Others
  <2>1. PICK q \in Plans : /\ plan[q].node = m /\ plan[q].status \in ReservedStatuses
                           /\ plan[q].review.config = config
    BY DEF MasksReserved
  <2>2. plan'[q].node = m /\ plan'[q].status \in ReservedStatuses /\ plan'[q].review.config = config
    BY <1>5, <1>8, <2>1 DEF ReservedStatuses
  <2>3. \A o \in Plans : plan'[o].task # 0 \/ plan'[o].status = "ready" => plan'[o].node = m
    BY <1>5, <1>8 DEF MasksReserved
  <2>4. \A o \in Plans : plan'[o].task # 0 => tasks'[plan'[o].task].action # "review"
    BY <1>12 DEF MasksReserved
  <2> QED BY <2>2, <2>3, <2>4 DEF MasksReserved
<1>17. HandoverHeld'
  BY <1>1, <1>5, <1>8 DEF HandoverHeld, Drained, OthersRun, Others
<1> QED BY <1>9, <1>10, <1>13, <1>14, <1>15, <1>16, <1>17
-----------------------------------------------------------------------------

LEMMA InitHolds ==
  ASSUME HaInit
  PROVE  HaInv
<1>1. /\ plan = [p \in Plans |-> NoPlan] /\ change = [p \in Plans |-> NoChange]
      /\ tasks = [t \in TaskIds |-> [status |-> "none"]]
      /\ work = Resting /\ waiting = {} /\ writing = FALSE
      /\ running = [n \in ClusterNodes |-> TRUE] /\ masked = [n \in ClusterNodes |-> FALSE]
      /\ config = 1 /\ spare = [writes |-> MaxWrites, mishaps |-> MaxMishaps]
  BY DEF HaInit
<1>2. /\ \A p \in Plans : plan[p] = NoPlan
      /\ NoPlan.status = "none" /\ NoPlan.task = 0
  BY <1>1 DEF NoPlan
<1>3. /\ [status |-> "none"] \in ActionRows
      /\ \A t \in TaskIds : tasks[t].status = "none"
  BY <1>1 DEF ActionRows
<1>4. HaTypeOK
  BY <1>1, <1>3, Basics, MaintenanceAssumption DEF HaTypeOK
<1>5. WorkTyped
  <2>1. MaxWrites \in Nat /\ MaxMishaps \in Nat BY MaintenanceAssumption
  <2>2. spare \in [writes : Nat, mishaps : Nat] /\ spare.writes = MaxWrites
    BY <1>1, <2>1
  <2>3. config + spare.writes <= MaxWrites + 1 BY <1>1, <2>1, <2>2
  <2> QED BY <1>1, <2>2, <2>3 DEF WorkTyped
<1>6. TasksOfPlans BY <1>2, <1>3 DEF TasksOfPlans
<1>7. WritersAlone BY <1>1 DEF WritersAlone
<1>8. WorkersAlone /\ DrainsAsReviewed
  BY <1>1, RestingSteps DEF WorkersAlone, DrainsAsReviewed, Resting
<1>9. MasksReserved BY <1>1 DEF MasksReserved
<1>10. HandoverHeld BY <1>2 DEF HandoverHeld
<1> QED BY <1>4, <1>5, <1>6, <1>7, <1>8, <1>9, <1>10 DEF HaInv

LEMMA StepKeeps ==
  ASSUME HaInv, [HaNext]_haVars
  PROVE  HaInv'
<1>1. CASE \E p \in Plans : \/ \E n \in ClusterNodes : CreatePlan(p, n)
                            \/ \E action \in Actions : EnqueueAction(p, action)
                            \/ Approve(p) \/ CancelOnPage(p) \/ CancelByApi(p)
  BY <1>1, CreatePlanKeeps, EnqueueActionKeeps, ApprovalsKeep
<1>2. CASE WriterEnters BY <1>2, WriterEntersKeeps
<1>3. CASE Write BY <1>3, WriteKeeps
<1>4. CASE \E n \in ClusterNodes : Reboot(n) BY <1>4, RebootKeeps
<1>5. CASE \E t \in TaskIds : ReadEarly(t) \/ Begin(t) \/ Interrupted(t)
  BY <1>5, ReadEarlyKeeps, BeginKeeps, InterruptedKeeps
<1>6. CASE EndTask BY <1>6, EndTaskKeeps
<1>7. CASE \E returning \in BOOLEAN : Review(returning) BY <1>7, ReviewKeeps
<1>8. CASE WithdrawApproval BY <1>8, WithdrawApprovalKeeps
<1>9. CASE StartDrain BY <1>9, StartDrainKeeps
<1>10. CASE StartReturn BY <1>10, StartReturnKeeps
<1>11. CASE StartVerify BY <1>11, StartVerifyKeeps
<1>12. CASE Refused BY <1>12, RefusedKeeps
<1>13. CASE JournalHold BY <1>13, JournalHoldKeeps
<1>14. CASE Mask BY <1>14, MaskKeeps
<1>15. CASE JournalHeld BY <1>15, JournalHeldKeeps
<1>16. CASE CheckAgain BY <1>16, CheckAgainKeeps
<1>17. CASE StopKeepalived BY <1>17, StopKeepalivedKeeps
<1>18. CASE HandOver BY <1>18, HandOverKeeps
<1>19. CASE JournalRestore BY <1>19, JournalRestoreKeeps
<1>20. CASE Unmask BY <1>20, UnmaskKeeps
<1>21. CASE JournalRestored BY <1>21, JournalRestoredKeeps
<1>22. CASE StartKeepalived BY <1>22, StartKeepalivedKeeps
<1>23. CASE Complete BY <1>23, CompleteKeeps
<1>24. CASE RemoteFails BY <1>24, RemoteFailsKeeps
<1>25. CASE Dies BY <1>25, DiesKeeps
<1>26. CASE UNCHANGED haVars BY <1>26, StutterKeeps
<1> QED
  BY <1>1, <1>2, <1>3, <1>4, <1>5, <1>6, <1>7, <1>8, <1>9, <1>10, <1>11, <1>12, <1>13,
     <1>14, <1>15, <1>16, <1>17, <1>18, <1>19, <1>20, <1>21, <1>22, <1>23, <1>24, <1>25,
     <1>26
  DEF HaNext

LEMMA Invariance == HaSpec => []HaInv
BY InitHolds, StepKeeps, PTL DEF HaSpec

\* What a step may do to a node that runs.
StopAllowed(n) ==
    \/ writing
    \/ masked[n] /\ \E p \in Plans :
          /\ plan[p].node = n /\ plan[p].review.config = config /\ OthersRun(n)
          /\ work' # work => change[p].approver

LEMMA StopKeepalivedAllowed ==
  ASSUME HaInv, StopKeepalived, NEW n \in ClusterNodes, running[n], ~running'[n]
  PROVE  StopAllowed(n)
<1> USE DEF HaInv
<1>1. work # Resting BY AtWork DEF StopKeepalived
<1>2. NodeOf \in ClusterNodes /\ PlanOf \in Plans BY <1>1, WorkFacts
<1>3. work.step = "stopping" /\ running' = [running EXCEPT ![NodeOf] = FALSE]
  BY DEF StopKeepalived, At
<1>4. n = NodeOf BY <1>3 DEF HaTypeOK
<1>5. work.step \in Draining BY <1>3 DEF Draining
<1>6. /\ masked[n] /\ plan[PlanOf].review.config = config /\ OthersRun(n)
      /\ change[PlanOf].approver
  BY <1>3, <1>4, <1>5 DEF DrainsAsReviewed
<1> QED BY <1>2, <1>4, <1>6 DEF StopAllowed, NodeOf

LEMMA RebootAllowed ==
  ASSUME HaInv, NEW m \in ClusterNodes, Reboot(m),
         NEW n \in ClusterNodes, running[n], ~running'[n]
  PROVE  StopAllowed(n)
<1> USE DEF HaInv
<1>1. running[m] = masked[m] /\ running' = [running EXCEPT ![m] = ~masked[m]] /\ work' = work
  BY DEF Reboot
<1>2. n = m /\ masked[n] BY <1>1 DEF HaTypeOK
<1>3. \E p \in Plans : plan[p].node = n /\ plan[p].review.config = config
  BY <1>2 DEF MasksReserved
<1>4. OthersRun(n) BY <1>2 DEF MasksReserved
<1> QED BY <1>1, <1>2, <1>3, <1>4 DEF StopAllowed

LEMMA StopsStep ==
  ASSUME HaInv, [HaNext]_haVars, NEW n \in ClusterNodes, running[n], ~running'[n]
  PROVE  StopAllowed(n)
<1>1. running' # running OBVIOUS
<1>2. ASSUME UNCHANGED haHost \/ UNCHANGED running
      PROVE  FALSE
  BY <1>1, <1>2 DEF haHost
<1>3. CASE \E p \in Plans : \/ \E m \in ClusterNodes : CreatePlan(p, m)
                            \/ \E action \in Actions : EnqueueAction(p, action)
                            \/ Approve(p) \/ CancelOnPage(p) \/ CancelByApi(p)
  BY <1>2, <1>3 DEF CreatePlan, EnqueueAction, Approve, CancelOnPage, CancelByApi, Cancel
<1>4. CASE WriterEnters BY <1>2, <1>4 DEF WriterEnters
<1>5. CASE Write BY <1>5 DEF Write, StopAllowed
<1>6. CASE \E m \in ClusterNodes : Reboot(m) BY <1>6, RebootAllowed
<1>7. CASE \E t \in TaskIds : ReadEarly(t) \/ Begin(t) \/ Interrupted(t)
  BY <1>2, <1>7 DEF ReadEarly, Begin, Interrupted
<1>8. CASE EndTask \/ \E returning \in BOOLEAN : Review(returning)
  BY <1>2, <1>8 DEF EndTask, Review
<1>9. CASE WithdrawApproval \/ StartDrain \/ StartReturn \/ StartVerify \/ Refused
  BY <1>2, <1>9 DEF WithdrawApproval, StartDrain, StartReturn, StartVerify, Refused
<1>10. CASE JournalHold \/ Mask \/ JournalHeld \/ CheckAgain \/ HandOver
  BY <1>2, <1>10 DEF JournalHold, Mask, JournalHeld, CheckAgain, HandOver
<1>11. CASE StopKeepalived BY <1>11, StopKeepalivedAllowed
<1>12. CASE JournalRestore \/ Unmask \/ JournalRestored \/ Complete \/ RemoteFails \/ Dies
  BY <1>2, <1>12 DEF JournalRestore, Unmask, JournalRestored, Complete, RemoteFails, Dies
<1>13. CASE StartKeepalived
  <2>1. running' = running \/ running' = [running EXCEPT ![NodeOf] = TRUE]
    BY <1>13 DEF StartKeepalived
  <2> QED BY <2>1 DEF HaInv, HaTypeOK
<1>14. CASE UNCHANGED haVars BY <1>2, <1>14 DEF haVars
<1> QED
  BY <1>3, <1>4, <1>5, <1>6, <1>7, <1>8, <1>9, <1>10, <1>11, <1>12, <1>13, <1>14 DEF HaNext

\* The rows, the nodes and the configuration have their types.
THEOREM HaTypeCorrect == HaSpec => []HaTypeOK
<1>1. HaInv => HaTypeOK BY DEF HaInv
<1> QED BY <1>1, Invariance, PTL

\* A node is stopped only as it was reviewed and approved, and a node that was handed over is
\* held as it was.
THEOREM StoppedAndHeldAlways == HaSpec => StoppedAndHeld
<1>1. HaInv => HandoverHeld BY DEF HaInv
<1>2. HaInv /\ [HaNext]_haVars =>
        [\A n \in ClusterNodes : running[n] /\ ~running'[n] =>
            \/ writing
            \/ masked[n] /\ \E p \in Plans :
                  /\ plan[p].node = n /\ plan[p].review.config = config /\ OthersRun(n)
                  /\ work' # work => change[p].approver]_haVars
  BY StopsStep DEF StopAllowed
<1> QED BY <1>1, <1>2, Invariance, PTL DEF HaSpec, StoppedAndHeld, StopsAsReviewed
=============================================================================
