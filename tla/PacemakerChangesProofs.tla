----------------------- MODULE PacemakerChangesProofs -----------------------
(* Proofs about the changes of a Pacemaker cluster, for any number of         *)
(* configurations, changes, operations and workers, and any number of edits,  *)
(* deaths, timeouts and lapses.                                               *)
EXTENDS PacemakerChanges, HaMaintenanceProofs, OperationQueueProofs, MCCommands, TLAPS

\* A transaction that may still commit is about a change that was saved and, to
\* be applied, simulated; if nobody has touched the configuration since it was
\* compared, that is still the one the draft was made from.
Pending(tx) == tx.step \in {"begun", "patching"}

TxSound(tx, rows, simulated, x) ==
    Pending(tx) =>
        /\ rows[tx.change].status # "none"
        /\ tx.apply => tx.change \in simulated
        /\ tx.step = "patching" /\ tx.intact => x = rows[tx.change].base

TxInv ==
    /\ \A w \in ClusterWorkers : TxSound(exec[w].tx, changes, reviewed, cib)
    /\ \A tx \in orphans : TxSound(tx, changes, reviewed, cib)

\* What is offered for an attempt was simulated, and so was what a worker has
\* read under the lock.
RowsReviewed == \A c \in ChangeIds : changes[c].status = "validated" => c \in reviewed
SeenReviewed == \A w \in ClusterWorkers : exec[w].seen = "validated" => exec[w].change \in reviewed

IndInv == PacemakerTypeOK /\ TxInv /\ RowsReviewed /\ SeenReviewed

-----------------------------------------------------------------------------
\* The values that are written have their types.
LEMMA Members ==
  /\ {"idle", "claimed", "lock", "finish", "read", "remote", "operating", "release"} \subseteq WorkSteps
  /\ {"none", "draft", "validating", "validated", "failed", "applying", "applied", "unknown"}
       \subseteq ChangeStatuses
  /\ {"none", "validate", "apply", "operate"} \subseteq Kinds
  /\ 1 \in ChangeIds /\ NoTransaction \in Transactions /\ NoWork \in Works /\ Unused \in TaskRows
<1>1. 1 \in ChangeIds
  BY PacemakerAssumption DEF ChangeIds
<1>2. NoTransaction \in Transactions
  BY <1>1 DEF NoTransaction, Transactions
<1>3. NoWork \in Works
  BY <1>1, <1>2 DEF NoWork, Works, WorkSteps, ChangeStatuses, Kinds
<1> QED
  BY <1>1, <1>2, <1>3
  DEF WorkSteps, LockedSteps, ChangeStatuses, Attempted, Kinds, Unused, TaskRows

\* What happens to a transaction keeps its type, and its change.
LEMMA OutdatedTransaction ==
  ASSUME NEW tx \in Transactions
  PROVE  /\ Outdated(tx) \in Transactions
         /\ Outdated(tx).step = tx.step /\ Outdated(tx).change = tx.change
         /\ Outdated(tx).apply = tx.apply
         /\ Outdated(tx).ok = tx.ok
         /\ tx.step = "patching" => ~Outdated(tx).intact
BY DEF Outdated, Transactions

LEMMA ComparedTransaction ==
  ASSUME NEW tx \in Transactions
  PROVE  /\ Compared(tx) \in Transactions /\ Compared(tx).step \in {"patching", "done"}
         /\ Compared(tx).change = tx.change /\ Compared(tx).apply = tx.apply
         /\ Compared(tx).step = "patching" => cib = changes[tx.change].base
         /\ Compared(tx).step = "done" => ~Compared(tx).ok
BY DEF Compared, Transactions

LEMMA EndedTransaction ==
  ASSUME NEW tx \in Transactions
  PROVE  /\ Ended(tx) \in Transactions /\ Ended(tx).step = "done"
         /\ Ended(tx).change = tx.change /\ Ended(tx).apply = tx.apply
         /\ tx.apply => Ended(tx).ok = tx.intact
BY DEF Ended, Transactions

\* A worker is still at the same operation.
SameTask(n, e) == n.op = e.op /\ n.kind = e.kind /\ n.change = e.change

\* The fields of what a worker does.
LEMMA WorkFields ==
  ASSUME NEW e \in Works
  PROVE  /\ e.step \in WorkSteps /\ e.op \in Operations \cup {NoOperation} /\ e.kind \in Kinds
         /\ e.change \in ChangeIds /\ e.again \in BOOLEAN /\ e.seen \in ChangeStatuses
         /\ e.tx \in Transactions
BY DEF Works

\* A worker that goes on to another step keeps everything else.
LEMMA ProceedWorks ==
  ASSUME NEW e \in Works, NEW s \in WorkSteps
  PROVE  LET n == [e EXCEPT !.step = s] IN
         /\ n \in Works /\ n.step = s /\ SameTask(n, e)
         /\ n.again = e.again /\ n.seen = e.seen /\ n.tx = e.tx
BY DEF Works, SameTask

\* A worker that leaves its change forgets what it has read, and its transaction.
LEMMA LeaveWorks ==
  ASSUME NEW e \in Works, NEW s \in WorkSteps
  PROVE  LET n == [e EXCEPT !.step = s, !.seen = "none", !.again = FALSE, !.tx = NoTransaction] IN
         /\ n \in Works /\ n.step = s /\ SameTask(n, e)
         /\ n.seen = "none" /\ n.tx = NoTransaction
BY Members DEF Works, SameTask

\* Only the transaction of a worker changes.
LEMMA TransactionWorks ==
  ASSUME NEW e \in Works, NEW tx \in Transactions
  PROVE  LET n == [e EXCEPT !.tx = tx] IN
         /\ n \in Works /\ n.step = e.step /\ SameTask(n, e)
         /\ n.again = e.again /\ n.seen = e.seen /\ n.tx = tx
BY DEF Works, SameTask

\* A worker starts a transaction.
LEMMA RemoteWorks ==
  ASSUME NEW e \in Works, NEW tx \in Transactions
  PROVE  LET n == [e EXCEPT !.step = "remote", !.seen = "none", !.tx = tx] IN
         /\ n \in Works /\ n.step = "remote" /\ SameTask(n, e)
         /\ n.seen = "none" /\ n.tx = tx
BY Members DEF Works, SameTask

\* A worker takes an operation.
LEMMA ClaimWorks ==
  ASSUME NEW t \in Operations, NEW r \in TaskRows
  PROVE  LET n == [NoWork EXCEPT !.step = "claimed", !.op = t, !.kind = r.kind, !.change = r.change,
                                 !.again = r.started] IN
         /\ n \in Works /\ n.step = "claimed" /\ n.op = t
         /\ n.kind = r.kind /\ n.change = r.change /\ n.again = r.started
         /\ n.seen = "none" /\ n.tx = NoTransaction
BY Members DEF Works, TaskRows, NoWork

\* What one worker does leaves the others alone.
LEMMA OneWorks ==
  ASSUME PacemakerTypeOK, NEW w \in ClusterWorkers, NEW n \in Works, exec' = [exec EXCEPT ![w] = n]
  PROVE  /\ exec' \in [ClusterWorkers -> Works] /\ exec'[w] = n
         /\ \A v \in ClusterWorkers \ {w} : exec'[v] = exec[v]
BY DEF PacemakerTypeOK

\* A change of the configuration reaches every transaction.
LEMMA OutdatedWorks ==
  ASSUME PacemakerTypeOK, NEW ex \in [ClusterWorkers -> Works],
         exec' = [w \in ClusterWorkers |-> [ex[w] EXCEPT !.tx = Outdated(@)]]
  PROVE  /\ exec' \in [ClusterWorkers -> Works]
         /\ \A w \in ClusterWorkers :
               /\ exec'[w].tx = Outdated(ex[w].tx) /\ SameTask(exec'[w], ex[w])
               /\ exec'[w].step = ex[w].step /\ exec'[w].again = ex[w].again /\ exec'[w].seen = ex[w].seen
<1>1. ASSUME NEW w \in ClusterWorkers
      PROVE  /\ exec'[w] \in Works /\ exec'[w].tx = Outdated(ex[w].tx) /\ SameTask(exec'[w], ex[w])
             /\ exec'[w].step = ex[w].step /\ exec'[w].again = ex[w].again /\ exec'[w].seen = ex[w].seen
  <2>1. ex[w] \in Works
    OBVIOUS
  <2>2. Outdated(ex[w].tx) \in Transactions
    BY <2>1, WorkFields, OutdatedTransaction
  <2>3. exec'[w] = [ex[w] EXCEPT !.tx = Outdated(ex[w].tx)]
    OBVIOUS
  <2> QED
    BY <2>1, <2>2, <2>3, TransactionWorks
<1> QED
  BY <1>1


\* The same for the steps as the actions write them.
LEMMA LeaveStepWorks ==
  ASSUME PacemakerTypeOK, NEW w \in ClusterWorkers, NEW s \in WorkSteps, LeaveStep(w, s)
  PROVE  /\ exec' \in [ClusterWorkers -> Works]
         /\ exec'[w].step = s /\ SameTask(exec'[w], exec[w])
         /\ exec'[w].seen = "none" /\ exec'[w].tx = NoTransaction
         /\ \A v \in ClusterWorkers \ {w} : exec'[v] = exec[v]
<1> DEFINE n == [exec[w] EXCEPT !.step = s, !.seen = "none", !.again = FALSE, !.tx = NoTransaction]
<1>1. exec[w] \in Works
  BY DEF PacemakerTypeOK
<1>2. exec' = [exec EXCEPT ![w] = n]
  BY DEF LeaveStep, PacemakerTypeOK
<1>3. /\ n \in Works /\ n.step = s /\ SameTask(n, exec[w])
      /\ n.seen = "none" /\ n.tx = NoTransaction
  BY <1>1, LeaveWorks
<1> HIDE DEF n
<1> QED
  BY <1>2, <1>3, OneWorks

LEMMA ProceedStepWorks ==
  ASSUME PacemakerTypeOK, NEW w \in ClusterWorkers, NEW s \in WorkSteps, Proceed(w, s)
  PROVE  /\ exec' \in [ClusterWorkers -> Works]
         /\ exec'[w].step = s /\ SameTask(exec'[w], exec[w])
         /\ exec'[w].again = exec[w].again /\ exec'[w].seen = exec[w].seen /\ exec'[w].tx = exec[w].tx
         /\ \A v \in ClusterWorkers \ {w} : exec'[v] = exec[v]
<1> DEFINE n == [exec[w] EXCEPT !.step = s]
<1>1. exec[w] \in Works
  BY DEF PacemakerTypeOK
<1>2. exec' = [exec EXCEPT ![w] = n]
  BY DEF Proceed, PacemakerTypeOK
<1>3. /\ n \in Works /\ n.step = s /\ SameTask(n, exec[w])
      /\ n.again = exec[w].again /\ n.seen = exec[w].seen /\ n.tx = exec[w].tx
  BY <1>1, ProceedWorks
<1> HIDE DEF n
<1> QED
  BY <1>2, <1>3, OneWorks

LEMMA TransactionStepWorks ==
  ASSUME PacemakerTypeOK, NEW w \in ClusterWorkers, NEW tx \in Transactions,
         exec' = [exec EXCEPT ![w] = [exec[w] EXCEPT !.tx = tx]]
  PROVE  /\ exec' \in [ClusterWorkers -> Works]
         /\ exec'[w].step = exec[w].step /\ SameTask(exec'[w], exec[w])
         /\ exec'[w].again = exec[w].again /\ exec'[w].seen = exec[w].seen /\ exec'[w].tx = tx
         /\ \A v \in ClusterWorkers \ {w} : exec'[v] = exec[v]
<1> DEFINE n == [exec[w] EXCEPT !.tx = tx]
<1>1. exec[w] \in Works
  BY DEF PacemakerTypeOK
<1>2. /\ n \in Works /\ n.step = exec[w].step /\ SameTask(n, exec[w])
      /\ n.again = exec[w].again /\ n.seen = exec[w].seen /\ n.tx = tx
  BY <1>1, TransactionWorks
<1>3. exec' = [exec EXCEPT ![w] = n]
  OBVIOUS
<1> HIDE DEF n
<1> QED
  BY <1>2, <1>3, OneWorks

-----------------------------------------------------------------------------
(* What each action writes. *)

\* A change of the configuration keeps the types.
LEMMA AdminEditType ==
  ASSUME PacemakerTypeOK, NEW x \in Configurations, AdminEdit(x)
  PROVE  PacemakerTypeOK'
<1>1. exec' \in [ClusterWorkers -> Works]
  BY OutdatedWorks DEF AdminEdit, OutdateAll, PacemakerTypeOK
<1>2. orphans' \subseteq Transactions
  BY OutdatedTransaction DEF AdminEdit, OutdateAll, PacemakerTypeOK
<1> QED
  BY <1>1, <1>2, PacemakerAssumption
  DEF AdminEdit, AnEdit, PacemakerTypeOK, lockVars, historyVars

LEMMA SaveDraftType ==
  ASSUME PacemakerTypeOK, NEW c \in ChangeIds, NEW x \in Configurations, SaveDraft(c, x)
  PROVE  PacemakerTypeOK'
<1>1. [status |-> "draft", base |-> cib, candidate |-> x] \in ChangeRows
  BY Members DEF PacemakerTypeOK, ChangeRows
<1>2. changes' \in [ChangeIds -> ChangeRows]
  BY <1>1 DEF SaveDraft, PacemakerTypeOK
<1> QED
  BY <1>2, PacemakerAssumption
  DEF SaveDraft, Accident, Disturbance, bounds, PacemakerTypeOK, lockVars, historyVars

LEMMA EnqueueType ==
  ASSUME PacemakerTypeOK, NEW t \in Operations, NEW kind \in {"validate", "apply", "operate"},
         NEW c \in ChangeIds, Enqueue(t, kind, c)
  PROVE  PacemakerTypeOK'
<1>1. [kind |-> kind, change |-> c, started |-> FALSE, status |-> "created"] \in TaskRows
  BY DEF TaskRows, Kinds
<1>2. operation' \in [Operations -> TaskRows]
  BY <1>1 DEF Enqueue, PacemakerTypeOK
<1> QED
  BY <1>2 DEF Enqueue, bounds, PacemakerTypeOK, lockVars, historyVars

LEMMA ClaimOperationWorks ==
  ASSUME PacemakerTypeOK, NEW w \in ClusterWorkers, NEW t \in Operations, ClaimOperation(w, t)
  PROVE  /\ exec' \in [ClusterWorkers -> Works]
         /\ exec'[w].step = "claimed" /\ exec'[w].op = t
         /\ exec'[w].kind = operation[t].kind /\ exec'[w].change = operation[t].change
         /\ exec'[w].again = operation[t].started
         /\ exec'[w].seen = "none" /\ exec'[w].tx = NoTransaction
         /\ \A v \in ClusterWorkers \ {w} : exec'[v] = exec[v]
<1> DEFINE n == [NoWork EXCEPT !.step = "claimed", !.op = t, !.kind = operation[t].kind,
                               !.change = operation[t].change, !.again = operation[t].started]
<1>1. /\ n \in Works /\ n.step = "claimed" /\ n.op = t
      /\ n.kind = operation[t].kind /\ n.change = operation[t].change /\ n.again = operation[t].started
      /\ n.seen = "none" /\ n.tx = NoTransaction
  <2>1. n \in Works
    BY ClaimWorks DEF PacemakerTypeOK
  <2> QED
    BY <2>1 DEF NoWork
<1>2. exec' = [exec EXCEPT ![w] = n]
  BY DEF ClaimOperation
<1> HIDE DEF n
<1> QED
  BY <1>1, <1>2, OneWorks

LEMMA ClaimOperationType ==
  ASSUME PacemakerTypeOK, NEW w \in ClusterWorkers, NEW t \in Operations, ClaimOperation(w, t)
  PROVE  PacemakerTypeOK'
<1>1. operation' \in [Operations -> TaskRows]
  BY DEF ClaimOperation, PacemakerTypeOK, TaskRows
<1> QED
  BY <1>1, ClaimOperationWorks DEF ClaimOperation, bounds, PacemakerTypeOK, lockVars, historyVars

LEMMA SetStatusType ==
  ASSUME PacemakerTypeOK, NEW c \in ChangeIds, NEW s \in ChangeStatuses, SetStatus(c, s)
  PROVE  /\ changes' \in [ChangeIds -> ChangeRows]
         /\ \A d \in ChangeIds : /\ changes'[d].base = changes[d].base
                                 /\ changes'[d].candidate = changes[d].candidate
         /\ changes'[c].status = s
         /\ \A d \in ChangeIds \ {c} : changes'[d] = changes[d]
BY DEF SetStatus, PacemakerTypeOK, ChangeRows

LEMMA StartedType ==
  ASSUME PacemakerTypeOK, NEW t, NEW b \in BOOLEAN
  PROVE  [operation EXCEPT ![t].started = b] \in [Operations -> TaskRows]
<1>1. CASE t \in Operations
  <2>1. [operation[t] EXCEPT !.started = b] \in TaskRows
    BY <1>1 DEF PacemakerTypeOK, TaskRows
  <2> QED
    BY <1>1, <2>1 DEF PacemakerTypeOK
<1>2. CASE t \notin Operations
  BY <1>2 DEF PacemakerTypeOK
<1> QED
  BY <1>1, <1>2

LEMMA BeginOperationType ==
  ASSUME PacemakerTypeOK, NEW w \in ClusterWorkers, BeginOperation(w)
  PROVE  PacemakerTypeOK'
<1>0. exec[w] \in Works
  BY DEF PacemakerTypeOK
<1>1. exec' \in [ClusterWorkers -> Works]
  BY LeaveStepWorks, ProceedStepWorks, Members DEF BeginOperation
<1>2. changes' \in [ChangeIds -> ChangeRows]
  <2>1. CASE UNCHANGED changes
    BY <2>1 DEF PacemakerTypeOK
  <2>2. CASE exec[w].again /\ Kind(w) = "validate" /\ SetStatus(Target(w), "failed")
    BY <2>2, <1>0, WorkFields, SetStatusType, Members DEF Target
  <2>3. CASE exec[w].again /\ Kind(w) = "apply" /\ SetStatus(Target(w), "unknown")
    BY <2>3, <1>0, WorkFields, SetStatusType, Members DEF Target
  <2>4. Kind(w) \in Kinds
    BY <1>0, WorkFields DEF Kind
  <2> QED
    BY <2>1, <2>2, <2>3, <2>4 DEF BeginOperation, Kinds
<1>3. operation' \in [Operations -> TaskRows]
  <2>1. Live(exec[w].op) \in BOOLEAN
    BY DEF Live
  <2> QED
    BY <2>1, StartedType DEF BeginOperation, PacemakerTypeOK
<1>4. dropped' \subseteq ChangeIds
  BY <1>0, WorkFields DEF BeginOperation, PacemakerTypeOK, Target
<1> QED
  BY <1>1, <1>2, <1>3, <1>4 DEF BeginOperation, bounds, PacemakerTypeOK, lockVars, historyVars

LEMMA NotPermittedType ==
  ASSUME PacemakerTypeOK, NEW w \in ClusterWorkers, NotPermitted(w)
  PROVE  PacemakerTypeOK'
<1>0. exec[w] \in Works
  BY DEF PacemakerTypeOK
<1>1. exec' \in [ClusterWorkers -> Works]
  BY LeaveStepWorks, Members DEF NotPermitted
<1>2. dropped' \subseteq ChangeIds
  BY <1>0, WorkFields DEF NotPermitted, PacemakerTypeOK, Target
<1> QED
  BY <1>1, <1>2, PacemakerAssumption DEF NotPermitted, Accident, Disturbance, PacemakerTypeOK, lockVars

\* A worker that has taken the lock has read the status of its change.
LEMMA LockStepWorks ==
  ASSUME PacemakerTypeOK, NEW w \in ClusterWorkers, NEW s \in WorkSteps, NEW x \in ChangeStatuses,
         exec' = [exec EXCEPT ![w] = [exec[w] EXCEPT !.step = s, !.seen = x]]
  PROVE  /\ exec' \in [ClusterWorkers -> Works]
         /\ exec'[w].step = s /\ SameTask(exec'[w], exec[w])
         /\ exec'[w].seen = x /\ exec'[w].tx = exec[w].tx
         /\ \A v \in ClusterWorkers \ {w} : exec'[v] = exec[v]
<1> DEFINE n == [exec[w] EXCEPT !.step = s, !.seen = x]
<1>1. exec[w] \in Works
  BY DEF PacemakerTypeOK
<1>2. /\ n \in Works /\ n.step = s /\ SameTask(n, exec[w])
      /\ n.seen = x /\ n.tx = exec[w].tx
  BY <1>1 DEF Works, SameTask
<1>3. exec' = [exec EXCEPT ![w] = n]
  OBVIOUS
<1> HIDE DEF n
<1> QED
  BY <1>2, <1>3, OneWorks

LEMMA LockWorker ==
  ASSUME PacemakerTypeOK, NEW w \in ClusterWorkers, Lock(w), LockFree
  PROVE  /\ exec' \in [ClusterWorkers -> Works]
         /\ exec'[w].seen = changes[exec[w].change].status
         /\ exec'[w].step = (IF exec[w].kind = "operate" THEN "operating" ELSE "read")
         /\ SameTask(exec'[w], exec[w]) /\ exec'[w].tx = exec[w].tx
         /\ \A v \in ClusterWorkers \ {w} : exec'[v] = exec[v]
<1>1. changes[exec[w].change].status \in ChangeStatuses
  BY WorkFields DEF PacemakerTypeOK, ChangeRows
<1>2. "operating" \in WorkSteps /\ "read" \in WorkSteps
  BY Members
<1>3. ASSUME NEW s \in WorkSteps, s = (IF exec[w].kind = "operate" THEN "operating" ELSE "read")
      PROVE  /\ exec' \in [ClusterWorkers -> Works]
             /\ exec'[w].seen = changes[exec[w].change].status
             /\ exec'[w].step = s
             /\ SameTask(exec'[w], exec[w]) /\ exec'[w].tx = exec[w].tx
             /\ \A v \in ClusterWorkers \ {w} : exec'[v] = exec[v]
  <2>1. exec' = [exec EXCEPT ![w] = [exec[w] EXCEPT !.step = s, !.seen = changes[exec[w].change].status]]
    BY <1>3 DEF Lock, PacemakerTypeOK, Target, Kind
  <2>2. ASSUME NEW x \in ChangeStatuses, x = changes[exec[w].change].status
        PROVE  /\ exec' \in [ClusterWorkers -> Works]
               /\ exec'[w].step = s /\ SameTask(exec'[w], exec[w])
               /\ exec'[w].seen = x /\ exec'[w].tx = exec[w].tx
               /\ \A v \in ClusterWorkers \ {w} : exec'[v] = exec[v]
    <3>1. exec' = [exec EXCEPT ![w] = [exec[w] EXCEPT !.step = s, !.seen = x]]
      BY <2>1, <2>2
    <3> QED
      BY <3>1, LockStepWorks
  <2> QED
    BY <1>1, <2>2
<1> QED
  BY <1>2, <1>3

LEMMA LockType ==
  ASSUME PacemakerTypeOK, NEW w \in ClusterWorkers, Lock(w)
  PROVE  PacemakerTypeOK'
<1>1. exec' \in [ClusterWorkers -> Works]
  BY LockWorker, LeaveStepWorks, Members DEF Lock
<1> QED
  BY <1>1 DEF Lock, bounds, PacemakerTypeOK, lockVars, historyVars

LEMMA ReadCibWorker ==
  ASSUME PacemakerTypeOK, NEW w \in ClusterWorkers, ReadCib(w)
  PROVE  LET tx == [step |-> "begun", change |-> exec[w].change, apply |-> exec[w].kind = "apply",
                    intact |-> TRUE, ok |-> FALSE] IN
         /\ tx \in Transactions
         /\ exec' \in [ClusterWorkers -> Works]
         /\ exec'[w].step = "remote" /\ SameTask(exec'[w], exec[w])
         /\ exec'[w].seen = "none" /\ exec'[w].tx = tx
         /\ \A v \in ClusterWorkers \ {w} : exec'[v] = exec[v]
<1> DEFINE tx == [step |-> "begun", change |-> exec[w].change, apply |-> exec[w].kind = "apply",
                  intact |-> TRUE, ok |-> FALSE]
           n  == [exec[w] EXCEPT !.step = "remote", !.seen = "none", !.tx = tx]
<1>1. exec[w] \in Works
  BY DEF PacemakerTypeOK
<1>2. tx \in Transactions
  BY <1>1, WorkFields DEF Transactions
<1>3. exec' = [exec EXCEPT ![w] = n]
  BY DEF ReadCib, PacemakerTypeOK, Target, Applying, Kind
<1> HIDE DEF tx
<1>4. /\ n \in Works /\ n.step = "remote" /\ SameTask(n, exec[w])
      /\ n.seen = "none" /\ n.tx = tx
  BY <1>1, <1>2, RemoteWorks
<1> HIDE DEF n
<1>5. /\ exec' \in [ClusterWorkers -> Works]
      /\ exec'[w].step = "remote" /\ SameTask(exec'[w], exec[w])
      /\ exec'[w].seen = "none" /\ exec'[w].tx = tx
      /\ \A v \in ClusterWorkers \ {w} : exec'[v] = exec[v]
  BY <1>3, <1>4, OneWorks
<1> QED
  BY <1>2, <1>5 DEF tx

LEMMA ReadCibType ==
  ASSUME PacemakerTypeOK, NEW w \in ClusterWorkers, ReadCib(w)
  PROVE  PacemakerTypeOK'
<1>0. exec[w] \in Works
  BY DEF PacemakerTypeOK
<1>1. changes' \in [ChangeIds -> ChangeRows]
  BY <1>0, WorkFields, SetStatusType, Members DEF ReadCib, Target
<1> QED
  BY <1>1, ReadCibWorker DEF ReadCib, bounds, PacemakerTypeOK, lockVars, historyVars

LEMMA RefuseType ==
  ASSUME PacemakerTypeOK, NEW w \in ClusterWorkers, Refuse(w)
  PROVE  PacemakerTypeOK'
BY LeaveStepWorks, Members DEF Refuse, bounds, PacemakerTypeOK, lockVars, historyVars

LEMMA ReadFailsType ==
  ASSUME PacemakerTypeOK, NEW w \in ClusterWorkers, ReadFails(w)
  PROVE  PacemakerTypeOK'
BY LeaveStepWorks, Members, PacemakerAssumption
DEF ReadFails, Accident, Disturbance, PacemakerTypeOK, lockVars, historyVars

LEMMA OperateWorkers ==
  ASSUME PacemakerTypeOK, NEW w \in ClusterWorkers, NEW x \in Configurations, Operate(w, x)
  PROVE  /\ exec' \in [ClusterWorkers -> Works]
         /\ \A v \in ClusterWorkers :
               /\ exec'[v].tx = Outdated(exec[v].tx) /\ SameTask(exec'[v], exec[v])
               /\ exec'[v].step = (IF v = w THEN "release" ELSE exec[v].step)
               /\ exec'[v].again = exec[v].again /\ exec'[v].seen = exec[v].seen
<1> DEFINE n  == [exec[w] EXCEPT !.step = "release"]
           ex == [exec EXCEPT ![w].step = "release"]
<1>1. exec[w] \in Works
  BY DEF PacemakerTypeOK
<1>2. /\ n \in Works /\ n.step = "release" /\ SameTask(n, exec[w])
      /\ n.again = exec[w].again /\ n.seen = exec[w].seen /\ n.tx = exec[w].tx
  BY <1>1, ProceedWorks, Members
<1>3. ex = [exec EXCEPT ![w] = n]
  BY DEF PacemakerTypeOK
<1>4. exec' = [v \in ClusterWorkers |-> [ex[v] EXCEPT !.tx = Outdated(@)]]
  BY DEF Operate, OutdateAll
<1> HIDE DEF n, ex
<1>5. /\ ex \in [ClusterWorkers -> Works]
      /\ \A v \in ClusterWorkers :
            /\ ex[v].tx = exec[v].tx /\ SameTask(ex[v], exec[v])
            /\ ex[v].step = (IF v = w THEN "release" ELSE exec[v].step)
            /\ ex[v].again = exec[v].again /\ ex[v].seen = exec[v].seen
  BY <1>2, <1>3 DEF PacemakerTypeOK, SameTask
<1>6. /\ exec' \in [ClusterWorkers -> Works]
      /\ \A v \in ClusterWorkers :
            /\ exec'[v].tx = Outdated(ex[v].tx) /\ SameTask(exec'[v], ex[v])
            /\ exec'[v].step = ex[v].step /\ exec'[v].again = ex[v].again /\ exec'[v].seen = ex[v].seen
  BY <1>4, <1>5, OutdatedWorks
<1> QED
  BY <1>5, <1>6 DEF SameTask

LEMMA OrphansOutdated ==
  ASSUME PacemakerTypeOK, orphans' = {Outdated(tx) : tx \in orphans}
  PROVE  orphans' \subseteq Transactions
BY OutdatedTransaction DEF PacemakerTypeOK

LEMMA OperateType ==
  ASSUME PacemakerTypeOK, NEW w \in ClusterWorkers, NEW x \in Configurations, Operate(w, x)
  PROVE  PacemakerTypeOK'
<1>1. exec' \in [ClusterWorkers -> Works] /\ orphans' \subseteq Transactions
  BY OperateWorkers, OrphansOutdated DEF Operate, OutdateAll
<1>2. /\ AnEdit /\ cib' \in Configurations
      /\ UNCHANGED <<changes, operation, reserved, lockVars, historyVars>>
  BY DEF Operate
<1> QED
  BY <1>1, <1>2, PacemakerAssumption DEF AnEdit, PacemakerTypeOK, lockVars, historyVars

LEMMA CompareWorker ==
  ASSUME PacemakerTypeOK, NEW w \in ClusterWorkers, Compare(w)
  PROVE  /\ exec' \in [ClusterWorkers -> Works]
         /\ exec'[w].step = exec[w].step /\ SameTask(exec'[w], exec[w])
         /\ exec'[w].again = exec[w].again /\ exec'[w].seen = exec[w].seen
         /\ exec'[w].tx = Compared(exec[w].tx)
         /\ \A v \in ClusterWorkers \ {w} : exec'[v] = exec[v]
<1>1. Compared(exec[w].tx) \in Transactions
  BY ComparedTransaction, WorkFields DEF PacemakerTypeOK
<1>2. exec' = [exec EXCEPT ![w] = [exec[w] EXCEPT !.tx = Compared(exec[w].tx)]]
  BY DEF Compare, PacemakerTypeOK
<1> QED
  BY <1>1, <1>2, TransactionStepWorks

LEMMA CompareType ==
  ASSUME PacemakerTypeOK, NEW w \in ClusterWorkers, Compare(w)
  PROVE  PacemakerTypeOK'
BY CompareWorker DEF Compare, bounds, PacemakerTypeOK, lockVars, historyVars

\* A transaction that commits outdates all others; one that does not, none.
LEMMA TransactionEndsWorkers ==
  ASSUME PacemakerTypeOK, NEW w \in ClusterWorkers, TransactionEnds(w)
  PROVE  LET tx(v) == IF v = w THEN Ended(exec[w].tx) ELSE exec[v].tx IN
         /\ exec' \in [ClusterWorkers -> Works]
         /\ \A v \in ClusterWorkers :
               /\ exec'[v].step = exec[v].step /\ SameTask(exec'[v], exec[v])
               /\ exec'[v].again = exec[v].again /\ exec'[v].seen = exec[v].seen
         /\ IF exec[w].tx.apply /\ exec[w].tx.intact
            THEN \A v \in ClusterWorkers : exec'[v].tx = Outdated(tx(v))
            ELSE \A v \in ClusterWorkers : exec'[v].tx = tx(v)
<1> DEFINE tx(v) == IF v = w THEN Ended(exec[w].tx) ELSE exec[v].tx
           n  == [exec[w] EXCEPT !.tx = Ended(exec[w].tx)]
           ex == [exec EXCEPT ![w] = n]
<1>1. exec[w] \in Works /\ Ended(exec[w].tx) \in Transactions
  BY EndedTransaction, WorkFields DEF PacemakerTypeOK
<1>2. /\ n \in Works /\ n.step = exec[w].step /\ SameTask(n, exec[w])
      /\ n.again = exec[w].again /\ n.seen = exec[w].seen /\ n.tx = Ended(exec[w].tx)
  BY <1>1, TransactionWorks
<1>3. IF exec[w].tx.apply /\ exec[w].tx.intact
      THEN exec' = [v \in ClusterWorkers |-> [ex[v] EXCEPT !.tx = Outdated(@)]]
      ELSE exec' = ex
  <2>1. ex = [exec EXCEPT ![w].tx = Ended(@)]
    BY DEF PacemakerTypeOK
  <2> HIDE DEF ex, n
  <2> QED
    BY <2>1 DEF TransactionEnds, OutdateAll
<1> HIDE DEF n
<1>4. /\ ex \in [ClusterWorkers -> Works]
      /\ \A v \in ClusterWorkers :
            /\ ex[v].tx = tx(v) /\ SameTask(ex[v], exec[v])
            /\ ex[v].step = exec[v].step /\ ex[v].again = exec[v].again /\ ex[v].seen = exec[v].seen
  BY <1>2 DEF PacemakerTypeOK, SameTask
<1> HIDE DEF ex
<1>5. CASE exec[w].tx.apply /\ exec[w].tx.intact
  <2>1. exec' = [v \in ClusterWorkers |-> [ex[v] EXCEPT !.tx = Outdated(@)]]
    BY <1>3, <1>5
  <2>2. /\ exec' \in [ClusterWorkers -> Works]
        /\ \A v \in ClusterWorkers :
              /\ exec'[v].tx = Outdated(ex[v].tx) /\ SameTask(exec'[v], ex[v])
              /\ exec'[v].step = ex[v].step /\ exec'[v].again = ex[v].again /\ exec'[v].seen = ex[v].seen
    BY <2>1, <1>4, OutdatedWorks
  <2> QED
    BY <2>2, <1>4, <1>5 DEF SameTask
<1>6. CASE ~(exec[w].tx.apply /\ exec[w].tx.intact)
  BY <1>3, <1>4, <1>6
<1> QED
  BY <1>5, <1>6

LEMMA CommitType ==
  ASSUME PacemakerTypeOK, NEW tx \in Transactions, Commit(tx)
  PROVE  cib' \in Configurations /\ commits' \in [ChangeIds -> Nat]
<1>1. tx.change \in ChangeIds
  BY DEF Transactions
<1> QED
  BY <1>1 DEF Commit, PacemakerTypeOK, ChangeRows

LEMMA TransactionEndsType ==
  ASSUME PacemakerTypeOK, NEW w \in ClusterWorkers, TransactionEnds(w)
  PROVE  PacemakerTypeOK'
<1>0. exec[w] \in Works
  BY DEF PacemakerTypeOK
<1>1. exec' \in [ClusterWorkers -> Works]
  BY TransactionEndsWorkers
<1>2. orphans' \subseteq Transactions
  BY OrphansOutdated DEF TransactionEnds, OutdateAll, PacemakerTypeOK
<1>3. /\ cib' \in Configurations /\ commits' \in [ChangeIds -> Nat]
      /\ reviewed' = reviewed /\ dropped' = dropped
  <2>1. CASE exec[w].tx.apply /\ exec[w].tx.intact
    BY <2>1, <1>0, WorkFields, CommitType DEF TransactionEnds, Commit
  <2>2. CASE ~(exec[w].tx.apply /\ exec[w].tx.intact)
    BY <2>2 DEF TransactionEnds, historyVars, PacemakerTypeOK
  <2> QED
    BY <2>1, <2>2
<1> QED
  BY <1>1, <1>2, <1>3 DEF TransactionEnds, bounds, PacemakerTypeOK, lockVars

LEMMA TransactionFailsWorker ==
  ASSUME PacemakerTypeOK, NEW w \in ClusterWorkers, TransactionFails(w)
  PROVE  /\ exec' \in [ClusterWorkers -> Works]
         /\ exec'[w].step = exec[w].step /\ SameTask(exec'[w], exec[w])
         /\ exec'[w].again = exec[w].again /\ exec'[w].seen = exec[w].seen
         /\ exec'[w].tx = [exec[w].tx EXCEPT !.step = "done", !.ok = FALSE]
         /\ \A v \in ClusterWorkers \ {w} : exec'[v] = exec[v]
<1> DEFINE tx == [exec[w].tx EXCEPT !.step = "done", !.ok = FALSE]
<1>1. exec[w] \in Works /\ exec[w].tx \in Transactions
  BY WorkFields DEF PacemakerTypeOK
<1>2. tx \in Transactions
  BY <1>1 DEF Transactions
<1>3. exec' = [exec EXCEPT ![w] = [exec[w] EXCEPT !.tx = tx]]
  BY <1>1 DEF TransactionFails, PacemakerTypeOK, Works
<1> HIDE DEF tx
<1>4. /\ exec' \in [ClusterWorkers -> Works]
      /\ exec'[w].step = exec[w].step /\ SameTask(exec'[w], exec[w])
      /\ exec'[w].again = exec[w].again /\ exec'[w].seen = exec[w].seen /\ exec'[w].tx = tx
      /\ \A v \in ClusterWorkers \ {w} : exec'[v] = exec[v]
  BY <1>2, <1>3, TransactionStepWorks
<1> QED
  BY <1>4 DEF tx

LEMMA BoundsType ==
  ASSUME PacemakerTypeOK, Accident \/ Stall \/ UNCHANGED bounds
  PROVE  edits' \in 0..MaxAdminEdits /\ disturbances' \in 0..MaxDisturbances /\ stalled' \in BOOLEAN
<1>1. CASE UNCHANGED bounds
  BY <1>1 DEF bounds, PacemakerTypeOK
<1>2. CASE Accident \/ Stall
  <2>1. disturbances \in 0..MaxDisturbances /\ disturbances < MaxDisturbances
        /\ disturbances' = disturbances + 1
    BY <1>2 DEF Accident, Stall, Disturbance, PacemakerTypeOK
  <2>2. disturbances' \in 0..MaxDisturbances
    BY <2>1, PacemakerAssumption
  <2> QED
    BY <1>2, <2>2 DEF Accident, Stall, Disturbance, PacemakerTypeOK
<1> QED
  BY <1>1, <1>2

LEMMA TransactionFailsType ==
  ASSUME PacemakerTypeOK, NEW w \in ClusterWorkers, TransactionFails(w)
  PROVE  PacemakerTypeOK'
BY TransactionFailsWorker, BoundsType
DEF TransactionFails, PacemakerTypeOK, lockVars, historyVars

LEMMA OrphanComparesType ==
  ASSUME PacemakerTypeOK, NEW tx \in orphans, OrphanCompares(tx)
  PROVE  PacemakerTypeOK'
<1>1. orphans' \subseteq Transactions
  BY ComparedTransaction DEF OrphanCompares, PacemakerTypeOK
<1> QED
  BY <1>1 DEF OrphanCompares, bounds, PacemakerTypeOK, lockVars, historyVars

LEMMA OrphanEndsType ==
  ASSUME PacemakerTypeOK, NEW tx \in orphans, OrphanEnds(tx)
  PROVE  PacemakerTypeOK'
<1>0. tx \in Transactions
  BY DEF PacemakerTypeOK
<1>1. CASE tx.apply /\ tx.intact
  <2>1. exec' \in [ClusterWorkers -> Works]
    BY <1>1, OutdatedWorks DEF OrphanEnds, PacemakerTypeOK
  <2>2. orphans' \subseteq Transactions
    BY <1>1, OutdatedTransaction DEF OrphanEnds, PacemakerTypeOK
  <2>3. /\ cib' \in Configurations /\ commits' \in [ChangeIds -> Nat]
        /\ reviewed' = reviewed /\ dropped' = dropped
    BY <1>0, <1>1, CommitType DEF OrphanEnds, Commit
  <2>4. UNCHANGED <<changes, operation, reserved, lockVars, bounds>>
    BY DEF OrphanEnds
  <2> QED
    BY <2>1, <2>2, <2>3, <2>4 DEF bounds, PacemakerTypeOK, lockVars
<1>2. CASE ~(tx.apply /\ tx.intact)
  BY <1>2 DEF OrphanEnds, bounds, PacemakerTypeOK, lockVars, historyVars
<1> QED
  BY <1>1, <1>2

LEMMA OutcomeSavedType ==
  ASSUME PacemakerTypeOK, NEW w \in ClusterWorkers, OutcomeSaved(w)
  PROVE  PacemakerTypeOK'
<1>0. exec[w] \in Works
  BY DEF PacemakerTypeOK
<1>1. PICK s \in ChangeStatuses : SetStatus(Target(w), s)
  <2>1. exec[w].tx.ok \in BOOLEAN
    BY <1>0, WorkFields DEF Transactions
  <2> QED
    BY <2>1, Members DEF OutcomeSaved, Applying
<1>2. Target(w) \in ChangeIds
  BY <1>0, WorkFields DEF Target
<1>3. changes' \in [ChangeIds -> ChangeRows]
  BY <1>1, <1>2, SetStatusType
<1>4. exec' \in [ClusterWorkers -> Works]
  BY LeaveStepWorks, Members DEF OutcomeSaved
<1>5. reviewed' \subseteq ChangeIds
  BY <1>2 DEF OutcomeSaved, PacemakerTypeOK
<1> QED
  BY <1>3, <1>4, <1>5 DEF OutcomeSaved, bounds, PacemakerTypeOK, lockVars

LEMMA OrphanedType ==
  ASSUME PacemakerTypeOK, NEW w \in ClusterWorkers
  PROVE  Orphaned(exec[w].tx) \subseteq Transactions
BY WorkFields DEF Orphaned, PacemakerTypeOK

LEMMA CallTimesOutType ==
  ASSUME PacemakerTypeOK, NEW w \in ClusterWorkers, CallTimesOut(w)
  PROVE  PacemakerTypeOK'
<1>0. exec[w] \in Works
  BY DEF PacemakerTypeOK
<1>1. changes' \in [ChangeIds -> ChangeRows]
  BY <1>0, WorkFields, SetStatusType, Members DEF CallTimesOut, Target
<1>2. exec' \in [ClusterWorkers -> Works]
  BY LeaveStepWorks, Members DEF CallTimesOut
<1>3. orphans' \subseteq Transactions
  BY OrphanedType DEF CallTimesOut, PacemakerTypeOK
<1> QED
  BY <1>1, <1>2, <1>3, PacemakerAssumption
  DEF CallTimesOut, Accident, Disturbance, PacemakerTypeOK, lockVars, historyVars

LEMMA FinishOperationType ==
  ASSUME PacemakerTypeOK, NEW w \in ClusterWorkers, FinishOperation(w)
  PROVE  PacemakerTypeOK'
<1>1. exec' \in [ClusterWorkers -> Works] /\ operation' \in [Operations -> TaskRows]
  BY OneWorks, Members DEF FinishOperation, PacemakerTypeOK
<1> QED
  BY <1>1 DEF FinishOperation, bounds, PacemakerTypeOK, lockVars, historyVars

LEMMA DeliveredType ==
  ASSUME PacemakerTypeOK, NEW t, NEW s \in {"none", "created", "running"}
  PROVE  [operation EXCEPT ![t].status = s] \in [Operations -> TaskRows]
<1>1. CASE t \in Operations
  <2>1. [operation[t] EXCEPT !.status = s] \in TaskRows
    BY <1>1 DEF PacemakerTypeOK, TaskRows
  <2> QED
    BY <1>1, <2>1 DEF PacemakerTypeOK
<1>2. CASE t \notin Operations
  BY <1>2 DEF PacemakerTypeOK
<1> QED
  BY <1>1, <1>2

LEMMA WorkerDiesType ==
  ASSUME PacemakerTypeOK, NEW w \in ClusterWorkers, WorkerDies(w)
  PROVE  PacemakerTypeOK'
<1>0. exec[w] \in Works
  BY DEF PacemakerTypeOK
<1>1. exec' \in [ClusterWorkers -> Works]
  BY OneWorks, Members DEF WorkerDies
<1>2. operation' \in [Operations -> TaskRows]
  <2>1. CASE operation' = [operation EXCEPT ![exec[w].op].status = "created"]
    BY <2>1, DeliveredType
  <2>2. CASE UNCHANGED operation
    BY <2>2 DEF PacemakerTypeOK
  <2> QED
    BY <2>1, <2>2 DEF WorkerDies, PacemakerTypeOK, TaskRows
<1>3. orphans' \subseteq Transactions
  BY OrphanedType DEF WorkerDies, PacemakerTypeOK
<1> QED
  BY <1>1, <1>2, <1>3, PacemakerAssumption
  DEF WorkerDies, Accident, Disturbance, PacemakerTypeOK, lockVars, historyVars

LEMMA LeaseLapsesType ==
  ASSUME PacemakerTypeOK, NEW t \in Operations, LeaseLapses(t)
  PROVE  PacemakerTypeOK'
BY DeliveredType, BoundsType DEF LeaseLapses, PacemakerTypeOK, lockVars, historyVars

LEMMA LockLapsesType ==
  ASSUME PacemakerTypeOK, LockLapses
  PROVE  PacemakerTypeOK'
BY BoundsType DEF LockLapses, PacemakerTypeOK, historyVars

-----------------------------------------------------------------------------
(* The type invariant. *)

LEMMA TypeStep == PacemakerTypeOK /\ [PacemakerNext]_pacemakerVars => PacemakerTypeOK'
<1> SUFFICES ASSUME PacemakerTypeOK, [PacemakerNext]_pacemakerVars PROVE PacemakerTypeOK'
  OBVIOUS
<1>1. ASSUME NEW x \in Configurations, AdminEdit(x)
      PROVE  PacemakerTypeOK'
  BY <1>1, AdminEditType
<1>2. ASSUME NEW c \in ChangeIds, NEW x \in Configurations, CreateDraft(c, x)
      PROVE  PacemakerTypeOK'
  BY <1>2, SaveDraftType DEF CreateDraft
<1>3. ASSUME NEW c \in ChangeIds, NEW o \in ChangeIds, RestoreDraft(c, o)
      PROVE  PacemakerTypeOK'
  BY <1>3, SaveDraftType DEF RestoreDraft, PacemakerTypeOK, ChangeRows
<1>4. ASSUME NEW t \in Operations, NEW kind \in {"validate", "apply", "operate"}, NEW c \in ChangeIds, Enqueue(t, kind, c)
      PROVE  PacemakerTypeOK'
  BY <1>4, EnqueueType
<1>5. ASSUME NEW w \in ClusterWorkers, NEW t \in Operations, ClaimOperation(w, t)
      PROVE  PacemakerTypeOK'
  BY <1>5, ClaimOperationType
<1>6. ASSUME NEW w \in ClusterWorkers, BeginOperation(w)
      PROVE  PacemakerTypeOK'
  BY <1>6, BeginOperationType
<1>7. ASSUME NEW w \in ClusterWorkers, NotPermitted(w)
      PROVE  PacemakerTypeOK'
  BY <1>7, NotPermittedType
<1>8. ASSUME NEW w \in ClusterWorkers, Lock(w)
      PROVE  PacemakerTypeOK'
  BY <1>8, LockType
<1>9. ASSUME NEW w \in ClusterWorkers, ReadCib(w)
      PROVE  PacemakerTypeOK'
  BY <1>9, ReadCibType
<1>10. ASSUME NEW w \in ClusterWorkers, Refuse(w)
      PROVE  PacemakerTypeOK'
  BY <1>10, RefuseType
<1>11. ASSUME NEW w \in ClusterWorkers, ReadFails(w)
      PROVE  PacemakerTypeOK'
  BY <1>11, ReadFailsType
<1>12. ASSUME NEW w \in ClusterWorkers, NEW x \in Configurations, Operate(w, x)
      PROVE  PacemakerTypeOK'
  BY <1>12, OperateType
<1>13. ASSUME NEW w \in ClusterWorkers, Compare(w)
      PROVE  PacemakerTypeOK'
  BY <1>13, CompareType
<1>14. ASSUME NEW w \in ClusterWorkers, TransactionEnds(w)
      PROVE  PacemakerTypeOK'
  BY <1>14, TransactionEndsType
<1>15. ASSUME NEW w \in ClusterWorkers, TransactionFails(w)
      PROVE  PacemakerTypeOK'
  BY <1>15, TransactionFailsType
<1>16. ASSUME NEW tx \in orphans, OrphanCompares(tx)
      PROVE  PacemakerTypeOK'
  BY <1>16, OrphanComparesType
<1>17. ASSUME NEW tx \in orphans, OrphanEnds(tx)
      PROVE  PacemakerTypeOK'
  BY <1>17, OrphanEndsType
<1>18. ASSUME NEW w \in ClusterWorkers, OutcomeSaved(w)
      PROVE  PacemakerTypeOK'
  BY <1>18, OutcomeSavedType
<1>19. ASSUME NEW w \in ClusterWorkers, CallTimesOut(w)
      PROVE  PacemakerTypeOK'
  BY <1>19, CallTimesOutType
<1>20. ASSUME NEW w \in ClusterWorkers, FinishOperation(w)
      PROVE  PacemakerTypeOK'
  BY <1>20, FinishOperationType
<1>21. ASSUME NEW w \in ClusterWorkers, WorkerDies(w)
      PROVE  PacemakerTypeOK'
  BY <1>21, WorkerDiesType
<1>22. ASSUME NEW t \in Operations, LeaseLapses(t)
      PROVE  PacemakerTypeOK'
  BY <1>22, LeaseLapsesType
<1>23. CASE LockLapses
  BY <1>23, LockLapsesType
<1>24. CASE UNCHANGED pacemakerVars
  BY <1>24 DEF pacemakerVars, PacemakerTypeOK
<1> QED
  BY <1>1, <1>2, <1>3, <1>4, <1>5, <1>6, <1>7, <1>8, <1>9, <1>10, <1>11, <1>12, <1>13, <1>14, <1>15, <1>16, <1>17, <1>18, <1>19, <1>20, <1>21, <1>22, <1>23, <1>24
  DEF PacemakerNext

LEMMA TypeInit == PacemakerInit => PacemakerTypeOK
<1> SUFFICES ASSUME PacemakerInit PROVE PacemakerTypeOK
  OBVIOUS
<1>1. [status |-> "none", base |-> FirstConfiguration, candidate |-> FirstConfiguration] \in ChangeRows
  BY Members, PacemakerAssumption DEF ChangeRows
<1>2. changes \in [ChangeIds -> ChangeRows]
  BY <1>1 DEF PacemakerInit
<1>3. operation \in [Operations -> TaskRows] /\ exec \in [ClusterWorkers -> Works]
  BY Members DEF PacemakerInit
<1>4. edits \in 0..MaxAdminEdits /\ disturbances \in 0..MaxDisturbances
  BY PacemakerAssumption DEF PacemakerInit
<1> QED
  BY <1>2, <1>3, <1>4, PacemakerAssumption DEF PacemakerInit, PacemakerTypeOK

\* Every reachable state of the changes of a cluster has the declared types:
\* in particular no step uses more edits or accidents than its bound.
THEOREM PacemakerTypeCorrect == PacemakerSpec => []PacemakerTypeOK
BY TypeInit, TypeStep, PTL DEF PacemakerSpec

-----------------------------------------------------------------------------
(* The invariant of the transactions. *)

\* A change that was saved stays saved, and keeps the configuration it was made
\* from; a simulation once recorded stays recorded.
RowsKept ==
    /\ \A d \in ChangeIds : changes[d].status # "none" =>
          changes'[d].status # "none" /\ changes'[d].base = changes[d].base
    /\ reviewed \subseteq reviewed'

LEMMA SaveDraftRows ==
  ASSUME PacemakerTypeOK, RowsReviewed, NEW c \in ChangeIds, NEW x \in Configurations, SaveDraft(c, x)
  PROVE  RowsKept /\ RowsReviewed'
<1>1. /\ changes[c].status = "none" /\ reviewed' = reviewed
      /\ changes' = [changes EXCEPT ![c] = [status |-> "draft", base |-> cib, candidate |-> x]]
  BY DEF SaveDraft, historyVars
<1>2. changes'[c].status = "draft" /\ \A d \in ChangeIds \ {c} : changes'[d] = changes[d]
  BY <1>1 DEF PacemakerTypeOK
<1> QED
  BY <1>1, <1>2 DEF RowsKept, RowsReviewed

LEMMA SetStatusRows ==
  ASSUME PacemakerTypeOK, RowsReviewed, NEW c \in ChangeIds, NEW s \in ChangeStatuses, SetStatus(c, s),
         s # "none", reviewed \subseteq reviewed', s = "validated" => c \in reviewed'
  PROVE  RowsKept /\ RowsReviewed'
BY SetStatusType DEF RowsKept, RowsReviewed

LEMMA BeginOperationRows ==
  ASSUME PacemakerTypeOK, RowsReviewed, NEW w \in ClusterWorkers, BeginOperation(w)
  PROVE  RowsKept /\ RowsReviewed'
<1>1. exec[w] \in Works /\ Target(w) \in ChangeIds /\ Kind(w) \in Kinds
  BY WorkFields DEF PacemakerTypeOK, Target, Kind
<1>2. reviewed' = reviewed
  BY DEF BeginOperation
<1>3. UNCHANGED changes \/ SetStatus(Target(w), "failed") \/ SetStatus(Target(w), "unknown")
  BY <1>1 DEF BeginOperation, Kinds
<1>4. CASE UNCHANGED changes
  BY <1>2, <1>4 DEF RowsKept, RowsReviewed
<1>5. CASE SetStatus(Target(w), "failed") \/ SetStatus(Target(w), "unknown")
  BY <1>1, <1>2, <1>5, SetStatusRows, Members
<1> QED
  BY <1>3, <1>4, <1>5

LEMMA ReadCibRows ==
  ASSUME PacemakerTypeOK, RowsReviewed, NEW w \in ClusterWorkers, ReadCib(w)
  PROVE  RowsKept /\ RowsReviewed'
<1>1. Target(w) \in ChangeIds
  BY WorkFields DEF PacemakerTypeOK, Target
<1>2. reviewed' = reviewed /\ (SetStatus(Target(w), "applying") \/ SetStatus(Target(w), "validating"))
  BY DEF ReadCib, historyVars
<1> QED
  BY <1>1, <1>2, SetStatusRows, Members

LEMMA CallTimesOutRows ==
  ASSUME PacemakerTypeOK, RowsReviewed, NEW w \in ClusterWorkers, CallTimesOut(w)
  PROVE  RowsKept /\ RowsReviewed'
<1>1. Target(w) \in ChangeIds
  BY WorkFields DEF PacemakerTypeOK, Target
<1>2. reviewed' = reviewed /\ (SetStatus(Target(w), "unknown") \/ SetStatus(Target(w), "failed"))
  BY DEF CallTimesOut, historyVars
<1> QED
  BY <1>1, <1>2, SetStatusRows, Members

LEMMA OutcomeSavedRows ==
  ASSUME PacemakerTypeOK, RowsReviewed, NEW w \in ClusterWorkers, OutcomeSaved(w)
  PROVE  RowsKept /\ RowsReviewed'
<1>1. Target(w) \in ChangeIds /\ exec[w].tx.ok \in BOOLEAN
  BY WorkFields DEF PacemakerTypeOK, Target, Transactions
<1>2. PICK s \in {"applied", "validated", "unknown", "failed"} :
        SetStatus(Target(w), s) /\ (s = "validated" => exec[w].tx.ok /\ ~Applying(w))
  BY <1>1 DEF OutcomeSaved, Applying
<1>3. reviewed \subseteq reviewed' /\ (exec[w].tx.ok /\ ~Applying(w) => Target(w) \in reviewed')
  BY DEF OutcomeSaved
<1> QED
  BY <1>1, <1>2, <1>3, SetStatusRows, Members

LEMMA RowsStep ==
  ASSUME PacemakerTypeOK, RowsReviewed, [PacemakerNext]_pacemakerVars
  PROVE  RowsKept /\ RowsReviewed'
<1>1. ASSUME NEW x \in Configurations, AdminEdit(x)
      PROVE  RowsKept /\ RowsReviewed'
  BY <1>1 DEF AdminEdit, historyVars, RowsKept, RowsReviewed
<1>2. ASSUME NEW c \in ChangeIds, NEW x \in Configurations, CreateDraft(c, x)
      PROVE  RowsKept /\ RowsReviewed'
  BY <1>2, SaveDraftRows DEF CreateDraft
<1>3. ASSUME NEW c \in ChangeIds, NEW o \in ChangeIds, RestoreDraft(c, o)
      PROVE  RowsKept /\ RowsReviewed'
  BY <1>3, SaveDraftRows DEF RestoreDraft, PacemakerTypeOK, ChangeRows
<1>4. ASSUME NEW t \in Operations, NEW kind \in {"validate", "apply", "operate"}, NEW c \in ChangeIds, Enqueue(t, kind, c)
      PROVE  RowsKept /\ RowsReviewed'
  BY <1>4 DEF Enqueue, historyVars, RowsKept, RowsReviewed
<1>5. ASSUME NEW w \in ClusterWorkers, NEW t \in Operations, ClaimOperation(w, t)
      PROVE  RowsKept /\ RowsReviewed'
  BY <1>5 DEF ClaimOperation, historyVars, RowsKept, RowsReviewed
<1>6. ASSUME NEW w \in ClusterWorkers, BeginOperation(w)
      PROVE  RowsKept /\ RowsReviewed'
  BY <1>6, BeginOperationRows
<1>7. ASSUME NEW w \in ClusterWorkers, NotPermitted(w)
      PROVE  RowsKept /\ RowsReviewed'
  BY <1>7 DEF NotPermitted, historyVars, RowsKept, RowsReviewed
<1>8. ASSUME NEW w \in ClusterWorkers, Lock(w)
      PROVE  RowsKept /\ RowsReviewed'
  BY <1>8 DEF Lock, historyVars, RowsKept, RowsReviewed
<1>9. ASSUME NEW w \in ClusterWorkers, ReadCib(w)
      PROVE  RowsKept /\ RowsReviewed'
  BY <1>9, ReadCibRows
<1>10. ASSUME NEW w \in ClusterWorkers, Refuse(w)
      PROVE  RowsKept /\ RowsReviewed'
  BY <1>10 DEF Refuse, historyVars, RowsKept, RowsReviewed
<1>11. ASSUME NEW w \in ClusterWorkers, ReadFails(w)
      PROVE  RowsKept /\ RowsReviewed'
  BY <1>11 DEF ReadFails, historyVars, RowsKept, RowsReviewed
<1>12. ASSUME NEW w \in ClusterWorkers, NEW x \in Configurations, Operate(w, x)
      PROVE  RowsKept /\ RowsReviewed'
  BY <1>12 DEF Operate, historyVars, RowsKept, RowsReviewed
<1>13. ASSUME NEW w \in ClusterWorkers, Compare(w)
      PROVE  RowsKept /\ RowsReviewed'
  BY <1>13 DEF Compare, historyVars, RowsKept, RowsReviewed
<1>14. ASSUME NEW w \in ClusterWorkers, TransactionEnds(w)
      PROVE  RowsKept /\ RowsReviewed'
  BY <1>14 DEF TransactionEnds, Commit, historyVars, RowsKept, RowsReviewed
<1>15. ASSUME NEW w \in ClusterWorkers, TransactionFails(w)
      PROVE  RowsKept /\ RowsReviewed'
  BY <1>15 DEF TransactionFails, historyVars, RowsKept, RowsReviewed
<1>16. ASSUME NEW tx \in orphans, OrphanCompares(tx)
      PROVE  RowsKept /\ RowsReviewed'
  BY <1>16 DEF OrphanCompares, historyVars, RowsKept, RowsReviewed
<1>17. ASSUME NEW tx \in orphans, OrphanEnds(tx)
      PROVE  RowsKept /\ RowsReviewed'
  BY <1>17 DEF OrphanEnds, Commit, historyVars, RowsKept, RowsReviewed
<1>18. ASSUME NEW w \in ClusterWorkers, OutcomeSaved(w)
      PROVE  RowsKept /\ RowsReviewed'
  BY <1>18, OutcomeSavedRows
<1>19. ASSUME NEW w \in ClusterWorkers, CallTimesOut(w)
      PROVE  RowsKept /\ RowsReviewed'
  BY <1>19, CallTimesOutRows
<1>20. ASSUME NEW w \in ClusterWorkers, FinishOperation(w)
      PROVE  RowsKept /\ RowsReviewed'
  BY <1>20 DEF FinishOperation, historyVars, RowsKept, RowsReviewed
<1>21. ASSUME NEW w \in ClusterWorkers, WorkerDies(w)
      PROVE  RowsKept /\ RowsReviewed'
  BY <1>21 DEF WorkerDies, historyVars, RowsKept, RowsReviewed
<1>22. ASSUME NEW t \in Operations, LeaseLapses(t)
      PROVE  RowsKept /\ RowsReviewed'
  BY <1>22 DEF LeaseLapses, historyVars, RowsKept, RowsReviewed
<1>23. CASE LockLapses
  BY <1>23 DEF LockLapses, historyVars, RowsKept, RowsReviewed
<1>24. CASE UNCHANGED pacemakerVars
  BY <1>24 DEF pacemakerVars, RowsKept, RowsReviewed
<1> QED
  BY <1>1, <1>2, <1>3, <1>4, <1>5, <1>6, <1>7, <1>8, <1>9, <1>10, <1>11, <1>12, <1>13, <1>14, <1>15, <1>16, <1>17, <1>18, <1>19, <1>20, <1>21, <1>22, <1>23, <1>24
  DEF PacemakerNext

\* The other steps of a worker: what it has read it keeps, or forgets.
LEMMA SeenKept ==
  ASSUME SeenReviewed, reviewed \subseteq reviewed',
         \A w \in ClusterWorkers :
            \/ exec'[w].seen = "none"
            \/ exec'[w].seen = exec[w].seen /\ SameTask(exec'[w], exec[w])
  PROVE  SeenReviewed'
BY DEF SeenReviewed, SameTask

LEMMA SeenOfOne ==
  ASSUME PacemakerTypeOK, SeenReviewed, reviewed \subseteq reviewed', NEW w \in ClusterWorkers,
         \/ exec'[w].seen = "none"
         \/ exec'[w].seen = exec[w].seen /\ SameTask(exec'[w], exec[w]),
         \A v \in ClusterWorkers \ {w} : exec'[v] = exec[v]
  PROVE  SeenReviewed'
BY SeenKept DEF SameTask

LEMMA LockSeen ==
  ASSUME PacemakerTypeOK, SeenReviewed, RowsReviewed, NEW w \in ClusterWorkers, Lock(w)
  PROVE  SeenReviewed'
<1>1. reviewed' = reviewed
  BY DEF Lock, historyVars
<1>2. CASE LockFree
  <2>1. exec[w].change \in ChangeIds
    BY WorkFields DEF PacemakerTypeOK
  <2> QED
    BY <1>1, <1>2, <2>1, LockWorker DEF SeenReviewed, RowsReviewed, SameTask
<1>3. CASE ~LockFree
  <2>1. LeaveStep(w, "finish")
    BY <1>3 DEF Lock
  <2> QED
    BY <1>1, <2>1, LeaveStepWorks, SeenOfOne, Members
<1> QED
  BY <1>2, <1>3

LEMMA SeenStep ==
  ASSUME PacemakerTypeOK, SeenReviewed, RowsReviewed, reviewed \subseteq reviewed',
         [PacemakerNext]_pacemakerVars
  PROVE  SeenReviewed'
<1>1. ASSUME NEW x \in Configurations, AdminEdit(x)
      PROVE  SeenReviewed'
  BY <1>1, OutdatedWorks, SeenKept DEF AdminEdit, OutdateAll, PacemakerTypeOK, SameTask
<1>2. ASSUME NEW c \in ChangeIds, NEW x \in Configurations, CreateDraft(c, x)
      PROVE  SeenReviewed'
  BY <1>2, SeenKept DEF CreateDraft, SaveDraft, SameTask
<1>3. ASSUME NEW c \in ChangeIds, NEW o \in ChangeIds, RestoreDraft(c, o)
      PROVE  SeenReviewed'
  BY <1>3, SeenKept DEF RestoreDraft, SaveDraft, SameTask
<1>4. ASSUME NEW t \in Operations, NEW kind \in {"validate", "apply", "operate"}, NEW c \in ChangeIds, Enqueue(t, kind, c)
      PROVE  SeenReviewed'
  BY <1>4, SeenKept DEF Enqueue, SameTask
<1>5. ASSUME NEW w \in ClusterWorkers, NEW t \in Operations, ClaimOperation(w, t)
      PROVE  SeenReviewed'
  BY <1>5, ClaimOperationWorks, SeenOfOne
<1>6. ASSUME NEW w \in ClusterWorkers, BeginOperation(w)
      PROVE  SeenReviewed'
  BY <1>6, LeaveStepWorks, ProceedStepWorks, SeenOfOne, Members DEF BeginOperation
<1>7. ASSUME NEW w \in ClusterWorkers, NotPermitted(w)
      PROVE  SeenReviewed'
  BY <1>7, LeaveStepWorks, SeenOfOne, Members DEF NotPermitted
<1>8. ASSUME NEW w \in ClusterWorkers, Lock(w)
      PROVE  SeenReviewed'
  BY <1>8, LockSeen
<1>9. ASSUME NEW w \in ClusterWorkers, ReadCib(w)
      PROVE  SeenReviewed'
  BY <1>9, ReadCibWorker, SeenOfOne
<1>10. ASSUME NEW w \in ClusterWorkers, Refuse(w)
      PROVE  SeenReviewed'
  BY <1>10, LeaveStepWorks, SeenOfOne, Members DEF Refuse
<1>11. ASSUME NEW w \in ClusterWorkers, ReadFails(w)
      PROVE  SeenReviewed'
  BY <1>11, LeaveStepWorks, SeenOfOne, Members DEF ReadFails
<1>12. ASSUME NEW w \in ClusterWorkers, NEW x \in Configurations, Operate(w, x)
      PROVE  SeenReviewed'
  BY <1>12, OperateWorkers, SeenKept
<1>13. ASSUME NEW w \in ClusterWorkers, Compare(w)
      PROVE  SeenReviewed'
  BY <1>13, CompareWorker, SeenOfOne
<1>14. ASSUME NEW w \in ClusterWorkers, TransactionEnds(w)
      PROVE  SeenReviewed'
  BY <1>14, TransactionEndsWorkers, SeenKept
<1>15. ASSUME NEW w \in ClusterWorkers, TransactionFails(w)
      PROVE  SeenReviewed'
  BY <1>15, TransactionFailsWorker, SeenOfOne
<1>16. ASSUME NEW tx \in orphans, OrphanCompares(tx)
      PROVE  SeenReviewed'
  BY <1>16, SeenKept DEF OrphanCompares, SameTask
<1>17. ASSUME NEW tx \in orphans, OrphanEnds(tx)
      PROVE  SeenReviewed'
  BY <1>17, OutdatedWorks, SeenKept DEF OrphanEnds, PacemakerTypeOK, SameTask
<1>18. ASSUME NEW w \in ClusterWorkers, OutcomeSaved(w)
      PROVE  SeenReviewed'
  BY <1>18, LeaveStepWorks, SeenOfOne, Members DEF OutcomeSaved
<1>19. ASSUME NEW w \in ClusterWorkers, CallTimesOut(w)
      PROVE  SeenReviewed'
  BY <1>19, LeaveStepWorks, SeenOfOne, Members DEF CallTimesOut
<1>20. ASSUME NEW w \in ClusterWorkers, FinishOperation(w)
      PROVE  SeenReviewed'
  BY <1>20, OneWorks, SeenOfOne, Members DEF FinishOperation, NoWork
<1>21. ASSUME NEW w \in ClusterWorkers, WorkerDies(w)
      PROVE  SeenReviewed'
  BY <1>21, OneWorks, SeenOfOne, Members DEF WorkerDies, NoWork
<1>22. ASSUME NEW t \in Operations, LeaseLapses(t)
      PROVE  SeenReviewed'
  BY <1>22, SeenKept DEF LeaseLapses, SameTask
<1>23. CASE LockLapses
  BY <1>23, SeenKept DEF LockLapses, SameTask
<1>24. CASE UNCHANGED pacemakerVars
  BY <1>24 DEF pacemakerVars, SeenReviewed
<1> QED
  BY <1>1, <1>2, <1>3, <1>4, <1>5, <1>6, <1>7, <1>8, <1>9, <1>10, <1>11, <1>12, <1>13, <1>14, <1>15, <1>16, <1>17, <1>18, <1>19, <1>20, <1>21, <1>22, <1>23, <1>24
  DEF PacemakerNext

\* A sound transaction stays sound while the configuration stays as it is, and
\* one that was outdated is sound whatever the configuration is.
LEMMA SoundKept ==
  ASSUME PacemakerTypeOK, RowsKept, NEW tx \in Transactions, TxSound(tx, changes, reviewed, cib)
  PROVE  /\ TxSound(tx, changes', reviewed', cib)
         /\ TxSound(Outdated(tx), changes', reviewed', cib')
<1>1. tx.change \in ChangeIds
  BY DEF Transactions
<1>2. Pending(Outdated(tx)) <=> Pending(tx)
  BY OutdatedTransaction DEF Pending
<1> QED
  BY <1>1, <1>2, OutdatedTransaction DEF TxSound, RowsKept, Pending

LEMMA NotPendingSound ==
  ASSUME NEW tx, NEW rows, NEW simulated, NEW x, tx.step \in {"none", "done"}
  PROVE  TxSound(tx, rows, simulated, x)
BY DEF TxSound, Pending

LEMMA ComparedSound ==
  ASSUME PacemakerTypeOK, RowsKept, NEW tx \in Transactions, TxSound(tx, changes, reviewed, cib),
         tx.step = "begun"
  PROVE  TxSound(Compared(tx), changes', reviewed', cib)
<1>1. tx.change \in ChangeIds
  BY DEF Transactions
<1>2. Pending(tx)
  BY DEF Pending
<1> QED
  BY <1>1, <1>2, ComparedTransaction DEF TxSound, RowsKept, Pending

LEMMA OrphanedSound ==
  ASSUME NEW tx, TxSound(tx, changes, reviewed, cib)
  PROVE  \A o \in Orphaned(tx) : TxSound(o, changes, reviewed, cib)
BY DEF Orphaned

\* While the configuration stays as it is: a worker keeps its transaction, has
\* none any more, or has one that is sound in the new state.
LEMMA TxKept ==
  ASSUME IndInv, RowsKept, cib' = cib,
         \A w \in ClusterWorkers :
            exec'[w].tx = exec[w].tx \/ TxSound(exec'[w].tx, changes', reviewed', cib'),
         \A tx \in orphans' :
            \/ TxSound(tx, changes, reviewed, cib) /\ tx \in Transactions
            \/ TxSound(tx, changes', reviewed', cib')
  PROVE  TxInv'
<1>1. \A w \in ClusterWorkers : exec[w].tx \in Transactions /\ TxSound(exec[w].tx, changes, reviewed, cib)
  BY WorkFields DEF IndInv, PacemakerTypeOK, TxInv
<1> QED
  BY <1>1, SoundKept DEF TxInv, IndInv

\* When it changes, every transaction is outdated, but one that has ended.
LEMMA TxOutdated ==
  ASSUME IndInv, RowsKept,
         \A w \in ClusterWorkers :
            exec'[w].tx = Outdated(exec[w].tx) \/ TxSound(exec'[w].tx, changes', reviewed', cib'),
         \A tx \in orphans' : \E o \in orphans : tx = Outdated(o)
  PROVE  TxInv'
<1>1. \A w \in ClusterWorkers : exec[w].tx \in Transactions /\ TxSound(exec[w].tx, changes, reviewed, cib)
  BY WorkFields DEF IndInv, PacemakerTypeOK, TxInv
<1>2. \A o \in orphans : o \in Transactions /\ TxSound(o, changes, reviewed, cib)
  BY DEF IndInv, PacemakerTypeOK, TxInv
<1> QED
  BY <1>1, <1>2, SoundKept DEF TxInv, IndInv

\* Steps that give one worker a transaction and leave the orphans alone.
LEMMA TxOfOne ==
  ASSUME IndInv, RowsKept, cib' = cib, NEW w \in ClusterWorkers,
         exec'[w].tx = exec[w].tx \/ TxSound(exec'[w].tx, changes', reviewed', cib'),
         \A v \in ClusterWorkers \ {w} : exec'[v] = exec[v],
         \A tx \in orphans' : tx \in orphans \/ tx \in Orphaned(exec[w].tx)
  PROVE  TxInv'
<1>1. \A tx \in orphans : tx \in Transactions /\ TxSound(tx, changes, reviewed, cib)
  BY DEF IndInv, TxInv, PacemakerTypeOK
<1>2. TxSound(exec[w].tx, changes, reviewed, cib)
  BY DEF IndInv, TxInv
<1>3. Orphaned(exec[w].tx) \subseteq Transactions
  BY OrphanedType DEF IndInv
<1>4. \A tx \in Orphaned(exec[w].tx) : TxSound(tx, changes, reviewed, cib)
  BY <1>2, OrphanedSound
<1> QED
  BY <1>1, <1>3, <1>4, TxKept

\* The transaction that starts is about a change that was saved and is no
\* longer "none", and for an apply one that was simulated.
LEMMA ReadCibSound ==
  ASSUME IndInv, NEW w \in ClusterWorkers, ReadCib(w)
  PROVE  TxSound(exec'[w].tx, changes', reviewed', cib')
<1>1. exec[w] \in Works /\ exec[w].change \in ChangeIds
  BY WorkFields DEF IndInv, PacemakerTypeOK
<1>2. changes'[exec[w].change].status # "none"
  <2>1. SetStatus(exec[w].change, "applying") \/ SetStatus(exec[w].change, "validating")
    BY DEF ReadCib, Target
  <2> QED
    BY <1>1, <2>1, SetStatusType, Members DEF IndInv
<1>3. exec[w].kind = "apply" => exec[w].change \in reviewed'
  BY DEF ReadCib, MayBeTried, Applying, Kind, IndInv, SeenReviewed, historyVars
<1>4. /\ exec'[w].tx.step = "begun" /\ exec'[w].tx.change = exec[w].change
      /\ exec'[w].tx.apply = (exec[w].kind = "apply")
  <2>1. exec'[w].tx = [step |-> "begun", change |-> exec[w].change, apply |-> exec[w].kind = "apply",
                       intact |-> TRUE, ok |-> FALSE]
    BY ReadCibWorker DEF IndInv
  <2> QED
    BY <2>1
<1> QED
  BY <1>2, <1>3, <1>4 DEF TxSound

LEMMA CompareSound ==
  ASSUME IndInv, RowsKept, NEW w \in ClusterWorkers, Compare(w)
  PROVE  TxSound(exec'[w].tx, changes', reviewed', cib')
<1>1. exec[w].tx \in Transactions
  BY WorkFields DEF IndInv, PacemakerTypeOK
<1>2. TxSound(exec[w].tx, changes, reviewed, cib)
  BY DEF IndInv, TxInv
<1>3. exec[w].tx.step = "begun" /\ cib' = cib
  BY DEF Compare
<1> QED
  BY <1>1, <1>2, <1>3, CompareWorker, ComparedSound DEF IndInv

LEMMA TransactionEndsSound ==
  ASSUME IndInv, RowsKept, NEW w \in ClusterWorkers, TransactionEnds(w)
  PROVE  TxInv'
<1>1. exec[w].tx \in Transactions /\ Ended(exec[w].tx) \in Transactions
      /\ Ended(exec[w].tx).step = "done"
  BY WorkFields, EndedTransaction DEF IndInv, PacemakerTypeOK
<1>2. TxSound(Ended(exec[w].tx), changes', reviewed', cib')
      /\ TxSound(Outdated(Ended(exec[w].tx)), changes', reviewed', cib')
  BY <1>1, NotPendingSound, OutdatedTransaction
<1>3. CASE exec[w].tx.apply /\ exec[w].tx.intact
  <2>1. \A v \in ClusterWorkers :
          exec'[v].tx = Outdated(exec[v].tx) \/ TxSound(exec'[v].tx, changes', reviewed', cib')
    BY <1>2, <1>3, TransactionEndsWorkers DEF IndInv
  <2>2. orphans' = {Outdated(tx) : tx \in orphans}
    BY <1>3 DEF TransactionEnds, OutdateAll
  <2> QED
    BY <2>1, <2>2, TxOutdated
<1>4. CASE ~(exec[w].tx.apply /\ exec[w].tx.intact)
  <2>1. \A v \in ClusterWorkers :
          exec'[v].tx = exec[v].tx \/ TxSound(exec'[v].tx, changes', reviewed', cib')
    BY <1>2, <1>4, TransactionEndsWorkers DEF IndInv
  <2>2. orphans' = orphans /\ cib' = cib
    BY <1>4 DEF TransactionEnds
  <2> QED
    BY <2>1, <2>2, TxKept DEF IndInv, PacemakerTypeOK, TxInv
<1> QED
  BY <1>3, <1>4

LEMMA OrphanComparesSound ==
  ASSUME IndInv, RowsKept, NEW tx \in orphans, OrphanCompares(tx)
  PROVE  TxInv'
<1>1. tx \in Transactions /\ TxSound(tx, changes, reviewed, cib) /\ tx.step = "begun"
  BY DEF IndInv, PacemakerTypeOK, TxInv, OrphanCompares
<1>2. TxSound(Compared(tx), changes', reviewed', cib)
  BY <1>1, ComparedSound DEF IndInv
<1>3. cib' = cib /\ exec' = exec /\ orphans' = (orphans \ {tx}) \cup {Compared(tx)}
  BY DEF OrphanCompares
<1> QED
  BY <1>2, <1>3, TxKept DEF IndInv, PacemakerTypeOK, TxInv

LEMMA OrphanEndsSound ==
  ASSUME IndInv, RowsKept, NEW tx \in orphans, OrphanEnds(tx)
  PROVE  TxInv'
<1>1. CASE tx.apply /\ tx.intact
  <2>1. orphans' = {Outdated(o) : o \in orphans \ {tx}}
    BY <1>1 DEF OrphanEnds
  <2>2. \A w \in ClusterWorkers : exec'[w].tx = Outdated(exec[w].tx)
    BY <1>1, OutdatedWorks DEF OrphanEnds, IndInv, PacemakerTypeOK
  <2> QED
    BY <2>1, <2>2, TxOutdated
<1>2. CASE ~(tx.apply /\ tx.intact)
  BY <1>2, TxKept DEF OrphanEnds, IndInv, PacemakerTypeOK, TxInv
<1> QED
  BY <1>1, <1>2

LEMMA TxStep ==
  ASSUME IndInv, RowsKept, [PacemakerNext]_pacemakerVars
  PROVE  TxInv'
<1>1. ASSUME NEW x \in Configurations, AdminEdit(x)
      PROVE  TxInv'
  BY <1>1, OutdatedWorks, TxOutdated DEF AdminEdit, OutdateAll, IndInv, PacemakerTypeOK
<1>2. ASSUME NEW c \in ChangeIds, NEW x \in Configurations, CreateDraft(c, x)
      PROVE  TxInv'
  BY <1>2, TxKept DEF CreateDraft, SaveDraft, IndInv, PacemakerTypeOK, TxInv
<1>3. ASSUME NEW c \in ChangeIds, NEW o \in ChangeIds, RestoreDraft(c, o)
      PROVE  TxInv'
  BY <1>3, TxKept DEF RestoreDraft, SaveDraft, IndInv, PacemakerTypeOK, TxInv
<1>4. ASSUME NEW t \in Operations, NEW kind \in {"validate", "apply", "operate"}, NEW c \in ChangeIds, Enqueue(t, kind, c)
      PROVE  TxInv'
  BY <1>4, TxKept DEF Enqueue, IndInv, PacemakerTypeOK, TxInv
<1>5. ASSUME NEW w \in ClusterWorkers, NEW t \in Operations, ClaimOperation(w, t)
      PROVE  TxInv'
  <2>1. TxSound(exec'[w].tx, changes', reviewed', cib')
    BY <1>5, ClaimOperationWorks, NotPendingSound DEF IndInv, NoTransaction
  <2> QED
    BY <1>5, <2>1, ClaimOperationWorks, TxOfOne DEF ClaimOperation, IndInv
<1>6. ASSUME NEW w \in ClusterWorkers, BeginOperation(w)
      PROVE  TxInv'
  BY <1>6, LeaveStepWorks, ProceedStepWorks, TxOfOne, NotPendingSound, Members DEF BeginOperation, IndInv, NoTransaction
<1>7. ASSUME NEW w \in ClusterWorkers, NotPermitted(w)
      PROVE  TxInv'
  BY <1>7, LeaveStepWorks, TxOfOne, NotPendingSound, Members DEF NotPermitted, IndInv, NoTransaction
<1>8. ASSUME NEW w \in ClusterWorkers, Lock(w)
      PROVE  TxInv'
  <2>1. CASE LockFree
    BY <1>8, <2>1, LockWorker, TxOfOne DEF Lock, IndInv
  <2>2. CASE ~LockFree
    BY <1>8, <2>2, LeaveStepWorks, TxOfOne, NotPendingSound, Members DEF Lock, IndInv, NoTransaction
  <2> QED
    BY <2>1, <2>2
<1>9. ASSUME NEW w \in ClusterWorkers, ReadCib(w)
      PROVE  TxInv'
  BY <1>9, ReadCibWorker, ReadCibSound, TxOfOne DEF ReadCib, IndInv
<1>10. ASSUME NEW w \in ClusterWorkers, Refuse(w)
      PROVE  TxInv'
  BY <1>10, LeaveStepWorks, TxOfOne, NotPendingSound, Members DEF Refuse, IndInv, NoTransaction
<1>11. ASSUME NEW w \in ClusterWorkers, ReadFails(w)
      PROVE  TxInv'
  BY <1>11, LeaveStepWorks, TxOfOne, NotPendingSound, Members DEF ReadFails, IndInv, NoTransaction
<1>12. ASSUME NEW w \in ClusterWorkers, NEW x \in Configurations, Operate(w, x)
      PROVE  TxInv'
  BY <1>12, OperateWorkers, TxOutdated DEF Operate, OutdateAll, IndInv
<1>13. ASSUME NEW w \in ClusterWorkers, Compare(w)
      PROVE  TxInv'
  BY <1>13, CompareWorker, CompareSound, TxOfOne DEF Compare, IndInv
<1>14. ASSUME NEW w \in ClusterWorkers, TransactionEnds(w)
      PROVE  TxInv'
  BY <1>14, TransactionEndsSound
<1>15. ASSUME NEW w \in ClusterWorkers, TransactionFails(w)
      PROVE  TxInv'
  <2>1. exec[w].tx \in Transactions
    BY WorkFields DEF IndInv, PacemakerTypeOK
  <2>2. exec'[w].tx = [exec[w].tx EXCEPT !.step = "done", !.ok = FALSE]
    BY <1>15, TransactionFailsWorker DEF IndInv
  <2>3. exec'[w].tx.step = "done"
    BY <2>1, <2>2 DEF Transactions
  <2>4. TxSound(exec'[w].tx, changes', reviewed', cib')
    BY <2>3, NotPendingSound
  <2> QED
    BY <1>15, <2>4, TransactionFailsWorker, TxOfOne DEF TransactionFails, IndInv
<1>16. ASSUME NEW tx \in orphans, OrphanCompares(tx)
      PROVE  TxInv'
  BY <1>16, OrphanComparesSound
<1>17. ASSUME NEW tx \in orphans, OrphanEnds(tx)
      PROVE  TxInv'
  BY <1>17, OrphanEndsSound
<1>18. ASSUME NEW w \in ClusterWorkers, OutcomeSaved(w)
      PROVE  TxInv'
  BY <1>18, LeaveStepWorks, TxOfOne, NotPendingSound, Members DEF OutcomeSaved, IndInv, NoTransaction
<1>19. ASSUME NEW w \in ClusterWorkers, CallTimesOut(w)
      PROVE  TxInv'
  BY <1>19, LeaveStepWorks, TxOfOne, NotPendingSound, Members DEF CallTimesOut, IndInv, NoTransaction
<1>20. ASSUME NEW w \in ClusterWorkers, FinishOperation(w)
      PROVE  TxInv'
  BY <1>20, OneWorks, TxOfOne, NotPendingSound, Members DEF FinishOperation, IndInv, NoWork, NoTransaction
<1>21. ASSUME NEW w \in ClusterWorkers, WorkerDies(w)
      PROVE  TxInv'
  BY <1>21, OneWorks, TxOfOne, NotPendingSound, Members DEF WorkerDies, IndInv, NoWork, NoTransaction
<1>22. ASSUME NEW t \in Operations, LeaseLapses(t)
      PROVE  TxInv'
  BY <1>22, TxKept DEF LeaseLapses, IndInv, PacemakerTypeOK, TxInv
<1>23. CASE LockLapses
  BY <1>23, TxKept DEF LockLapses, IndInv, PacemakerTypeOK, TxInv
<1>24. CASE UNCHANGED pacemakerVars
  BY <1>24, TxKept DEF pacemakerVars, IndInv, PacemakerTypeOK, TxInv
<1> QED
  BY <1>1, <1>2, <1>3, <1>4, <1>5, <1>6, <1>7, <1>8, <1>9, <1>10, <1>11, <1>12, <1>13, <1>14, <1>15, <1>16, <1>17, <1>18, <1>19, <1>20, <1>21, <1>22, <1>23, <1>24
  DEF PacemakerNext

LEMMA IndStep == IndInv /\ [PacemakerNext]_pacemakerVars => IndInv' /\ RowsKept
<1> SUFFICES ASSUME IndInv, [PacemakerNext]_pacemakerVars PROVE IndInv' /\ RowsKept
  OBVIOUS
<1>1. PacemakerTypeOK'
  BY TypeStep DEF IndInv
<1>2. RowsKept /\ RowsReviewed'
  BY RowsStep DEF IndInv
<1>3. SeenReviewed'
  BY <1>2, SeenStep DEF IndInv, RowsKept
<1>4. TxInv'
  BY <1>2, TxStep
<1> QED
  BY <1>1, <1>2, <1>3, <1>4 DEF IndInv

LEMMA IndInit == PacemakerInit => IndInv
<1> SUFFICES ASSUME PacemakerInit PROVE IndInv
  OBVIOUS
<1>1. \A w \in ClusterWorkers : exec[w].tx.step = "none" /\ exec[w].seen = "none"
  BY DEF PacemakerInit, NoWork, NoTransaction
<1>2. TxInv
  BY <1>1, NotPendingSound DEF PacemakerInit, TxInv
<1>3. RowsReviewed /\ SeenReviewed
  BY <1>1 DEF PacemakerInit, RowsReviewed, SeenReviewed
<1> QED
  BY <1>2, <1>3, TypeInit DEF IndInv

\* What commits is a transaction of a worker or one without a worker, and the
\* invariant says of it what the theorem says of the commit.
LEMMA CommitReviewed ==
  ASSUME NEW tx \in Transactions, PacemakerTypeOK, TxSound(tx, changes, reviewed, cib),
         tx.step = "patching", tx.apply, tx.intact, Commit(tx)
  PROVE  \A c \in ChangeIds : commits'[c] # commits[c] =>
            c \in reviewed /\ cib = changes[c].base /\ cib' = changes[c].candidate
<1>1. \A c \in ChangeIds : commits'[c] # commits[c] => c = tx.change
  BY DEF Commit, PacemakerTypeOK
<1>2. tx.change \in reviewed /\ cib = changes[tx.change].base
  BY DEF TxSound, Pending
<1> QED
  BY <1>1, <1>2 DEF Commit

LEMMA CommitStep ==
  ASSUME IndInv, [PacemakerNext]_pacemakerVars
  PROVE  \A c \in ChangeIds : commits'[c] # commits[c] =>
            c \in reviewed /\ cib = changes[c].base /\ cib' = changes[c].candidate
<1>1. ASSUME NEW w \in ClusterWorkers, TransactionEnds(w), exec[w].tx.apply /\ exec[w].tx.intact
      PROVE  \A c \in ChangeIds : commits'[c] # commits[c] =>
                c \in reviewed /\ cib = changes[c].base /\ cib' = changes[c].candidate
  <2>1. exec[w].tx \in Transactions /\ TxSound(exec[w].tx, changes, reviewed, cib)
    BY WorkFields DEF IndInv, PacemakerTypeOK, TxInv
  <2> QED
    BY <1>1, <2>1, CommitReviewed DEF TransactionEnds, IndInv
<1>2. ASSUME NEW tx \in orphans, OrphanEnds(tx), tx.apply /\ tx.intact
      PROVE  \A c \in ChangeIds : commits'[c] # commits[c] =>
                c \in reviewed /\ cib = changes[c].base /\ cib' = changes[c].candidate
  <2>1. tx \in Transactions /\ TxSound(tx, changes, reviewed, cib)
    BY DEF IndInv, PacemakerTypeOK, TxInv
  <2> QED
    BY <1>2, <2>1, CommitReviewed DEF OrphanEnds, IndInv
<1>3. \/ commits' = commits
      \/ \E w \in ClusterWorkers : TransactionEnds(w) /\ exec[w].tx.apply /\ exec[w].tx.intact
      \/ \E tx \in orphans : OrphanEnds(tx) /\ tx.apply /\ tx.intact
  BY DEF PacemakerNext, pacemakerVars, historyVars, AdminEdit, CreateDraft, RestoreDraft, SaveDraft, Enqueue,
     ClaimOperation, BeginOperation, NotPermitted, Lock, ReadCib, Refuse, ReadFails, Operate, Compare,
     TransactionEnds, TransactionFails, OrphanCompares, OrphanEnds, OutcomeSaved, CallTimesOut,
     FinishOperation, WorkerDies, LeaseLapses, LockLapses
<1> QED
  BY <1>1, <1>2, <1>3

\* Whatever lapses, dies, is delivered again or goes on without its worker: the
\* cluster is only ever given the candidate of a change that was simulated for
\* review, in the place of the very configuration its draft was made from.
THEOREM CommitsReviewed == PacemakerSpec => OnlyReviewedCommitted
<1>1. PacemakerSpec => []IndInv
  <2>1. IndInv /\ [PacemakerNext]_pacemakerVars => IndInv'
    BY IndStep
  <2> QED
    BY <2>1, IndInit, PTL DEF PacemakerSpec
<1>2. IndInv /\ [PacemakerNext]_pacemakerVars =>
        [\A c \in ChangeIds : commits'[c] # commits[c] =>
            /\ c \in reviewed
            /\ cib = changes[c].base /\ cib' = changes[c].candidate]_pacemakerVars
  BY CommitStep
<1> QED
  BY <1>1, <1>2, PTL DEF PacemakerSpec, OnlyReviewedCommitted

-----------------------------------------------------------------------------
(* The inductive invariant of the status. *)

\* What keeps the status true: while no lease lapses under a live worker there
\* is one operation at a time and one worker for it.
Busy(w) == exec[w].step # "idle"

OneOperation ==
    /\ \A t \in Operations : Live(t) => reserved = t
    /\ \A t \in Operations : operation[t].status # "none" => operation[t].kind # "none"
    /\ \A w, v \in ClusterWorkers : Busy(w) /\ Busy(v) => w = v
    /\ \A w \in ClusterWorkers : Busy(w) =>
          /\ exec[w].op \in Operations
          /\ LET row == operation[exec[w].op] IN
             /\ row.status = "running" /\ row.kind = exec[w].kind /\ row.change = exec[w].change
             /\ exec[w].step = "claimed" => exec[w].again = row.started
             /\ exec[w].step \in {"lock", "read", "remote"} => row.started

\* What the worker has read is still so, and its transaction is the one it is
\* waiting for.
WorkTrue ==
    \A w \in ClusterWorkers :
        LET e == exec[w]  state == changes[e.change].status IN
        /\ e.step = "read" => /\ e.kind # "operate"
                              /\ e.seen = "validated" => state = "validated"
                              /\ state \in Attempted => e.seen \in Attempted
        /\ (e.tx.step # "none") = (e.step = "remote")
        /\ e.step = "remote" =>
              /\ e.kind # "operate"
              /\ e.tx.change = e.change /\ e.tx.apply = (e.kind = "apply")
              /\ state = (IF e.kind = "apply" THEN "applying" ELSE "validating")
        /\ e.tx.step = "done" /\ e.tx.apply /\ e.tx.ok => commits[e.change] > 0

\* A transaction that may still commit a change is the only one, and the first.
Attempt(tx, c) == Pending(tx) /\ tx.apply /\ tx.change = c

AttemptsTrue ==
    \A c \in ChangeIds \ dropped :
        /\ \A w \in ClusterWorkers : Attempt(exec[w].tx, c) =>
              commits[c] = 0 /\ \A o \in orphans : ~Attempt(o, c)
        /\ \A o \in orphans : Attempt(o, c) => commits[c] = 0 /\ changes[c].status \in Attempted
        /\ \A o, p \in orphans : Attempt(o, c) /\ Attempt(p, c) => o = p
        /\ commits[c] > 0 => commits[c] = 1 /\ changes[c].status \in Attempted

\* An attempt that is under way belongs to the operation that has started it,
\* whose worker waits for it or, after a death, is about to find it started.
WaitedFor ==
    \A c \in ChangeIds \ dropped : changes[c].status \in {"validating", "applying"} =>
        /\ \E t \in Operations :
              /\ operation[t].change = c /\ operation[t].started /\ operation[t].status # "none"
              /\ operation[t].kind = (IF changes[c].status = "applying" THEN "apply" ELSE "validate")
        /\ \A w \in ClusterWorkers : Busy(w) =>
              exec[w].step = "remote" \/ (exec[w].step = "claimed" /\ exec[w].again)

AppliedTrue == \A c \in ChangeIds : changes[c].status = "applied" => commits[c] > 0

StatusInv == ~stalled => OneOperation /\ WorkTrue /\ AttemptsTrue /\ WaitedFor /\ AppliedTrue

-----------------------------------------------------------------------------
(* The status of a change. *)

\* All that is known of a state when a step is taken, and that the step is not
\* one that stalls.
Sound == IndInv /\ OneOperation /\ WorkTrue /\ AttemptsTrue /\ WaitedFor /\ AppliedTrue
Kept  == OneOperation' /\ WorkTrue' /\ AttemptsTrue' /\ WaitedFor' /\ AppliedTrue'

\* The types of what these proofs look at.
LEMMA SoundTypes ==
  ASSUME Sound
  PROVE  /\ PacemakerTypeOK
         /\ \A w \in ClusterWorkers : exec[w] \in Works /\ exec[w].change \in ChangeIds
                                      /\ exec[w].kind \in Kinds /\ exec[w].tx \in Transactions
         /\ \A c \in ChangeIds : commits[c] \in Nat
         /\ \A o \in orphans : o \in Transactions
BY WorkFields DEF Sound, IndInv, PacemakerTypeOK

LEMMA LiveOnce ==
  ASSUME Sound, NEW t \in Operations, operation[t].status # "none"
  PROVE  reserved = t /\ operation[t].kind # "none"
BY DEF Sound, OneOperation, Live, Unused

\* Beside a busy worker the others are idle, without a transaction.
LEMMA Alone ==
  ASSUME Sound, NEW w \in ClusterWorkers, Busy(w)
  PROVE  /\ \A v \in ClusterWorkers \ {w} : exec[v].step = "idle" /\ exec[v].tx.step = "none"
         /\ reserved = exec[w].op
         /\ exec[w].kind # "none"
<1>1. \A v \in ClusterWorkers \ {w} : exec[v].step = "idle"
  BY DEF Sound, OneOperation, Busy
<1>2. exec[w].op \in Operations /\ operation[exec[w].op].status = "running"
      /\ operation[exec[w].op].kind = exec[w].kind
  BY DEF Sound, OneOperation
<1>3. reserved = exec[w].op /\ exec[w].kind # "none"
  BY <1>2, LiveOnce
<1>4. \A v \in ClusterWorkers \ {w} : exec[v].tx.step = "none"
  BY <1>1 DEF Sound, WorkTrue
<1> QED
  BY <1>1, <1>3, <1>4

\* An attempt that somebody waits for is the one of the busy worker.
LEMMA WaitedTarget ==
  ASSUME Sound, NEW w \in ClusterWorkers, Busy(w), NEW c \in ChangeIds \ dropped,
         changes[c].status \in {"validating", "applying"}
  PROVE  /\ c = exec[w].change
         /\ exec[w].kind = (IF changes[c].status = "applying" THEN "apply" ELSE "validate")
         /\ exec[w].step = "remote" \/ (exec[w].step = "claimed" /\ exec[w].again)
<1>1. PICK t \in Operations :
        /\ operation[t].change = c /\ operation[t].started /\ operation[t].status # "none"
        /\ operation[t].kind = (IF changes[c].status = "applying" THEN "apply" ELSE "validate")
  BY DEF Sound, WaitedFor
<1>2. t = exec[w].op
  BY <1>1, LiveOnce, Alone
<1>3. operation[exec[w].op].kind = exec[w].kind /\ operation[exec[w].op].change = exec[w].change
  BY DEF Sound, OneOperation
<1>4. exec[w].step = "remote" \/ (exec[w].step = "claimed" /\ exec[w].again)
  BY DEF Sound, WaitedFor
<1> QED
  BY <1>1, <1>2, <1>3, <1>4

\* The worker goes on with its operation; nothing is claimed or ended.
LEMMA OperationKept ==
  ASSUME Sound, UNCHANGED <<operation, reserved>>, NEW w \in ClusterWorkers, Busy(w),
         \A v \in ClusterWorkers \ {w} : exec'[v] = exec[v],
         SameTask(exec'[w], exec[w]), exec'[w].step # "claimed",
         exec'[w].step \in {"lock", "read", "remote"} => exec[w].step \in {"lock", "read", "remote"}
  PROVE  OneOperation'
<1>1. \A v \in ClusterWorkers \ {w} : exec'[v].step = "idle"
  BY Alone
<1>2. exec[w].op \in Operations /\ operation[exec[w].op].status = "running"
      /\ operation[exec[w].op].kind = exec[w].kind /\ operation[exec[w].op].change = exec[w].change
      /\ (exec[w].step \in {"lock", "read", "remote"} => operation[exec[w].op].started)
  BY DEF Sound, OneOperation
<1>3. \A t \in Operations : operation'[t] = operation[t] /\ (Live(t)' <=> Live(t))
  BY DEF Live
<1> QED
  BY <1>1, <1>2, <1>3 DEF Sound, OneOperation, Busy, SameTask

\* What holds of the worker that has taken the step is all that is to be shown.
LEMMA OneWorkTrue ==
  ASSUME Sound, NEW w \in ClusterWorkers, Busy(w),
         \A v \in ClusterWorkers \ {w} : exec'[v] = exec[v],
         LET e == exec'[w]  state == changes'[e.change].status IN
         /\ e.step = "read" => /\ e.kind # "operate"
                               /\ e.seen = "validated" => state = "validated"
                               /\ state \in Attempted => e.seen \in Attempted
         /\ (e.tx.step # "none") = (e.step = "remote")
         /\ e.step = "remote" =>
               /\ e.kind # "operate"
               /\ e.tx.change = e.change /\ e.tx.apply = (e.kind = "apply")
               /\ state = (IF e.kind = "apply" THEN "applying" ELSE "validating")
         /\ e.tx.step = "done" /\ e.tx.apply /\ e.tx.ok => commits'[e.change] > 0
  PROVE  WorkTrue'
<1>1. \A v \in ClusterWorkers \ {w} : exec'[v].step = "idle" /\ exec'[v].tx.step = "none"
  BY Alone
<1> QED
  BY <1>1 DEF WorkTrue

\* The worker has left its change, or is about to release the lock.
LEMMA LeftWorkTrue ==
  ASSUME Sound, NEW w \in ClusterWorkers, Busy(w),
         \A v \in ClusterWorkers \ {w} : exec'[v] = exec[v],
         exec'[w].tx.step = "none", exec'[w].step \notin {"read", "remote"}
  PROVE  WorkTrue'
BY OneWorkTrue

\* No attempt is added and none commits; a change that may still be committed,
\* or was, keeps its status.
LEMMA AttemptsKept ==
  ASSUME Sound, UNCHANGED commits, dropped \subseteq dropped',
         \A w \in ClusterWorkers, c \in ChangeIds : Attempt(exec'[w].tx, c) => Attempt(exec[w].tx, c),
         \A o \in orphans', c \in ChangeIds : Attempt(o, c) => o \in orphans,
         \A c \in ChangeIds \ dropped' :
            changes[c].status \in Attempted => changes'[c].status \in Attempted
  PROVE  AttemptsTrue'
<1> SUFFICES ASSUME NEW c \in ChangeIds \ dropped'
             PROVE  /\ \A w \in ClusterWorkers : Attempt(exec'[w].tx, c) =>
                          commits'[c] = 0 /\ \A o \in orphans' : ~Attempt(o, c)
                    /\ \A o \in orphans' : Attempt(o, c) => commits'[c] = 0 /\ changes'[c].status \in Attempted
                    /\ \A o, p \in orphans' : Attempt(o, c) /\ Attempt(p, c) => o = p
                    /\ commits'[c] > 0 => commits'[c] = 1 /\ changes'[c].status \in Attempted
  BY DEF AttemptsTrue, Attempt, Pending
<1> QED
  BY DEF Sound, AttemptsTrue

\* A worker that attempts a change waits for it, and the change says so.
LEMMA OwnAttempt ==
  ASSUME Sound, NEW w \in ClusterWorkers, NEW c, Attempt(exec[w].tx, c)
  PROVE  /\ exec[w].step = "remote" /\ exec[w].change = c /\ exec[w].kind = "apply"
         /\ changes[c].status = "applying"
<1>1. exec[w].tx.step # "none" /\ exec[w].tx.apply /\ exec[w].tx.change = c
  BY DEF Attempt, Pending
<1>2. exec[w].step = "remote"
  BY <1>1 DEF Sound, WorkTrue
<1>3. exec[w].change = c /\ exec[w].kind = "apply"
  BY <1>1, <1>2 DEF Sound, WorkTrue
<1> QED
  BY <1>2, <1>3 DEF Sound, WorkTrue

\* The attempt of a worker goes on without it.
LEMMA AttemptOrphaned ==
  ASSUME Sound, UNCHANGED commits, dropped \subseteq dropped', NEW w \in ClusterWorkers, Busy(w),
         exec'[w].tx = NoTransaction, \A v \in ClusterWorkers \ {w} : exec'[v] = exec[v],
         orphans' = orphans \cup Orphaned(exec[w].tx),
         \A c \in ChangeIds \ dropped' :
            changes[c].status \in Attempted => changes'[c].status \in Attempted
  PROVE  AttemptsTrue'
<1> SUFFICES ASSUME NEW c \in ChangeIds \ dropped'
             PROVE  /\ \A v \in ClusterWorkers : ~Attempt(exec'[v].tx, c)
                    /\ \A o \in orphans' : Attempt(o, c) => commits'[c] = 0 /\ changes'[c].status \in Attempted
                    /\ \A o, p \in orphans' : Attempt(o, c) /\ Attempt(p, c) => o = p
                    /\ commits'[c] > 0 => commits'[c] = 1 /\ changes'[c].status \in Attempted
  BY DEF AttemptsTrue, Attempt, Pending
<1>1. \A v \in ClusterWorkers : ~Attempt(exec'[v].tx, c)
  <2>1. exec'[w].tx.step = "none" /\ \A v \in ClusterWorkers \ {w} : exec'[v].tx.step = "none"
    <3>1. \A v \in ClusterWorkers \ {w} : exec[v].tx.step = "none"
      BY Alone
    <3>2. exec'[w].tx.step = "none"
      BY DEF NoTransaction
    <3> QED
      BY <3>1, <3>2
  <2> QED
    BY <2>1 DEF Attempt, Pending
<1>2. \A o \in orphans' : o \in orphans \/ o = exec[w].tx
  BY DEF Orphaned
<1>3. Attempt(exec[w].tx, c) =>
        commits[c] = 0 /\ changes[c].status \in Attempted /\ \A o \in orphans : ~Attempt(o, c)
  BY OwnAttempt DEF Sound, AttemptsTrue, Attempted
<1>4. /\ \A o \in orphans : Attempt(o, c) => commits[c] = 0 /\ changes[c].status \in Attempted
      /\ \A o, p \in orphans : Attempt(o, c) /\ Attempt(p, c) => o = p
      /\ commits[c] > 0 => commits[c] = 1 /\ changes[c].status \in Attempted
  BY DEF Sound, AttemptsTrue
<1> QED
  BY <1>1, <1>2, <1>3, <1>4

\* Nobody waits for an attempt.
LEMMA NoneWaited ==
  ASSUME \A c \in ChangeIds \ dropped' : changes'[c].status \notin {"validating", "applying"}
  PROVE  WaitedFor'
BY DEF WaitedFor

\* The worker is at a step at which no attempt is under way, and starts none.
LEMMA NoneUnderWay ==
  ASSUME Sound, NEW w \in ClusterWorkers, Busy(w), dropped \subseteq dropped', UNCHANGED changes,
         exec[w].step # "remote", ~(exec[w].step = "claimed" /\ exec[w].again)
  PROVE  WaitedFor'
BY WaitedTarget, NoneWaited

LEMMA AppliedKept ==
  ASSUME Sound, UNCHANGED changes, \A c \in ChangeIds : commits'[c] = commits[c]
  PROVE  AppliedTrue'
BY DEF Sound, AppliedTrue

-----------------------------------------------------------------------------
(* What each action does to the status. *)

\* A change of the configuration by somebody else outdates the transactions.
LEMMA OutdatedStatus ==
  ASSUME Sound, UNCHANGED <<changes, operation, reserved, commits, dropped>>,
         orphans' = {Outdated(tx) : tx \in orphans},
         \A w \in ClusterWorkers :
            /\ exec'[w].tx = Outdated(exec[w].tx) /\ SameTask(exec'[w], exec[w])
            /\ exec'[w].again = exec[w].again /\ exec'[w].seen = exec[w].seen
            /\ \/ exec'[w].step = exec[w].step
               \/ exec[w].step = "operating" /\ exec'[w].step = "release"
  PROVE  Kept
<1>1. \A w \in ClusterWorkers :
        /\ exec'[w].tx.step = exec[w].tx.step /\ exec'[w].tx.change = exec[w].tx.change
        /\ exec'[w].tx.apply = exec[w].tx.apply /\ exec'[w].tx.ok = exec[w].tx.ok
        /\ exec'[w].op = exec[w].op /\ exec'[w].kind = exec[w].kind /\ exec'[w].change = exec[w].change
  BY SoundTypes, OutdatedTransaction DEF SameTask
<1>2. OneOperation'
  BY <1>1 DEF Sound, OneOperation, Busy, Live
<1>3. WorkTrue'
  BY <1>1 DEF Sound, WorkTrue
<1>4. AttemptsTrue'
  <2>1. \A w \in ClusterWorkers, c \in ChangeIds : Attempt(exec'[w].tx, c) <=> Attempt(exec[w].tx, c)
    BY <1>1 DEF Attempt, Pending
  <2>2. \A o \in orphans, c \in ChangeIds : Attempt(Outdated(o), c) <=> Attempt(o, c)
    BY SoundTypes, OutdatedTransaction DEF Attempt, Pending
  <2> SUFFICES ASSUME NEW c \in ChangeIds \ dropped
               PROVE  /\ \A w \in ClusterWorkers : Attempt(exec'[w].tx, c) =>
                            commits[c] = 0 /\ \A o \in orphans' : ~Attempt(o, c)
                      /\ \A o \in orphans' : Attempt(o, c) => commits[c] = 0 /\ changes[c].status \in Attempted
                      /\ \A o, p \in orphans' : Attempt(o, c) /\ Attempt(p, c) => o = p
                      /\ commits[c] > 0 => commits[c] = 1 /\ changes[c].status \in Attempted
    BY DEF AttemptsTrue, Attempt, Pending
  <2>3. /\ \A w \in ClusterWorkers : Attempt(exec[w].tx, c) =>
              commits[c] = 0 /\ \A o \in orphans : ~Attempt(o, c)
        /\ \A o \in orphans : Attempt(o, c) => commits[c] = 0 /\ changes[c].status \in Attempted
        /\ \A o, p \in orphans : Attempt(o, c) /\ Attempt(p, c) => o = p
        /\ commits[c] > 0 => commits[c] = 1 /\ changes[c].status \in Attempted
    BY DEF Sound, AttemptsTrue
  <2>4. \A o, p \in orphans' : Attempt(o, c) /\ Attempt(p, c) => o = p
    BY <2>2, <2>3
  <2>5. \A o \in orphans' : Attempt(o, c) => \E p \in orphans : Attempt(p, c)
    BY <2>2
  <2> QED
    BY <2>1, <2>3, <2>4, <2>5
<1>5. WaitedFor'
  <2>1. \A w \in ClusterWorkers : /\ Busy(w)' => Busy(w)
                                  /\ exec[w].step = "remote" => exec'[w].step = "remote"
                                  /\ exec[w].step = "claimed" => exec'[w].step = "claimed"
    BY DEF Busy
  <2> QED
    BY <2>1 DEF Sound, WaitedFor
<1>6. AppliedTrue'
  BY DEF Sound, AppliedTrue
<1> QED
  BY <1>2, <1>3, <1>4, <1>5, <1>6 DEF Kept

LEMMA SaveDraftStatus ==
  ASSUME Sound, NEW c \in ChangeIds, NEW x \in Configurations, SaveDraft(c, x)
  PROVE  Kept
<1>1. /\ changes[c].status = "none" /\ changes' = [changes EXCEPT ![c] =
            [status |-> "draft", base |-> cib, candidate |-> x]]
      /\ UNCHANGED <<operation, reserved, exec, orphans, commits, dropped>>
  BY DEF SaveDraft, historyVars
<1>2. /\ changes'[c].status = "draft"
      /\ \A d \in ChangeIds \ {c} : changes'[d].status = changes[d].status
  BY <1>1, SoundTypes DEF PacemakerTypeOK
<1>3. OneOperation'
  BY <1>1 DEF Sound, OneOperation, Busy, Live
<1>4. WorkTrue'
  <2> SUFFICES ASSUME NEW w \in ClusterWorkers
               PROVE  LET e == exec[w]  state == changes'[e.change].status IN
                      /\ e.step = "read" => /\ e.kind # "operate"
                                            /\ e.seen = "validated" => state = "validated"
                                            /\ state \in Attempted => e.seen \in Attempted
                      /\ (e.tx.step # "none") = (e.step = "remote")
                      /\ e.step = "remote" =>
                            /\ e.kind # "operate"
                            /\ e.tx.change = e.change /\ e.tx.apply = (e.kind = "apply")
                            /\ state = (IF e.kind = "apply" THEN "applying" ELSE "validating")
                      /\ e.tx.step = "done" /\ e.tx.apply /\ e.tx.ok => commits[e.change] > 0
    BY <1>1 DEF WorkTrue
  <2>1. CASE exec[w].change = c
    BY <1>1, <1>2, <2>1 DEF Sound, WorkTrue, Attempted
  <2>2. CASE exec[w].change # c
    BY <1>2, <2>2, SoundTypes DEF Sound, WorkTrue
  <2> QED
    BY <2>1, <2>2
<1>5. AttemptsTrue'
  BY <1>1, <1>2, AttemptsKept DEF Attempted
<1>6. WaitedFor'
  BY <1>1, <1>2 DEF Sound, WaitedFor, Busy
<1>7. AppliedTrue'
  BY <1>1, <1>2 DEF Sound, AppliedTrue
<1> QED
  BY <1>3, <1>4, <1>5, <1>6, <1>7 DEF Kept

LEMMA EnqueueStatus ==
  ASSUME Sound, NEW t \in Operations, NEW kind \in {"validate", "apply", "operate"}, NEW c \in ChangeIds,
         Enqueue(t, kind, c)
  PROVE  Kept
<1>1. /\ operation' = [operation EXCEPT ![t] =
            [kind |-> kind, change |-> c, started |-> FALSE, status |-> "created"]]
      /\ reserved' = t /\ UNCHANGED <<changes, exec, orphans, commits, dropped>>
      /\ reserved # NoOperation => ~Live(reserved)
  BY DEF Enqueue, historyVars
<1>2. /\ operation'[t].kind = kind /\ operation'[t].status = "created"
      /\ \A u \in Operations \ {t} : operation'[u] = operation[u]
  BY <1>1, SoundTypes DEF PacemakerTypeOK
<1>3. \A u \in Operations : ~Live(u)
  BY <1>1, PacemakerAssumption DEF Sound, OneOperation
<1>4. \A u \in Operations : operation[u].status = "none"
  BY <1>3 DEF Live, Unused
<1>5. \A w \in ClusterWorkers : ~Busy(w) /\ ~Busy(w)'
  BY <1>1, <1>4 DEF Sound, OneOperation, Busy
<1>6. OneOperation'
  <2>1. \A u \in Operations : Live(u)' => u = t
    BY <1>2, <1>3 DEF Live
  <2> QED
    BY <1>1, <1>2, <1>4, <1>5, <2>1 DEF OneOperation
<1>7. WorkTrue'
  BY <1>1 DEF Sound, WorkTrue
<1>8. AttemptsTrue'
  BY <1>1, AttemptsKept
<1>9. WaitedFor'
  <2>1. \A d \in ChangeIds \ dropped : changes[d].status \notin {"validating", "applying"}
    BY <1>4 DEF Sound, WaitedFor
  <2> QED
    BY <1>1, <2>1, NoneWaited
<1>10. AppliedTrue'
  BY <1>1, AppliedKept
<1> QED
  BY <1>6, <1>7, <1>8, <1>9, <1>10 DEF Kept

LEMMA ClaimOperationStatus ==
  ASSUME Sound, NEW w \in ClusterWorkers, NEW t \in Operations, ClaimOperation(w, t)
  PROVE  Kept
<1>1. /\ exec[w].step = "idle" /\ operation[t].status = "created"
      /\ operation' = [operation EXCEPT ![t].status = "running"]
      /\ UNCHANGED <<changes, reserved, orphans, commits, dropped>>
  BY DEF ClaimOperation, historyVars
<1>2. /\ operation'[t].status = "running" /\ operation'[t].kind = operation[t].kind
      /\ operation'[t].change = operation[t].change /\ operation'[t].started = operation[t].started
      /\ \A u \in Operations \ {t} : operation'[u] = operation[u]
  BY <1>1, SoundTypes DEF PacemakerTypeOK, TaskRows
<1>3. reserved = t /\ operation[t].kind # "none"
  BY <1>1, LiveOnce
<1>4. /\ exec'[w].step = "claimed" /\ exec'[w].op = t
      /\ exec'[w].kind = operation[t].kind /\ exec'[w].change = operation[t].change
      /\ exec'[w].again = operation[t].started /\ exec'[w].tx.step = "none"
      /\ \A v \in ClusterWorkers \ {w} : exec'[v] = exec[v]
  BY ClaimOperationWorks, SoundTypes DEF NoTransaction
<1>5. \A v \in ClusterWorkers : exec[v].step = "idle"
  <2>1. \A v \in ClusterWorkers : Busy(v) => reserved = exec[v].op /\ operation[exec[v].op].status = "running"
    BY Alone DEF Sound, OneOperation
  <2> QED
    BY <1>1, <1>3, <2>1 DEF Busy
<1>6. \A v \in ClusterWorkers \ {w} : exec'[v].step = "idle" /\ exec'[v].tx.step = "none"
  BY <1>4, <1>5 DEF Sound, WorkTrue
<1>7. OneOperation'
  <2>1. \A u \in Operations : Live(u)' => u = t
    <3> SUFFICES ASSUME NEW u \in Operations, Live(u)', u # t PROVE FALSE
      OBVIOUS
    <3>1. Live(u)
      BY <1>2 DEF Live
    <3> QED
      BY <1>3, <3>1 DEF Sound, OneOperation
  <2>2. \A u \in Operations : operation'[u].status # "none" => operation'[u].kind # "none"
    BY <1>2, <1>3 DEF Sound, OneOperation
  <2> QED
    BY <1>1, <1>2, <1>3, <1>4, <1>6, <2>1, <2>2 DEF OneOperation, Busy
<1>8. WorkTrue'
  BY <1>4, <1>6 DEF WorkTrue
<1>9. AttemptsTrue'
  <2>1. \A v \in ClusterWorkers, c \in ChangeIds : ~Attempt(exec'[v].tx, c)
    BY <1>4, <1>6 DEF Attempt, Pending
  <2> QED
    BY <1>1, <2>1, AttemptsKept
<1>10. WaitedFor'
  <2> SUFFICES ASSUME NEW c \in ChangeIds \ dropped, changes[c].status \in {"validating", "applying"}
               PROVE  /\ \E u \in Operations :
                            /\ operation'[u].change = c /\ operation'[u].started
                            /\ operation'[u].status # "none"
                            /\ operation'[u].kind = (IF changes[c].status = "applying" THEN "apply" ELSE "validate")
                      /\ exec'[w].again
    BY <1>1, <1>4, <1>6 DEF WaitedFor, Busy
  <2>1. PICK u \in Operations :
          /\ operation[u].change = c /\ operation[u].started /\ operation[u].status # "none"
          /\ operation[u].kind = (IF changes[c].status = "applying" THEN "apply" ELSE "validate")
    BY DEF Sound, WaitedFor
  <2>2. u = t
    BY <1>3, <2>1, LiveOnce
  <2> QED
    BY <1>2, <1>4, <2>1, <2>2
<1>11. AppliedTrue'
  BY <1>1, AppliedKept
<1> QED
  BY <1>7, <1>8, <1>9, <1>10, <1>11 DEF Kept

\* An operation that was started already: the change that waited for it does
\* not wait any longer, or was given up blindly.
LEMMA BeginAgainStatus ==
  ASSUME Sound, NEW w \in ClusterWorkers, BeginOperation(w), exec[w].again
  PROVE  Kept
<1>1. /\ exec[w].step = "claimed" /\ LeaveStep(w, "finish")
      /\ UNCHANGED <<operation, reserved, orphans, commits>>
      /\ dropped' = IF exec[w].kind = "validate" THEN dropped \cup {exec[w].change} ELSE dropped
  BY DEF BeginOperation, Kind, Target
<1>2. Busy(w)
  BY <1>1 DEF Busy
<1>3. /\ exec'[w].step = "finish" /\ SameTask(exec'[w], exec[w]) /\ exec'[w].tx.step = "none"
      /\ \A v \in ClusterWorkers \ {w} : exec'[v] = exec[v]
  BY <1>1, LeaveStepWorks, SoundTypes, Members DEF NoTransaction
<1>4. /\ \A c \in ChangeIds \ {exec[w].change} : changes'[c] = changes[c]
      /\ exec[w].kind = "apply" => changes'[exec[w].change].status = "unknown"
      /\ exec[w].kind = "validate" => changes'[exec[w].change].status = "failed"
      /\ exec[w].kind \notin {"apply", "validate"} => changes' = changes
  <2>1. exec[w].change \in ChangeIds /\ PacemakerTypeOK
    BY SoundTypes
  <2>2. CASE exec[w].kind = "apply"
    BY <2>1, <2>2, SetStatusType, Members DEF BeginOperation, Kind, Target
  <2>3. CASE exec[w].kind = "validate"
    BY <2>1, <2>3, SetStatusType, Members DEF BeginOperation, Kind, Target
  <2>4. CASE exec[w].kind \notin {"apply", "validate"}
    BY <2>4 DEF BeginOperation, Kind
  <2> QED
    BY <2>2, <2>3, <2>4
<1>5. OneOperation'
  BY <1>1, <1>2, <1>3, OperationKept
<1>6. WorkTrue'
  BY <1>2, <1>3, LeftWorkTrue
<1>7. AttemptsTrue'
  <2>1. \A v \in ClusterWorkers, c \in ChangeIds : Attempt(exec'[v].tx, c) => Attempt(exec[v].tx, c)
    BY <1>3 DEF Attempt, Pending
  <2>2. \A c \in ChangeIds \ dropped' :
          changes[c].status \in Attempted => changes'[c].status \in Attempted
    BY <1>1, <1>4 DEF Attempted
  <2> QED
    BY <1>1, <2>1, <2>2, AttemptsKept
<1>8. WaitedFor'
  <2> SUFFICES ASSUME NEW c \in ChangeIds \ dropped', changes'[c].status \in {"validating", "applying"}
               PROVE  FALSE
    BY NoneWaited
  <2>1. changes[c].status \in {"validating", "applying"} /\ changes'[c].status = changes[c].status
    BY <1>4
  <2>2. c \in ChangeIds \ dropped
    BY <1>1
  <2>3. /\ c = exec[w].change
        /\ exec[w].kind = (IF changes[c].status = "applying" THEN "apply" ELSE "validate")
    BY <1>2, <2>1, <2>2, WaitedTarget
  <2> QED
    BY <1>4, <2>1, <2>3
<1>9. AppliedTrue'
  BY <1>1, <1>4 DEF Sound, AppliedTrue
<1> QED
  BY <1>5, <1>6, <1>7, <1>8, <1>9 DEF Kept

LEMMA BeginFirstStatus ==
  ASSUME Sound, NEW w \in ClusterWorkers, BeginOperation(w), ~exec[w].again
  PROVE  Kept
<1>1. /\ exec[w].step = "claimed" /\ Proceed(w, "lock")
      /\ operation' = [operation EXCEPT ![exec[w].op].started = Live(exec[w].op)]
      /\ UNCHANGED <<changes, reserved, orphans, commits, dropped>>
  BY DEF BeginOperation
<1>2. Busy(w)
  BY <1>1 DEF Busy
<1>3. /\ exec'[w].step = "lock" /\ SameTask(exec'[w], exec[w]) /\ exec'[w].tx = exec[w].tx
      /\ \A v \in ClusterWorkers \ {w} : exec'[v] = exec[v]
  BY <1>1, ProceedStepWorks, SoundTypes, Members
<1>4. /\ exec[w].op \in Operations /\ operation[exec[w].op].status = "running"
      /\ operation[exec[w].op].kind = exec[w].kind /\ operation[exec[w].op].change = exec[w].change
  BY <1>2 DEF Sound, OneOperation
<1>5. /\ operation'[exec[w].op].status = "running" /\ operation'[exec[w].op].started
      /\ operation'[exec[w].op].kind = exec[w].kind /\ operation'[exec[w].op].change = exec[w].change
      /\ \A u \in Operations \ {exec[w].op} : operation'[u] = operation[u]
  <2>1. Live(exec[w].op) = TRUE
    BY <1>4 DEF Live, Unused
  <2>2. operation' = [operation EXCEPT ![exec[w].op].started = TRUE]
    BY <1>1, <2>1
  <2>3. operation \in [Operations -> TaskRows]
    BY SoundTypes DEF PacemakerTypeOK
  <2> QED
    BY <1>4, <2>2, <2>3 DEF TaskRows
<1>6. reserved = exec[w].op /\ exec[w].kind # "none"
      /\ \A v \in ClusterWorkers \ {w} : exec[v].step = "idle"
  BY <1>2, Alone
<1>7. OneOperation'
  <2>1. \A u \in Operations : Live(u)' => u = exec[w].op
    <3> SUFFICES ASSUME NEW u \in Operations, Live(u)', u # exec[w].op PROVE FALSE
      OBVIOUS
    <3>1. Live(u)
      BY <1>5 DEF Live
    <3> QED
      BY <1>6, <3>1 DEF Sound, OneOperation
  <2>2. \A u \in Operations : operation'[u].status # "none" => operation'[u].kind # "none"
    BY <1>5, <1>6 DEF Sound, OneOperation
  <2> QED
    BY <1>1, <1>3, <1>4, <1>5, <1>6, <2>1, <2>2 DEF OneOperation, Busy, SameTask
<1>8. WorkTrue'
  <2>1. exec[w].tx.step = "none"
    BY <1>1 DEF Sound, WorkTrue
  <2> QED
    BY <1>2, <1>3, <2>1, LeftWorkTrue
<1>9. AttemptsTrue'
  BY <1>1, <1>3, AttemptsKept
<1>10. WaitedFor'
  BY <1>1, <1>2, NoneUnderWay
<1>11. AppliedTrue'
  BY <1>1, AppliedKept
<1> QED
  BY <1>7, <1>8, <1>9, <1>10, <1>11 DEF Kept

\* An operation that the user may not do: if it was started, its change is
\* given up blindly.
LEMMA NotPermittedStatus ==
  ASSUME Sound, NEW w \in ClusterWorkers, NotPermitted(w)
  PROVE  Kept
<1>1. /\ exec[w].step = "claimed" /\ LeaveStep(w, "finish")
      /\ UNCHANGED <<changes, operation, reserved, orphans, commits>>
      /\ dropped' = IF exec[w].again /\ exec[w].kind # "operate" THEN dropped \cup {exec[w].change} ELSE dropped
  BY DEF NotPermitted, Kind, Target
<1>2. Busy(w)
  BY <1>1 DEF Busy
<1>3. /\ exec'[w].step = "finish" /\ SameTask(exec'[w], exec[w]) /\ exec'[w].tx.step = "none"
      /\ \A v \in ClusterWorkers \ {w} : exec'[v] = exec[v]
  BY <1>1, LeaveStepWorks, SoundTypes, Members DEF NoTransaction
<1>4. OneOperation'
  BY <1>1, <1>2, <1>3, OperationKept
<1>5. WorkTrue'
  BY <1>2, <1>3, LeftWorkTrue
<1>6. AttemptsTrue'
  <2>1. \A v \in ClusterWorkers, c \in ChangeIds : Attempt(exec'[v].tx, c) => Attempt(exec[v].tx, c)
    BY <1>3 DEF Attempt, Pending
  <2> QED
    BY <1>1, <2>1, AttemptsKept
<1>7. WaitedFor'
  <2> SUFFICES ASSUME NEW c \in ChangeIds \ dropped', changes[c].status \in {"validating", "applying"}
               PROVE  FALSE
    BY <1>1, NoneWaited
  <2>1. c \in ChangeIds \ dropped
    BY <1>1
  <2>2. /\ c = exec[w].change /\ exec[w].again
        /\ exec[w].kind = (IF changes[c].status = "applying" THEN "apply" ELSE "validate")
    BY <1>1, <1>2, <2>1, WaitedTarget
  <2> QED
    BY <1>1, <2>2
<1>8. AppliedTrue'
  BY <1>1, AppliedKept
<1> QED
  BY <1>4, <1>5, <1>6, <1>7, <1>8 DEF Kept

\* The worker leaves before it has started anything.
LEMMA LeftStatus ==
  ASSUME Sound, NEW w \in ClusterWorkers, NEW s \in {"release", "finish"}, LeaveStep(w, s),
         exec[w].step \in {"lock", "read", "operating"},
         UNCHANGED <<changes, operation, reserved, orphans, commits, dropped>>
  PROVE  Kept
<1>1. Busy(w)
  BY DEF Busy
<1>2. /\ exec'[w].step = s /\ SameTask(exec'[w], exec[w]) /\ exec'[w].tx.step = "none"
      /\ \A v \in ClusterWorkers \ {w} : exec'[v] = exec[v]
  BY LeaveStepWorks, SoundTypes, Members DEF NoTransaction
<1>3. OneOperation'
  BY <1>1, <1>2, OperationKept
<1>4. WorkTrue'
  BY <1>1, <1>2, LeftWorkTrue
<1>5. AttemptsTrue'
  <2>1. \A v \in ClusterWorkers, c \in ChangeIds : Attempt(exec'[v].tx, c) => Attempt(exec[v].tx, c)
    BY <1>2 DEF Attempt, Pending
  <2> QED
    BY <2>1, AttemptsKept
<1>6. WaitedFor'
  BY <1>1, NoneUnderWay
<1>7. AppliedTrue'
  BY AppliedKept
<1> QED
  BY <1>3, <1>4, <1>5, <1>6, <1>7 DEF Kept

LEMMA LockStatus ==
  ASSUME Sound, NEW w \in ClusterWorkers, Lock(w)
  PROVE  Kept
<1>1. /\ exec[w].step = "lock"
      /\ UNCHANGED <<changes, operation, reserved, orphans, commits, dropped>>
  BY DEF Lock, historyVars
<1>2. CASE ~LockFree
  BY <1>1, <1>2, LeftStatus DEF Lock
<1>3. CASE LockFree
  <2>1. Busy(w)
    BY <1>1 DEF Busy
  <2>2. /\ exec'[w].step = (IF exec[w].kind = "operate" THEN "operating" ELSE "read")
        /\ SameTask(exec'[w], exec[w])
        /\ exec'[w].seen = changes[exec[w].change].status /\ exec'[w].tx = exec[w].tx
        /\ \A v \in ClusterWorkers \ {w} : exec'[v] = exec[v]
    BY <1>3, LockWorker, SoundTypes
  <2>3. OneOperation'
    BY <1>1, <2>1, <2>2, OperationKept
  <2>4. WorkTrue'
    <3>1. exec[w].tx.step = "none"
      BY <1>1 DEF Sound, WorkTrue
    <3>2. exec'[w].change = exec[w].change /\ exec'[w].kind = exec[w].kind
      BY <2>2 DEF SameTask
    <3> QED
      BY <1>1, <2>1, <2>2, <3>1, <3>2, OneWorkTrue
  <2>5. AttemptsTrue'
    BY <1>1, <2>2, AttemptsKept
  <2>6. WaitedFor'
    BY <1>1, <2>1, NoneUnderWay
  <2>7. AppliedTrue'
    BY <1>1, AppliedKept
  <2> QED
    BY <2>3, <2>4, <2>5, <2>6, <2>7 DEF Kept
<1> QED
  BY <1>2, <1>3

\* The attempt that starts is the first of its change, and no other is left.
LEMMA ReadCibStatus ==
  ASSUME Sound, NEW w \in ClusterWorkers, ReadCib(w)
  PROVE  Kept
<1> DEFINE c == exec[w].change
           s == IF exec[w].kind = "apply" THEN "applying" ELSE "validating"
<1>1. /\ exec[w].step = "read" /\ SetStatus(c, s)
      /\ exec[w].seen \notin Attempted /\ (exec[w].kind = "apply" => exec[w].seen = "validated")
      /\ UNCHANGED <<operation, reserved, orphans, commits, dropped>>
  BY DEF ReadCib, MayBeTried, Applying, Kind, Target, historyVars
<1>2. Busy(w)
  BY <1>1 DEF Busy
<1>3. /\ changes'[c].status = s /\ c \in ChangeIds
      /\ \A d \in ChangeIds \ {c} : changes'[d] = changes[d]
  BY <1>1, SetStatusType, SoundTypes, Members
<1>4. /\ exec'[w].step = "remote" /\ SameTask(exec'[w], exec[w])
      /\ \A v \in ClusterWorkers \ {w} : exec'[v] = exec[v]
  BY ReadCibWorker, SoundTypes
<1>5. /\ exec'[w].tx.step = "begun" /\ exec'[w].tx.change = c
      /\ exec'[w].tx.apply = (exec[w].kind = "apply")
  <2>1. exec'[w].tx = [step |-> "begun", change |-> exec[w].change, apply |-> exec[w].kind = "apply",
                       intact |-> TRUE, ok |-> FALSE]
    BY ReadCibWorker, SoundTypes
  <2> QED
    BY <2>1
<1>6. /\ exec[w].kind # "operate" /\ exec[w].kind # "none" /\ changes[c].status \notin Attempted
      /\ exec[w].kind \in Kinds
  BY <1>1, <1>2, Alone, SoundTypes DEF Sound, WorkTrue
<1>7. OneOperation'
  BY <1>1, <1>2, <1>4, OperationKept
<1>8. WorkTrue'
  <2>1. exec'[w].change = c /\ exec'[w].kind = exec[w].kind
    BY <1>4 DEF SameTask
  <2> QED
    BY <1>2, <1>3, <1>4, <1>5, <1>6, <2>1, OneWorkTrue
<1>9. AttemptsTrue'
  <2> SUFFICES ASSUME NEW d \in ChangeIds \ dropped
               PROVE  /\ \A v \in ClusterWorkers : Attempt(exec'[v].tx, d) =>
                            commits[d] = 0 /\ \A o \in orphans : ~Attempt(o, d)
                      /\ \A o \in orphans : Attempt(o, d) => commits[d] = 0 /\ changes'[d].status \in Attempted
                      /\ \A o, p \in orphans : Attempt(o, d) /\ Attempt(p, d) => o = p
                      /\ commits[d] > 0 => commits[d] = 1 /\ changes'[d].status \in Attempted
    BY <1>1 DEF AttemptsTrue, Attempt, Pending
  <2>1. /\ \A o \in orphans : Attempt(o, d) => commits[d] = 0 /\ changes[d].status \in Attempted
        /\ \A o, p \in orphans : Attempt(o, d) /\ Attempt(p, d) => o = p
        /\ commits[d] > 0 => commits[d] = 1 /\ changes[d].status \in Attempted
        /\ commits[d] \in Nat
    BY SoundTypes DEF Sound, AttemptsTrue
  <2>2. \A v \in ClusterWorkers : Attempt(exec'[v].tx, d) => d = c
    <3>1. \A v \in ClusterWorkers \ {w} : exec'[v].tx.step = "none"
      BY <1>2, <1>4, Alone
    <3> QED
      BY <1>5, <3>1 DEF Attempt, Pending
  <2>3. CASE d = c
    BY <1>3, <1>6, <2>1, <2>3
  <2>4. CASE d # c
    BY <1>3, <2>1, <2>2, <2>4
  <2> QED
    BY <2>3, <2>4
<1>10. WaitedFor'
  <2> SUFFICES ASSUME NEW d \in ChangeIds \ dropped, changes'[d].status \in {"validating", "applying"}
               PROVE  \E t \in Operations :
                         /\ operation[t].change = d /\ operation[t].started /\ operation[t].status # "none"
                         /\ operation[t].kind = (IF changes'[d].status = "applying" THEN "apply" ELSE "validate")
    <3>1. \A v \in ClusterWorkers : Busy(v)' => exec'[v].step = "remote"
      BY <1>2, <1>4, Alone DEF Busy
    <3> QED
      BY <1>1, <3>1 DEF WaitedFor
  <2>1. d = c
    BY <1>1, <1>2, <1>3, WaitedTarget
  <2>2. /\ exec[w].op \in Operations /\ operation[exec[w].op].status = "running"
        /\ operation[exec[w].op].kind = exec[w].kind /\ operation[exec[w].op].change = c
        /\ operation[exec[w].op].started
    BY <1>1, <1>2 DEF Sound, OneOperation
  <2> QED
    BY <1>3, <1>6, <2>1, <2>2 DEF Kinds
<1>11. AppliedTrue'
  BY <1>1, <1>3 DEF Sound, AppliedTrue
<1> QED
  BY <1>7, <1>8, <1>9, <1>10, <1>11 DEF Kept

\* A transaction of the worker goes on, or fails, without a commit.
LEMMA TransactionStatus ==
  ASSUME Sound, NEW w \in ClusterWorkers, exec[w].tx.step \in {"begun", "patching"},
         UNCHANGED <<changes, operation, reserved, orphans, commits, dropped>>,
         exec'[w].step = exec[w].step, SameTask(exec'[w], exec[w]),
         exec'[w].tx.step \in {"patching", "done"},
         exec'[w].tx.change = exec[w].tx.change, exec'[w].tx.apply = exec[w].tx.apply,
         exec'[w].tx.step = "done" /\ exec'[w].tx.apply => ~exec'[w].tx.ok,
         \A v \in ClusterWorkers \ {w} : exec'[v] = exec[v]
  PROVE  Kept
<1>1. exec[w].step = "remote" /\ Busy(w)
  BY DEF Sound, WorkTrue, Busy
<1>2. OneOperation'
  BY <1>1, OperationKept
<1>3. WorkTrue'
  <2>1. /\ exec[w].kind # "operate"
        /\ exec[w].tx.change = exec[w].change /\ exec[w].tx.apply = (exec[w].kind = "apply")
        /\ changes[exec[w].change].status = (IF exec[w].kind = "apply" THEN "applying" ELSE "validating")
    BY <1>1 DEF Sound, WorkTrue
  <2>2. exec'[w].change = exec[w].change /\ exec'[w].kind = exec[w].kind
    BY DEF SameTask
  <2> QED
    BY <1>1, <2>1, <2>2, OneWorkTrue
<1>4. AttemptsTrue'
  <2>1. \A v \in ClusterWorkers, c \in ChangeIds : Attempt(exec'[v].tx, c) => Attempt(exec[v].tx, c)
    BY DEF Attempt, Pending
  <2> QED
    BY <2>1, AttemptsKept
<1>5. WaitedFor'
  <2>1. \A v \in ClusterWorkers : Busy(v)' => exec'[v].step = "remote"
    BY <1>1, Alone DEF Busy
  <2> QED
    BY <2>1 DEF Sound, WaitedFor
<1>6. AppliedTrue'
  BY AppliedKept
<1> QED
  BY <1>2, <1>3, <1>4, <1>5, <1>6 DEF Kept

LEMMA CompareStatus ==
  ASSUME Sound, NEW w \in ClusterWorkers, Compare(w)
  PROVE  Kept
<1>1. /\ exec'[w].step = exec[w].step /\ SameTask(exec'[w], exec[w])
      /\ exec'[w].tx = Compared(exec[w].tx)
      /\ \A v \in ClusterWorkers \ {w} : exec'[v] = exec[v]
  BY CompareWorker, SoundTypes
<1>2. /\ exec'[w].tx.step \in {"patching", "done"}
      /\ exec'[w].tx.change = exec[w].tx.change /\ exec'[w].tx.apply = exec[w].tx.apply
      /\ exec'[w].tx.step = "done" => ~exec'[w].tx.ok
  BY <1>1, ComparedTransaction, SoundTypes
<1>3. /\ exec[w].tx.step = "begun"
      /\ UNCHANGED <<changes, operation, reserved, orphans, commits, dropped>>
  BY DEF Compare, historyVars
<1> QED
  BY <1>1, <1>2, <1>3, TransactionStatus

LEMMA TransactionFailsStatus ==
  ASSUME Sound, NEW w \in ClusterWorkers, TransactionFails(w)
  PROVE  Kept
<1>1. /\ exec'[w].step = exec[w].step /\ SameTask(exec'[w], exec[w])
      /\ exec'[w].tx = [exec[w].tx EXCEPT !.step = "done", !.ok = FALSE]
      /\ \A v \in ClusterWorkers \ {w} : exec'[v] = exec[v]
  BY TransactionFailsWorker, SoundTypes
<1>2. /\ exec'[w].tx.step = "done" /\ ~exec'[w].tx.ok
      /\ exec'[w].tx.change = exec[w].tx.change /\ exec'[w].tx.apply = exec[w].tx.apply
  BY <1>1, SoundTypes DEF Transactions
<1>3. /\ exec[w].tx.step \in {"begun", "patching"}
      /\ UNCHANGED <<changes, operation, reserved, orphans, commits, dropped>>
  BY DEF TransactionFails, historyVars
<1> QED
  BY <1>1, <1>2, <1>3, TransactionStatus

\* The only attempt of a change that may commit does so: afterwards the change
\* was committed once, and nothing is left that could commit it again.
LEMMA CommitCounted ==
  ASSUME Sound, NEW tx \in Transactions, Commit(tx)
  PROVE  /\ commits'[tx.change] = commits[tx.change] + 1
         /\ \A c \in ChangeIds \ {tx.change} : commits'[c] = commits[c]
         /\ dropped' = dropped /\ tx.change \in ChangeIds
<1>1. tx.change \in ChangeIds
  BY DEF Transactions
<1> QED
  BY <1>1, SoundTypes DEF Commit, PacemakerTypeOK

LEMMA CommittedStatus ==
  ASSUME Sound, NEW tx \in Transactions, Commit(tx), tx.apply, tx.step = "patching",
         UNCHANGED <<changes, operation, reserved>>,
         \A w \in ClusterWorkers :
            /\ exec'[w].step = exec[w].step /\ SameTask(exec'[w], exec[w])
            /\ exec'[w].again = exec[w].again /\ exec'[w].seen = exec[w].seen
            /\ exec'[w].tx.change = exec[w].tx.change /\ exec'[w].tx.apply = exec[w].tx.apply
            /\ \/ exec'[w].tx.step = exec[w].tx.step /\ exec'[w].tx.ok = exec[w].tx.ok
               \/ exec[w].tx = tx /\ exec'[w].tx.step = "done",
         \A o \in orphans' : \E p \in orphans : o = Outdated(p),
         tx.change \notin dropped =>
            /\ \A w \in ClusterWorkers : ~Attempt(exec'[w].tx, tx.change)
            /\ \A o \in orphans' : ~Attempt(o, tx.change)
            /\ commits[tx.change] = 0 /\ changes[tx.change].status \in Attempted
  PROVE  Kept
<1>1. /\ commits'[tx.change] = commits[tx.change] + 1
      /\ \A c \in ChangeIds \ {tx.change} : commits'[c] = commits[c]
      /\ dropped' = dropped /\ tx.change \in ChangeIds
      /\ \A c \in ChangeIds : commits[c] \in Nat
  BY CommitCounted, SoundTypes
<1>2. OneOperation'
  BY DEF Sound, OneOperation, Busy, Live, SameTask
<1>3. WorkTrue'
  <2> SUFFICES ASSUME NEW w \in ClusterWorkers
               PROVE  LET e == exec'[w]  state == changes[e.change].status IN
                      /\ e.step = "read" => /\ e.kind # "operate"
                                            /\ e.seen = "validated" => state = "validated"
                                            /\ state \in Attempted => e.seen \in Attempted
                      /\ (e.tx.step # "none") = (e.step = "remote")
                      /\ e.step = "remote" =>
                            /\ e.kind # "operate"
                            /\ e.tx.change = e.change /\ e.tx.apply = (e.kind = "apply")
                            /\ state = (IF e.kind = "apply" THEN "applying" ELSE "validating")
                      /\ e.tx.step = "done" /\ e.tx.apply /\ e.tx.ok => commits'[e.change] > 0
    BY DEF WorkTrue
  <2>1. /\ exec'[w].step = exec[w].step /\ exec'[w].change = exec[w].change
        /\ exec'[w].kind = exec[w].kind /\ exec'[w].seen = exec[w].seen
        /\ exec'[w].tx.change = exec[w].tx.change /\ exec'[w].tx.apply = exec[w].tx.apply
        /\ exec[w].change \in ChangeIds
    BY SoundTypes DEF SameTask
  <2>2. CASE exec'[w].tx.step = exec[w].tx.step /\ exec'[w].tx.ok = exec[w].tx.ok
    <3>1. commits[exec[w].change] > 0 => commits'[exec[w].change] > 0
      BY <1>1, <2>1
    <3> QED
      BY <2>1, <2>2, <3>1 DEF Sound, WorkTrue
  <2>3. CASE exec[w].tx = tx /\ exec'[w].tx.step = "done"
    <3>1. exec[w].step = "remote" /\ exec[w].change = tx.change
      BY <2>3 DEF Sound, WorkTrue
    <3>2. commits'[exec[w].change] > 0
      BY <1>1, <3>1
    <3> QED
      BY <2>1, <2>3, <3>1, <3>2 DEF Sound, WorkTrue
  <2> QED
    BY <2>2, <2>3
<1>4. AttemptsTrue'
  <2>1. \A w \in ClusterWorkers, c \in ChangeIds : Attempt(exec'[w].tx, c) => Attempt(exec[w].tx, c)
    BY DEF Attempt, Pending
  <2>2. \A o \in orphans' : \E p \in orphans :
           o = Outdated(p) /\ \A c \in ChangeIds : Attempt(o, c) => Attempt(p, c)
    BY SoundTypes, OutdatedTransaction DEF Attempt, Pending
  <2> SUFFICES ASSUME NEW c \in ChangeIds \ dropped
               PROVE  /\ \A w \in ClusterWorkers : Attempt(exec'[w].tx, c) =>
                            commits'[c] = 0 /\ \A o \in orphans' : ~Attempt(o, c)
                      /\ \A o \in orphans' : Attempt(o, c) => commits'[c] = 0 /\ changes[c].status \in Attempted
                      /\ \A o, p \in orphans' : Attempt(o, c) /\ Attempt(p, c) => o = p
                      /\ commits'[c] > 0 => commits'[c] = 1 /\ changes[c].status \in Attempted
    BY <1>1 DEF AttemptsTrue, Attempt, Pending
  <2>3. /\ \A w \in ClusterWorkers : Attempt(exec[w].tx, c) =>
              commits[c] = 0 /\ \A o \in orphans : ~Attempt(o, c)
        /\ \A o \in orphans : Attempt(o, c) => commits[c] = 0 /\ changes[c].status \in Attempted
        /\ \A o, p \in orphans : Attempt(o, c) /\ Attempt(p, c) => o = p
        /\ commits[c] > 0 => commits[c] = 1 /\ changes[c].status \in Attempted
    BY DEF Sound, AttemptsTrue
  <2>4. CASE c # tx.change
    <3>1. \A o, p \in orphans' : Attempt(o, c) /\ Attempt(p, c) => o = p
      BY <2>2, <2>3
    <3>2. commits'[c] = commits[c]
      BY <1>1, <2>4
    <3> QED
      BY <2>1, <2>2, <2>3, <3>1, <3>2
  <2>5. CASE c = tx.change
    <3>1. commits'[c] = 1
      BY <1>1, <2>5
    <3> QED
      BY <2>5, <3>1
  <2> QED
    BY <2>4, <2>5
<1>5. WaitedFor'
  BY <1>1 DEF Sound, WaitedFor, Busy
<1>6. AppliedTrue'
  <2>1. \A c \in ChangeIds : commits[c] > 0 => commits'[c] > 0
    BY <1>1
  <2> QED
    BY <2>1 DEF Sound, AppliedTrue
<1> QED
  BY <1>2, <1>3, <1>4, <1>5, <1>6 DEF Kept

LEMMA TransactionEndsStatus ==
  ASSUME Sound, NEW w \in ClusterWorkers, TransactionEnds(w)
  PROVE  Kept
<1> DEFINE old == exec[w].tx
<1>1. /\ old \in Transactions /\ old.step = "patching" /\ Ended(old).step = "done"
      /\ Ended(old) \in Transactions
      /\ Ended(old).change = old.change /\ Ended(old).apply = old.apply
      /\ old.apply => Ended(old).ok = old.intact
      /\ UNCHANGED <<changes, operation, reserved>>
  BY EndedTransaction, SoundTypes DEF TransactionEnds
<1>2. \A v \in ClusterWorkers :
         /\ exec'[v].step = exec[v].step /\ SameTask(exec'[v], exec[v])
         /\ exec'[v].again = exec[v].again /\ exec'[v].seen = exec[v].seen
  BY TransactionEndsWorkers, SoundTypes
<1>3. CASE old.apply /\ old.intact
  <2>1. /\ exec'[w].tx = Outdated(Ended(old))
        /\ \A v \in ClusterWorkers \ {w} : exec'[v].tx = Outdated(exec[v].tx)
    BY <1>3, TransactionEndsWorkers, SoundTypes
  <2>2. /\ exec'[w].tx.step = "done" /\ exec'[w].tx.change = old.change /\ exec'[w].tx.apply = old.apply
        /\ \A v \in ClusterWorkers \ {w} :
              /\ exec'[v].tx.step = exec[v].tx.step /\ exec'[v].tx.ok = exec[v].tx.ok
              /\ exec'[v].tx.change = exec[v].tx.change /\ exec'[v].tx.apply = exec[v].tx.apply
    BY <1>1, <2>1, SoundTypes, OutdatedTransaction
  <2>3. Commit(old) /\ orphans' = {Outdated(tx) : tx \in orphans}
    BY <1>3 DEF TransactionEnds, OutdateAll
  <2>4. Busy(w)
    BY <1>1 DEF Sound, WorkTrue, Busy
  <2>5. \A v \in ClusterWorkers : ~Attempt(exec'[v].tx, old.change)
    <3>1. \A v \in ClusterWorkers \ {w} : exec[v].tx.step = "none"
      BY <2>4, Alone
    <3>2. \A v \in ClusterWorkers : exec'[v].tx.step \in {"none", "done"}
      BY <2>2, <3>1
    <3> QED
      BY <3>2 DEF Attempt, Pending
  <2>6. Attempt(old, old.change) /\ old.change \in ChangeIds
    BY <1>1, <1>3 DEF Attempt, Pending, Transactions
  <2>7. old.change \notin dropped =>
          /\ commits[old.change] = 0 /\ changes[old.change].status \in Attempted
          /\ \A o \in orphans : ~Attempt(o, old.change)
    BY <2>6, OwnAttempt DEF Sound, AttemptsTrue, Attempted
  <2>8. \A o \in orphans : Attempt(Outdated(o), old.change) => Attempt(o, old.change)
    BY SoundTypes, OutdatedTransaction DEF Attempt, Pending
  <2>9. old.change \notin dropped => \A o \in orphans' : ~Attempt(o, old.change)
    BY <2>3, <2>7, <2>8
  <2> HIDE DEF old
  <2>10. exec[w].tx = old
    BY DEF old
  <2>11. \A v \in ClusterWorkers :
            /\ exec'[v].step = exec[v].step /\ SameTask(exec'[v], exec[v])
            /\ exec'[v].again = exec[v].again /\ exec'[v].seen = exec[v].seen
            /\ exec'[v].tx.change = exec[v].tx.change /\ exec'[v].tx.apply = exec[v].tx.apply
            /\ \/ exec'[v].tx.step = exec[v].tx.step /\ exec'[v].tx.ok = exec[v].tx.ok
               \/ exec[v].tx = old /\ exec'[v].tx.step = "done"
    BY <1>2, <2>2, <2>10
  <2>12. \A o \in orphans' : \E p \in orphans : o = Outdated(p)
    BY <2>3
  <2>13. old \in Transactions /\ Commit(old) /\ old.apply /\ old.step = "patching"
         /\ UNCHANGED <<changes, operation, reserved>>
    BY <1>1, <1>3, <2>3
  <2>14. old.change \notin dropped =>
            /\ \A v \in ClusterWorkers : ~Attempt(exec'[v].tx, old.change)
            /\ \A o \in orphans' : ~Attempt(o, old.change)
            /\ commits[old.change] = 0 /\ changes[old.change].status \in Attempted
    BY <2>5, <2>7, <2>9
  <2> QED
    BY <2>11, <2>12, <2>13, <2>14, CommittedStatus
<1>4. CASE ~(old.apply /\ old.intact)
  <2>1. /\ exec'[w].tx = Ended(old)
        /\ \A v \in ClusterWorkers \ {w} : exec'[v] = exec[v]
    <3>1. exec'[w].tx = Ended(old)
      BY <1>4, TransactionEndsWorkers, SoundTypes
    <3>2. exec' = [exec EXCEPT ![w].tx = Ended(@)]
      BY <1>4 DEF TransactionEnds
    <3> QED
      BY <3>1, <3>2, SoundTypes DEF PacemakerTypeOK
  <2>2. UNCHANGED <<orphans, commits, dropped>>
    BY <1>4 DEF TransactionEnds, historyVars
  <2> QED
    BY <1>1, <1>2, <1>4, <2>1, <2>2, TransactionStatus
<1> QED
  BY <1>3, <1>4

LEMMA OrphanComparesStatus ==
  ASSUME Sound, NEW tx \in orphans, OrphanCompares(tx)
  PROVE  Kept
<1>1. /\ tx.step = "begun" /\ orphans' = (orphans \ {tx}) \cup {Compared(tx)}
      /\ UNCHANGED <<changes, operation, reserved, exec, commits, dropped>>
  BY DEF OrphanCompares, historyVars
<1>2. \A c \in ChangeIds : Attempt(Compared(tx), c) => Attempt(tx, c)
  BY <1>1, ComparedTransaction, SoundTypes DEF Attempt, Pending
<1>3. OneOperation'
  BY <1>1 DEF Sound, OneOperation, Busy, Live
<1>4. WorkTrue'
  BY <1>1 DEF Sound, WorkTrue
<1>5. AttemptsTrue'
  <2> SUFFICES ASSUME NEW c \in ChangeIds \ dropped
               PROVE  /\ \A w \in ClusterWorkers : Attempt(exec[w].tx, c) =>
                            commits[c] = 0 /\ \A o \in orphans' : ~Attempt(o, c)
                      /\ \A o \in orphans' : Attempt(o, c) => commits[c] = 0 /\ changes[c].status \in Attempted
                      /\ \A o, p \in orphans' : Attempt(o, c) /\ Attempt(p, c) => o = p
                      /\ commits[c] > 0 => commits[c] = 1 /\ changes[c].status \in Attempted
    BY <1>1 DEF AttemptsTrue, Attempt, Pending
  <2>1. /\ \A w \in ClusterWorkers : Attempt(exec[w].tx, c) =>
              commits[c] = 0 /\ \A o \in orphans : ~Attempt(o, c)
        /\ \A o \in orphans : Attempt(o, c) => commits[c] = 0 /\ changes[c].status \in Attempted
        /\ \A o, p \in orphans : Attempt(o, c) /\ Attempt(p, c) => o = p
        /\ commits[c] > 0 => commits[c] = 1 /\ changes[c].status \in Attempted
    BY DEF Sound, AttemptsTrue
  <2> QED
    BY <1>1, <1>2, <2>1
<1>6. WaitedFor'
  BY <1>1 DEF Sound, WaitedFor, Busy
<1>7. AppliedTrue'
  BY <1>1, AppliedKept
<1> QED
  BY <1>3, <1>4, <1>5, <1>6, <1>7 DEF Kept

LEMMA OrphanEndsStatus ==
  ASSUME Sound, NEW tx \in orphans, OrphanEnds(tx)
  PROVE  Kept
<1>1. /\ tx.step = "patching" /\ tx \in Transactions /\ UNCHANGED <<changes, operation, reserved>>
  BY SoundTypes DEF OrphanEnds
<1>2. CASE tx.apply /\ tx.intact
  <2>1. /\ exec' = [w \in ClusterWorkers |-> [exec[w] EXCEPT !.tx = Outdated(@)]]
        /\ orphans' = {Outdated(o) : o \in orphans \ {tx}} /\ Commit(tx)
    BY <1>2 DEF OrphanEnds
  <2>2. \A w \in ClusterWorkers :
           /\ exec'[w].tx = Outdated(exec[w].tx) /\ SameTask(exec'[w], exec[w])
           /\ exec'[w].step = exec[w].step /\ exec'[w].again = exec[w].again /\ exec'[w].seen = exec[w].seen
    BY <2>1, OutdatedWorks, SoundTypes DEF PacemakerTypeOK
  <2>3. \A w \in ClusterWorkers :
           /\ exec'[w].tx.step = exec[w].tx.step /\ exec'[w].tx.ok = exec[w].tx.ok
           /\ exec'[w].tx.change = exec[w].tx.change /\ exec'[w].tx.apply = exec[w].tx.apply
    BY <2>2, SoundTypes, OutdatedTransaction
  <2>4. Attempt(tx, tx.change) /\ tx.change \in ChangeIds
    BY <1>1, <1>2 DEF Attempt, Pending, Transactions
  <2>5. tx.change \notin dropped =>
           /\ commits[tx.change] = 0 /\ changes[tx.change].status \in Attempted
           /\ \A w \in ClusterWorkers : ~Attempt(exec[w].tx, tx.change)
           /\ \A o \in orphans \ {tx} : ~Attempt(o, tx.change)
    BY <2>4 DEF Sound, AttemptsTrue
  <2>6. \A w \in ClusterWorkers : Attempt(exec'[w].tx, tx.change) => Attempt(exec[w].tx, tx.change)
    BY <2>3 DEF Attempt, Pending
  <2>7. \A o \in orphans : Attempt(Outdated(o), tx.change) => Attempt(o, tx.change)
    BY SoundTypes, OutdatedTransaction DEF Attempt, Pending
  <2>8. tx.change \notin dropped =>
           /\ \A w \in ClusterWorkers : ~Attempt(exec'[w].tx, tx.change)
           /\ \A o \in orphans' : ~Attempt(o, tx.change)
           /\ commits[tx.change] = 0 /\ changes[tx.change].status \in Attempted
    BY <2>1, <2>5, <2>6, <2>7
  <2>9. \A o \in orphans' : \E p \in orphans : o = Outdated(p)
    BY <2>1
  <2>10. \A w \in ClusterWorkers :
            /\ exec'[w].step = exec[w].step /\ SameTask(exec'[w], exec[w])
            /\ exec'[w].again = exec[w].again /\ exec'[w].seen = exec[w].seen
            /\ exec'[w].tx.change = exec[w].tx.change /\ exec'[w].tx.apply = exec[w].tx.apply
            /\ \/ exec'[w].tx.step = exec[w].tx.step /\ exec'[w].tx.ok = exec[w].tx.ok
               \/ exec[w].tx = tx /\ exec'[w].tx.step = "done"
    BY <2>2, <2>3
  <2> QED
    BY <1>1, <1>2, <2>1, <2>8, <2>9, <2>10, CommittedStatus
<1>3. CASE ~(tx.apply /\ tx.intact)
  <2>1. orphans' = orphans \ {tx} /\ UNCHANGED <<exec, commits, dropped>>
    BY <1>3 DEF OrphanEnds, historyVars
  <2>2. OneOperation'
    BY <1>1, <2>1 DEF Sound, OneOperation, Busy, Live
  <2>3. WorkTrue'
    BY <1>1, <2>1 DEF Sound, WorkTrue
  <2>4. AttemptsTrue'
    BY <1>1, <2>1, AttemptsKept
  <2>5. WaitedFor'
    BY <1>1, <2>1 DEF Sound, WaitedFor, Busy
  <2>6. AppliedTrue'
    BY <1>1, <2>1, AppliedKept
  <2> QED
    BY <2>2, <2>3, <2>4, <2>5, <2>6 DEF Kept
<1> QED
  BY <1>2, <1>3

\* The change of a worker that waits gets its outcome, and nobody waits.
LEMMA OutcomeWaited ==
  ASSUME Sound, NEW w \in ClusterWorkers, Busy(w), dropped' = dropped,
         \A d \in ChangeIds \ {exec[w].change} : changes'[d] = changes[d],
         changes'[exec[w].change].status \notin {"validating", "applying"}
  PROVE  WaitedFor'
<1> SUFFICES ASSUME NEW c \in ChangeIds \ dropped', changes'[c].status \in {"validating", "applying"}
             PROVE  FALSE
  BY NoneWaited
<1>1. changes[c].status \in {"validating", "applying"} /\ c # exec[w].change
  OBVIOUS
<1> QED
  BY <1>1, WaitedTarget

LEMMA OutcomeSavedStatus ==
  ASSUME Sound, NEW w \in ClusterWorkers, OutcomeSaved(w)
  PROVE  Kept
<1> DEFINE c == exec[w].change
           apply == exec[w].kind = "apply"
           ok == exec[w].tx.ok
<1>1. /\ exec[w].step = "remote" /\ exec[w].tx.step = "done" /\ LeaveStep(w, "release")
      /\ UNCHANGED <<operation, reserved, orphans, commits, dropped>>
  BY DEF OutcomeSaved
<1>2. Busy(w) /\ c \in ChangeIds /\ ok \in BOOLEAN
  BY <1>1, SoundTypes DEF Busy, Transactions
<1>3. /\ exec'[w].step = "release" /\ SameTask(exec'[w], exec[w]) /\ exec'[w].tx.step = "none"
      /\ \A v \in ClusterWorkers \ {w} : exec'[v] = exec[v]
  BY <1>1, LeaveStepWorks, SoundTypes, Members DEF NoTransaction
<1>4. PICK s \in {"applied", "validated", "unknown", "failed"} :
        SetStatus(c, s) /\ (s \in {"applied", "unknown"}) = apply /\ (s = "applied" => ok)
  BY <1>2 DEF OutcomeSaved, Applying, Kind, Target
<1>5. /\ changes'[c].status = s
      /\ \A d \in ChangeIds \ {c} : changes'[d] = changes[d]
  BY <1>2, <1>4, SetStatusType, SoundTypes, Members
<1>6. /\ exec[w].tx.apply = apply
      /\ changes[c].status = (IF apply THEN "applying" ELSE "validating")
      /\ apply /\ ok => commits[c] > 0
  BY <1>1 DEF Sound, WorkTrue
<1>7. OneOperation'
  BY <1>1, <1>2, <1>3, OperationKept
<1>8. WorkTrue'
  BY <1>2, <1>3, LeftWorkTrue
<1>9. AttemptsTrue'
  <2>1. \A v \in ClusterWorkers, d \in ChangeIds : Attempt(exec'[v].tx, d) => Attempt(exec[v].tx, d)
    BY <1>3 DEF Attempt, Pending
  <2>2. changes[c].status \in Attempted => changes'[c].status \in Attempted
    BY <1>4, <1>5, <1>6 DEF Attempted
  <2> QED
    BY <1>1, <1>5, <2>1, <2>2, AttemptsKept
<1>10. WaitedFor'
  BY <1>1, <1>2, <1>4, <1>5, OutcomeWaited
<1>11. AppliedTrue'
  BY <1>1, <1>4, <1>5, <1>6 DEF Sound, AppliedTrue
<1> QED
  BY <1>7, <1>8, <1>9, <1>10, <1>11 DEF Kept

LEMMA CallTimesOutStatus ==
  ASSUME Sound, NEW w \in ClusterWorkers, CallTimesOut(w)
  PROVE  Kept
<1> DEFINE c == exec[w].change
           s == IF exec[w].kind = "apply" THEN "unknown" ELSE "failed"
<1>1. /\ exec[w].step = "remote" /\ LeaveStep(w, "release") /\ SetStatus(c, s)
      /\ orphans' = orphans \cup Orphaned(exec[w].tx)
      /\ UNCHANGED <<operation, reserved, commits, dropped>>
  BY DEF CallTimesOut, historyVars, Applying, Kind, Target
<1>2. Busy(w) /\ c \in ChangeIds
  BY <1>1, SoundTypes DEF Busy
<1>3. /\ exec'[w].step = "release" /\ SameTask(exec'[w], exec[w]) /\ exec'[w].tx = NoTransaction
      /\ \A v \in ClusterWorkers \ {w} : exec'[v] = exec[v]
  BY <1>1, LeaveStepWorks, SoundTypes, Members
<1>4. /\ changes'[c].status = s
      /\ \A d \in ChangeIds \ {c} : changes'[d] = changes[d]
  BY <1>1, <1>2, SetStatusType, SoundTypes, Members
<1>5. changes[c].status = (IF exec[w].kind = "apply" THEN "applying" ELSE "validating")
  BY <1>1 DEF Sound, WorkTrue
<1>6. OneOperation'
  BY <1>1, <1>2, <1>3, OperationKept
<1>7. WorkTrue'
  BY <1>2, <1>3, LeftWorkTrue DEF NoTransaction
<1>8. AttemptsTrue'
  <2>1. changes[c].status \in Attempted => changes'[c].status \in Attempted
    BY <1>4, <1>5 DEF Attempted
  <2> QED
    BY <1>1, <1>2, <1>3, <1>4, <2>1, AttemptOrphaned
<1>9. WaitedFor'
  BY <1>1, <1>2, <1>4, OutcomeWaited
<1>10. AppliedTrue'
  BY <1>1, <1>4 DEF Sound, AppliedTrue
<1> QED
  BY <1>6, <1>7, <1>8, <1>9, <1>10 DEF Kept

LEMMA FinishOperationStatus ==
  ASSUME Sound, NEW w \in ClusterWorkers, FinishOperation(w)
  PROVE  Kept
<1>1. /\ exec[w].step \in {"release", "finish"}
      /\ operation' = [operation EXCEPT ![exec[w].op] = Unused]
      /\ exec' = [exec EXCEPT ![w] = NoWork]
      /\ UNCHANGED <<changes, orphans, commits, dropped>>
  BY DEF FinishOperation, historyVars
<1>2. Busy(w)
  BY <1>1 DEF Busy
<1>3. /\ exec'[w] = NoWork /\ \A v \in ClusterWorkers \ {w} : exec'[v] = exec[v]
  BY <1>1, OneWorks, SoundTypes, Members
<1>4. /\ reserved = exec[w].op
      /\ \A v \in ClusterWorkers \ {w} : exec[v].step = "idle" /\ exec[v].tx.step = "none"
  BY <1>2, Alone
<1>5. \A v \in ClusterWorkers : exec'[v].step = "idle" /\ exec'[v].tx.step = "none"
  BY <1>3, <1>4 DEF NoWork, NoTransaction
<1>6. OneOperation'
  <2>1. exec[w].op \in Operations
    BY <1>2 DEF Sound, OneOperation
  <2>2. /\ operation'[exec[w].op] = Unused
        /\ \A u \in Operations \ {exec[w].op} : operation'[u] = operation[u]
    BY <1>1, <2>1, SoundTypes DEF PacemakerTypeOK
  <2>3. \A u \in Operations : ~Live(u)'
    BY <1>4, <2>2 DEF Sound, OneOperation, Live
  <2>4. \A u \in Operations : operation'[u].status = "none"
    BY <2>3 DEF Live, Unused
  <2> QED
    BY <1>5, <2>3, <2>4 DEF OneOperation, Busy
<1>7. WorkTrue'
  BY <1>5 DEF WorkTrue
<1>8. AttemptsTrue'
  <2>1. \A v \in ClusterWorkers, d \in ChangeIds : ~Attempt(exec'[v].tx, d)
    BY <1>5 DEF Attempt, Pending
  <2> QED
    BY <1>1, <2>1, AttemptsKept
<1>9. WaitedFor'
  BY <1>1, <1>2, NoneUnderWay
<1>10. AppliedTrue'
  BY <1>1, AppliedKept
<1> QED
  BY <1>6, <1>7, <1>8, <1>9, <1>10 DEF Kept

LEMMA WorkerDiesStatus ==
  ASSUME Sound, NEW w \in ClusterWorkers, WorkerDies(w)
  PROVE  Kept
<1>1. /\ exec[w].step # "idle"
      /\ \/ operation' = [operation EXCEPT ![exec[w].op].status = "created"]
         \/ operation' = operation
      /\ orphans' = orphans \cup Orphaned(exec[w].tx)
      /\ exec' = [exec EXCEPT ![w] = NoWork]
      /\ UNCHANGED <<changes, reserved, commits, dropped>>
  <2>1. operation \in [Operations -> TaskRows]
    BY SoundTypes DEF PacemakerTypeOK
  <2>2. \/ operation' = [operation EXCEPT ![exec[w].op].status = "created"]
        \/ operation' = operation
    BY <2>1 DEF WorkerDies, TaskRows
  <2> QED
    BY <2>2 DEF WorkerDies, historyVars
<1>2. Busy(w)
  BY <1>1 DEF Busy
<1>3. /\ exec'[w] = NoWork /\ \A v \in ClusterWorkers \ {w} : exec'[v] = exec[v]
  BY <1>1, OneWorks, SoundTypes, Members
<1>4. /\ reserved = exec[w].op
      /\ \A v \in ClusterWorkers \ {w} : exec[v].step = "idle" /\ exec[v].tx.step = "none"
  BY <1>2, Alone
<1>5. \A v \in ClusterWorkers : exec'[v].step = "idle" /\ exec'[v].tx.step = "none"
  BY <1>3, <1>4 DEF NoWork, NoTransaction
<1>6. exec[w].op \in Operations /\ operation[exec[w].op].status = "running"
  BY <1>2 DEF Sound, OneOperation
<1>7. /\ operation'[exec[w].op].status \in {"created", "running"}
      /\ operation'[exec[w].op].kind = operation[exec[w].op].kind
      /\ operation'[exec[w].op].change = operation[exec[w].op].change
      /\ operation'[exec[w].op].started = operation[exec[w].op].started
      /\ \A u \in Operations \ {exec[w].op} : operation'[u] = operation[u]
  BY <1>1, <1>6, SoundTypes DEF PacemakerTypeOK, TaskRows
<1>8. OneOperation'
  <2>1. \A u \in Operations : Live(u)' => u = exec[w].op
    <3> SUFFICES ASSUME NEW u \in Operations, Live(u)', u # exec[w].op PROVE FALSE
      OBVIOUS
    <3>1. Live(u)
      BY <1>7 DEF Live
    <3> QED
      BY <1>4, <3>1 DEF Sound, OneOperation
  <2>2. \A u \in Operations : operation'[u].status # "none" => operation'[u].kind # "none"
    BY <1>6, <1>7 DEF Sound, OneOperation
  <2> QED
    BY <1>1, <1>4, <1>5, <2>1, <2>2 DEF OneOperation, Busy
<1>9. WorkTrue'
  BY <1>5 DEF WorkTrue
<1>10. AttemptsTrue'
  BY <1>1, <1>2, <1>3, AttemptOrphaned DEF NoWork
<1>11. WaitedFor'
  <2> SUFFICES ASSUME NEW c \in ChangeIds \ dropped, changes[c].status \in {"validating", "applying"}
               PROVE  \E u \in Operations :
                         /\ operation'[u].change = c /\ operation'[u].started
                         /\ operation'[u].status # "none"
                         /\ operation'[u].kind = (IF changes[c].status = "applying" THEN "apply" ELSE "validate")
    BY <1>1, <1>5 DEF WaitedFor, Busy
  <2>1. PICK u \in Operations :
          /\ operation[u].change = c /\ operation[u].started /\ operation[u].status # "none"
          /\ operation[u].kind = (IF changes[c].status = "applying" THEN "apply" ELSE "validate")
    BY DEF Sound, WaitedFor
  <2>2. u = exec[w].op
    BY <1>4, <2>1, LiveOnce
  <2> QED
    BY <1>6, <1>7, <2>1, <2>2
<1>12. AppliedTrue'
  BY <1>1, AppliedKept
<1> QED
  BY <1>8, <1>9, <1>10, <1>11, <1>12 DEF Kept

LEMMA UnchangedStatus ==
  ASSUME Sound, UNCHANGED <<changes, operation, reserved, exec, orphans, commits, dropped>>
  PROVE  Kept
<1>1. OneOperation' /\ WorkTrue'
  BY DEF Sound, OneOperation, WorkTrue, Busy, Live
<1>2. AttemptsTrue'
  BY AttemptsKept
<1>3. WaitedFor' /\ AppliedTrue'
  BY DEF Sound, WaitedFor, AppliedTrue, Busy
<1> QED
  BY <1>1, <1>2, <1>3 DEF Kept

LEMMA StatusStep ==
  ASSUME Sound, [PacemakerNext]_pacemakerVars, ~stalled'
  PROVE  Kept
<1>1. ASSUME NEW x \in Configurations, AdminEdit(x)
      PROVE  Kept
  BY <1>1, OutdatedWorks, OutdatedStatus, SoundTypes DEF AdminEdit, OutdateAll, historyVars, PacemakerTypeOK
<1>2. ASSUME NEW c \in ChangeIds, NEW x \in Configurations, CreateDraft(c, x)
      PROVE  Kept
  BY <1>2, SaveDraftStatus DEF CreateDraft
<1>3. ASSUME NEW c \in ChangeIds, NEW o \in ChangeIds, RestoreDraft(c, o)
      PROVE  Kept
  BY <1>3, SaveDraftStatus, SoundTypes DEF RestoreDraft, PacemakerTypeOK, ChangeRows
<1>4. ASSUME NEW t \in Operations, NEW kind \in {"validate", "apply", "operate"}, NEW c \in ChangeIds, Enqueue(t, kind, c)
      PROVE  Kept
  BY <1>4, EnqueueStatus
<1>5. ASSUME NEW w \in ClusterWorkers, NEW t \in Operations, ClaimOperation(w, t)
      PROVE  Kept
  BY <1>5, ClaimOperationStatus
<1>6. ASSUME NEW w \in ClusterWorkers, BeginOperation(w)
      PROVE  Kept
  BY <1>6, BeginAgainStatus, BeginFirstStatus
<1>7. ASSUME NEW w \in ClusterWorkers, NotPermitted(w)
      PROVE  Kept
  BY <1>7, NotPermittedStatus
<1>8. ASSUME NEW w \in ClusterWorkers, Lock(w)
      PROVE  Kept
  BY <1>8, LockStatus
<1>9. ASSUME NEW w \in ClusterWorkers, ReadCib(w)
      PROVE  Kept
  BY <1>9, ReadCibStatus
<1>10. ASSUME NEW w \in ClusterWorkers, Refuse(w)
      PROVE  Kept
  BY <1>10, LeftStatus DEF Refuse, historyVars
<1>11. ASSUME NEW w \in ClusterWorkers, ReadFails(w)
      PROVE  Kept
  BY <1>11, LeftStatus DEF ReadFails, historyVars
<1>12. ASSUME NEW w \in ClusterWorkers, NEW x \in Configurations, Operate(w, x)
      PROVE  Kept
  BY <1>12, OperateWorkers, OutdatedStatus, SoundTypes DEF Operate, OutdateAll, historyVars
<1>13. ASSUME NEW w \in ClusterWorkers, Compare(w)
      PROVE  Kept
  BY <1>13, CompareStatus
<1>14. ASSUME NEW w \in ClusterWorkers, TransactionEnds(w)
      PROVE  Kept
  BY <1>14, TransactionEndsStatus
<1>15. ASSUME NEW w \in ClusterWorkers, TransactionFails(w)
      PROVE  Kept
  BY <1>15, TransactionFailsStatus
<1>16. ASSUME NEW tx \in orphans, OrphanCompares(tx)
      PROVE  Kept
  BY <1>16, OrphanComparesStatus
<1>17. ASSUME NEW tx \in orphans, OrphanEnds(tx)
      PROVE  Kept
  BY <1>17, OrphanEndsStatus
<1>18. ASSUME NEW w \in ClusterWorkers, OutcomeSaved(w)
      PROVE  Kept
  BY <1>18, OutcomeSavedStatus
<1>19. ASSUME NEW w \in ClusterWorkers, CallTimesOut(w)
      PROVE  Kept
  BY <1>19, CallTimesOutStatus
<1>20. ASSUME NEW w \in ClusterWorkers, FinishOperation(w)
      PROVE  Kept
  BY <1>20, FinishOperationStatus
<1>21. ASSUME NEW w \in ClusterWorkers, WorkerDies(w)
      PROVE  Kept
  BY <1>21, WorkerDiesStatus
<1>22. ASSUME NEW t \in Operations, LeaseLapses(t)
      PROVE  Kept
  BY <1>22 DEF LeaseLapses, Stall
<1>23. CASE LockLapses
  BY <1>23, UnchangedStatus DEF LockLapses, historyVars
<1>24. CASE UNCHANGED pacemakerVars
  BY <1>24, UnchangedStatus DEF pacemakerVars
<1> QED
  BY <1>1, <1>2, <1>3, <1>4, <1>5, <1>6, <1>7, <1>8, <1>9, <1>10, <1>11, <1>12, <1>13, <1>14, <1>15, <1>16, <1>17, <1>18, <1>19, <1>20, <1>21, <1>22, <1>23, <1>24
  DEF PacemakerNext

\* A history that stalled has stalled for good.
LEMMA StalledKept ==
  ASSUME stalled \in BOOLEAN, [PacemakerNext]_pacemakerVars, ~stalled'
  PROVE  ~stalled
BY DEF PacemakerNext, pacemakerVars, bounds, AnEdit, Accident, Stall, AdminEdit, CreateDraft, RestoreDraft,
   SaveDraft, Enqueue, ClaimOperation, BeginOperation, NotPermitted, Lock, ReadCib, Refuse, ReadFails, Operate,
   Compare, TransactionEnds, TransactionFails, OrphanCompares, OrphanEnds, OutcomeSaved, CallTimesOut,
   FinishOperation, WorkerDies, LeaseLapses, LockLapses

LEMMA StatusInit == PacemakerInit => StatusInv
<1> SUFFICES ASSUME PacemakerInit PROVE StatusInv
  OBVIOUS
<1>1. \A w \in ClusterWorkers : exec[w].step = "idle" /\ exec[w].tx.step = "none"
  BY DEF PacemakerInit, NoWork, NoTransaction
<1>2. \A t \in Operations : ~Live(t) /\ operation[t].status = "none"
  BY DEF PacemakerInit, Live, Unused
<1>3. OneOperation /\ WorkTrue
  BY <1>1, <1>2 DEF OneOperation, WorkTrue, Busy
<1>4. AttemptsTrue
  BY <1>1 DEF PacemakerInit, AttemptsTrue, Attempt, Pending
<1>5. WaitedFor /\ AppliedTrue
  BY DEF PacemakerInit, WaitedFor, AppliedTrue
<1> QED
  BY <1>3, <1>4, <1>5 DEF StatusInv

\* While no lease lapses under a live worker, the status of a change tells the
\* truth about the cluster: what is called applied was committed, what was
\* committed is never tried again, and nobody waits for an attempt that no
\* operation is about - whatever dies, times out, or goes on by itself.
THEOREM StatusTold == PacemakerSpec => []ChangeStatusTrue
<1>1. IndInv /\ StatusInv /\ [PacemakerNext]_pacemakerVars => IndInv' /\ StatusInv'
  <2> SUFFICES ASSUME IndInv, StatusInv, [PacemakerNext]_pacemakerVars, ~stalled'
               PROVE  Kept
    BY IndStep DEF StatusInv, Kept
  <2>1. ~stalled
    BY StalledKept DEF IndInv, PacemakerTypeOK
  <2>2. Sound
    BY <2>1 DEF Sound, StatusInv
  <2> QED
    BY <2>2, StatusStep
<1>2. IndInv /\ StatusInv => ChangeStatusTrue
  <2> SUFFICES ASSUME IndInv, StatusInv, ~stalled, NEW c \in ChangeIds
               PROVE  /\ changes[c].status = "applied" => commits[c] > 0
                      /\ c \notin dropped =>
                            /\ commits[c] > 0 => commits[c] = 1 /\ changes[c].status \in Attempted
                            /\ changes[c].status \in {"validating", "applying"} =>
                                   \E t \in Operations : operation[t].change = c /\ Live(t)
    BY DEF ChangeStatusTrue
  <2>1. AppliedTrue /\ AttemptsTrue /\ WaitedFor
    BY DEF StatusInv
  <2>2. \A t \in Operations : operation[t].status # "none" => Live(t)
    BY DEF Live, Unused
  <2> QED
    BY <2>1, <2>2 DEF AppliedTrue, AttemptsTrue, WaitedFor
<1> QED
  BY <1>1, <1>2, IndInit, StatusInit, PTL DEF PacemakerSpec

-----------------------------------------------------------------------------
(* The work of the queue together. *)

\* The parts share nothing, so each of them behaves as it does alone.
LEMMA CommandsStep ==
  CommandsNext \/ UNCHANGED commandsVars
    => [Next]_vars /\ [HaNext]_haVars /\ [PacemakerNext]_pacemakerVars
<1>1. CommandsNext => [Next]_vars /\ [HaNext]_haVars /\ [PacemakerNext]_pacemakerVars
  BY DEF CommandsNext
<1>2. UNCHANGED commandsVars => UNCHANGED vars /\ UNCHANGED haVars /\ UNCHANGED pacemakerVars
  BY DEF commandsVars
<1> QED BY <1>1, <1>2

LEMMA CommandsParts == CommandsSpec => Spec /\ HaSpec /\ PacemakerSpec
<1>1. CommandsInit => Init /\ HaInit /\ PacemakerInit BY DEF CommandsInit
<1>2. [CommandsNext]_commandsVars
      => [Next]_vars /\ [HaNext]_haVars /\ [PacemakerNext]_pacemakerVars
  BY CommandsStep
<1> QED BY <1>1, <1>2, PTL DEF CommandsSpec, Spec, HaSpec, PacemakerSpec

LEMMA OutagesBounded ==
  outages <= MaxOutages /\ TypeOK /\ [Next]_vars => outages' <= MaxOutages
<1> SUFFICES ASSUME outages <= MaxOutages, TypeOK, [Next]_vars PROVE outages' <= MaxOutages
  OBVIOUS
<1>1. outages \in Nat /\ MaxOutages \in Nat BY BoundAssumption DEF TypeOK
<1>2. ASSUME NEW t \in Tasks, LeaseExpires(t) PROVE outages' <= MaxOutages
  BY <1>1, <1>2 DEF LeaseExpires
<1>3. ASSUME outages' = outages PROVE outages' <= MaxOutages BY <1>3
<1>4. CASE Publisher
  BY <1>3, <1>4 DEF Publisher, RecoverStale, SelectCreated, MarkPublished, PublisherDone,
                    PublishConfirmed
<1>5. ASSUME NEW w \in Workers, Delivery(w) PROVE outages' <= MaxOutages
  BY <1>3, <1>5 DEF Delivery, Claim, Ack, Fetch
<1>6. ASSUME NEW w \in Workers, Execute(w) PROVE outages' <= MaxOutages
  BY <1>3, <1>6 DEF Execute, EnterAnsible, EnterChange, LockChange, Recheck, MarkStarted,
                    StartRemote, FinishAnsible, FinishChange
<1>7. ASSUME NEW w \in Workers, Renew(w) PROVE outages' <= MaxOutages
  BY <1>3, <1>7 DEF Renew
<1>8. CASE Environment
  BY <1>3, <1>8 DEF Environment, PublisherCrash, CreateAnsible, EnqueueChange, Prune,
                    PublishFailed, Nack, ConnectionLost, GiveUp, WorkerCrash
<1>9. CASE UNCHANGED vars BY <1>3, <1>9 DEF vars
<1> QED BY <1>2, <1>4, <1>5, <1>6, <1>7, <1>8, <1>9 DEF Next

\* The deliveries of the queue, a planned maintenance and the changes of a cluster get into
\* nobody's way: what is proved of each alone holds when they run together; the queue is an
\* exclusive lease as long as no lease may expire under a live worker.
THEOREM CommandsCorrect ==
  CommandsSpec =>
    /\ []CommandsTypeOK
    /\ []PublishedHasWakeup /\ []ExclusiveExecution /\ []ChangeStatusTrue
    /\ StoppedAndHeld /\ OnlyReviewedCommitted
    /\ MaxOutages = 0 => ImplementsTaskLease
<1> DEFINE OneRuns == focus \in {"queue", "maintenance", "cluster"}
           Few     == outages <= MaxOutages
<1>1. CommandsInit => OneRuns BY DEF CommandsInit
<1>2. OneRuns /\ [CommandsNext]_commandsVars => OneRuns' BY DEF CommandsNext, commandsVars
<1>3. OneRuns /\ TypeOK /\ HaTypeOK /\ PacemakerTypeOK => CommandsTypeOK BY DEF CommandsTypeOK
<1>4. Init => Few BY BoundAssumption DEF Init
<1>5. Few /\ TypeOK /\ [Next]_vars => Few' BY OutagesBounded
<1>6. MaxOutages = 0 /\ TypeOK /\ Few => outages = 0 BY DEF TypeOK
<1> HIDE DEF OneRuns, Few
<1>7. Spec => []Few BY <1>4, <1>5, TypeCorrect, PTL DEF Spec
<1>8. ASSUME MaxOutages = 0 PROVE Spec => ImplementsTaskLease
  <2>1. TypeOK /\ Few => outages = 0 BY <1>6, <1>8
  <2> QED BY <1>7, <2>1, TypeCorrect, QueueImplementsLease, PTL
<1>9. MaxOutages = 0 => (Spec => ImplementsTaskLease) BY <1>8
<1> QED
  BY <1>1, <1>2, <1>3, <1>9, CommandsParts, TypeCorrect, HaTypeCorrect, PacemakerTypeCorrect,
     WakeupNeverLost, TaskExclusive, StatusTold, StoppedAndHeldAlways, CommitsReviewed,
     PTL DEF CommandsSpec
=============================================================================
