-------------------------- MODULE PacemakerChanges --------------------------
(* Reviewed changes of the configuration of a Pacemaker cluster: a draft is  *)
(* validated and then applied by Operations workers, each time by one remote *)
(* transaction that compares the live configuration with the one the draft   *)
(* was made from.  Administrators and other tools change the cluster at any  *)
(* moment, a worker may die, its lease and the lock of the cluster may lapse *)
(* while it is alive, and a transaction goes on without the worker that has  *)
(* started it.                                                               *)
EXTENDS Naturals

CONSTANTS Configurations,       \* configurations of the cluster
          FirstConfiguration,   \* the one it has in the beginning
          LastChange,     \* changes are numbered 1..LastChange
          Operations,     \* rows of operations; those of ended ones are used again
          NoOperation,    \* no row
          ClusterWorkers, \* the processes that execute operations
          NoClusterWorker,
          MaxAdminEdits,  \* bound: changes of the cluster other than applied ones
          MaxDisturbances \* bound: workers that die, remote calls that fail or time out, leases
                          \* and locks that lapse under a live worker, and drafts after the first

ASSUME PacemakerAssumption ==
    /\ FirstConfiguration \in Configurations /\ NoClusterWorker \notin ClusterWorkers
    /\ LastChange \in Nat \ {0} /\ NoOperation \notin Operations
    /\ MaxAdminEdits \in Nat /\ MaxDisturbances \in Nat

VARIABLES
    cib,        \* the configuration of the cluster
    changes,    \* the rows of the changes
    operation,  \* the rows of the operations
    reserved,   \* PacemakerCluster.active_task_id
    holder,     \* who took the lock of the cluster last and has not released it
    lapsed,     \* that lock is older than ten minutes
    exec,       \* what each worker does
    orphans,    \* transactions without a worker
    commits,    \* history: how often each change was committed
    reviewed,   \* history: changes the simulation of which was recorded
    dropped,    \* history: changes an interrupted operation of which was given up blindly
    edits, disturbances, \* how much of each bound is used
    stalled     \* history: a lease or a lock lapsed under a live worker

pacemakerVars == <<cib, changes, operation, reserved, holder, lapsed, exec, orphans, commits, reviewed,
                   dropped, edits, disturbances, stalled>>
lockVars    == <<holder, lapsed>>
historyVars == <<commits, reviewed, dropped>>
bounds      == <<edits, disturbances, stalled>>

ChangeIds == 1..LastChange
Attempted == {"applying", "applied", "unknown"}
ChangeStatuses == Attempted \cup {"none", "draft", "validating", "validated", "failed"}

\* "intact": nobody has changed the configuration since the transaction read it.
Transactions  == [step : {"none", "begun", "patching", "done"}, change : ChangeIds, apply : BOOLEAN,
                  intact : BOOLEAN, ok : BOOLEAN]
NoTransaction == [step |-> "none", change |-> 1, apply |-> FALSE, intact |-> FALSE, ok |-> FALSE]
Unused == [kind |-> "none", change |-> 1, started |-> FALSE, status |-> "none"]
NoWork == [step |-> "idle", op |-> NoOperation, kind |-> "none", change |-> 1, again |-> FALSE,
           seen |-> "none", tx |-> NoTransaction]

\* The steps of a worker at which the lock of the cluster was taken by it.
LockedSteps == {"read", "remote", "operating", "release"}

Kinds      == {"none", "validate", "apply", "operate"}
ChangeRows == [status : ChangeStatuses, base : Configurations, candidate : Configurations]
TaskRows   == [kind : Kinds, change : ChangeIds, started : BOOLEAN, status : {"none", "created", "running"}]
WorkSteps  == {"idle", "claimed", "lock", "finish"} \cup LockedSteps
Works      == [step : WorkSteps, op : Operations \cup {NoOperation}, kind : Kinds, change : ChangeIds,
               again : BOOLEAN, seen : ChangeStatuses, tx : Transactions]

PacemakerTypeOK ==
    /\ cib \in Configurations
    /\ changes \in [ChangeIds -> ChangeRows]
    /\ operation \in [Operations -> TaskRows]
    /\ reserved \in Operations \cup {NoOperation}
    /\ holder \in ClusterWorkers \cup {NoClusterWorker} /\ lapsed \in BOOLEAN
    /\ exec \in [ClusterWorkers -> Works]
    /\ orphans \subseteq Transactions
    /\ commits \in [ChangeIds -> Nat] /\ reviewed \subseteq ChangeIds /\ dropped \subseteq ChangeIds
    /\ edits \in 0..MaxAdminEdits /\ disturbances \in 0..MaxDisturbances /\ stalled \in BOOLEAN

PacemakerInit ==
    /\ cib = FirstConfiguration
    /\ changes = [c \in ChangeIds |->
           [status |-> "none", base |-> FirstConfiguration, candidate |-> FirstConfiguration]]
    /\ operation = [t \in Operations |-> Unused]
    /\ reserved = NoOperation /\ holder = NoClusterWorker /\ lapsed = FALSE
    /\ exec = [w \in ClusterWorkers |-> NoWork] /\ orphans = {}
    /\ commits = [c \in ChangeIds |-> 0] /\ reviewed = {} /\ dropped = {}
    /\ edits = 0 /\ disturbances = 0 /\ stalled = FALSE

Disturbance == disturbances < MaxDisturbances /\ disturbances' = disturbances + 1 /\ UNCHANGED edits
Accident    == Disturbance /\ UNCHANGED stalled
Stall       == Disturbance /\ stalled' = TRUE
AnEdit      == edits < MaxAdminEdits /\ edits' = edits + 1 /\ UNCHANGED <<disturbances, stalled>>

LockFree    == holder = NoClusterWorker \/ lapsed
Live(t)     == operation[t] # Unused
Target(w)   == exec[w].change
Kind(w)     == exec[w].kind
Applying(w) == Kind(w) = "apply"

\* Every transaction that has read the configuration learns that it is another
\* one now: its patch carries the version it was made for.
Outdated(tx) == IF tx.step = "patching" THEN [tx EXCEPT !.intact = FALSE] ELSE tx
OutdateAll(ex) ==
    /\ exec' = [w \in ClusterWorkers |-> [ex[w] EXCEPT !.tx = Outdated(@)]]
    /\ orphans' = {Outdated(tx) : tx \in orphans}

Proceed(w, step)   == exec' = [exec EXCEPT ![w].step = step]
LeaveStep(w, step) == exec' = [exec EXCEPT ![w].step = step, ![w].seen = "none", ![w].again = FALSE,
                                            ![w].tx = NoTransaction]
SetStatus(c, s)    == changes' = [changes EXCEPT ![c].status = s]

-----------------------------------------------------------------------------
(* The cluster and the users. *)

\* Somebody changes the cluster without this application, or a command of it
\* that nobody waits for any more takes effect.
AdminEdit(x) ==
    /\ AnEdit /\ x # cib /\ cib' = x
    /\ OutdateAll(exec)
    /\ UNCHANGED <<changes, operation, reserved, lockVars, historyVars>>

SaveDraft(c, x) ==
    /\ LockFree
    /\ changes[c].status = "none" /\ \A d \in 1..(c - 1) : changes[d].status # "none"
    /\ changes' = [changes EXCEPT ![c] = [status |-> "draft", base |-> cib, candidate |-> x]]
    /\ IF c = 1 THEN UNCHANGED bounds ELSE Accident
    /\ UNCHANGED <<cib, operation, reserved, lockVars, exec, orphans, historyVars>>

\* A draft made from the configuration as it is; its lock is held for the
\* moment of the read.
CreateDraft(c, x) == x # cib /\ SaveDraft(c, x)

\* What a change has replaced, as a new change of the configuration as it is.
RestoreDraft(c, o) == changes[o].status # "none" /\ SaveDraft(c, changes[o].base)

\* One operation of a cluster at a time.
Enqueue(t, kind, c) ==
    /\ LockFree
    /\ reserved # NoOperation => ~Live(reserved)
    /\ ~Live(t) /\ \A w \in ClusterWorkers : exec[w].op # t
    /\ kind # "operate" => changes[c].status # "none"
    /\ kind = "operate" => c = 1
    /\ operation' = [operation EXCEPT ![t] = [kind |-> kind, change |-> c, started |-> FALSE, status |-> "created"]]
    /\ reserved' = t
    /\ UNCHANGED <<cib, changes, lockVars, exec, orphans, historyVars, bounds>>

-----------------------------------------------------------------------------
(* A worker. *)

ClaimOperation(w, t) ==
    /\ exec[w].step = "idle" /\ operation[t].status = "created"
    /\ operation' = [operation EXCEPT ![t].status = "running"]
    /\ exec' = [exec EXCEPT ![w] = [NoWork EXCEPT !.step = "claimed", !.op = t, !.kind = operation[t].kind,
                                    !.change = operation[t].change, !.again = operation[t].started]]
    /\ UNCHANGED <<cib, changes, reserved, lockVars, orphans, historyVars, bounds>>

\* An operation that was started before is not repeated, and the outcome of its
\* change is not known; the status the change has by now is not looked at.
BeginOperation(w) ==
    /\ exec[w].step = "claimed"
    /\ IF exec[w].again
       THEN /\ LeaveStep(w, "finish") /\ UNCHANGED operation
            /\ CASE Kind(w) = "validate" -> SetStatus(Target(w), "failed")
                 [] Kind(w) = "apply"    -> SetStatus(Target(w), "unknown")
                 [] OTHER                -> UNCHANGED changes
            /\ dropped' = IF Kind(w) = "validate" THEN dropped \cup {Target(w)} ELSE dropped
       ELSE /\ Proceed(w, "lock")
            /\ operation' = [operation EXCEPT ![exec[w].op].started = Live(exec[w].op)]
            /\ UNCHANGED <<changes, dropped>>
    /\ UNCHANGED <<cib, reserved, lockVars, orphans, commits, reviewed, bounds>>

\* The user has lost a permission or a server has got another identity: the
\* operation ends before it is known whether it was started already.
NotPermitted(w) ==
    /\ exec[w].step = "claimed" /\ Accident
    /\ LeaveStep(w, "finish")
    /\ dropped' = IF exec[w].again /\ Kind(w) # "operate" THEN dropped \cup {Target(w)} ELSE dropped
    /\ UNCHANGED <<cib, changes, operation, reserved, lockVars, orphans, commits, reviewed>>

\* validate_or_apply and operate: the row of the change is read under the lock.
Lock(w) ==
    /\ exec[w].step = "lock"
    /\ IF LockFree
       THEN /\ holder' = w /\ lapsed' = FALSE
            /\ exec' = [exec EXCEPT ![w].step = IF Kind(w) = "operate" THEN "operating" ELSE "read",
                                    ![w].seen = changes[Target(w)].status]
       ELSE LeaveStep(w, "finish") /\ UNCHANGED lockVars
    /\ UNCHANGED <<cib, changes, operation, reserved, orphans, historyVars, bounds>>

\* Mutant: an attempt whose outcome is not known does not keep another one away.
MayBeTriedAgain(w) == Applying(w) => exec[w].seen = "validated"

\* The outcome of a change is not known while it may have been applied.
MayBeTried(w) ==
    /\ exec[w].seen \notin Attempted
    /\ Applying(w) => exec[w].seen = "validated"

\* The configuration has to be the one of the draft; the transaction starts.
ReadCib(w) ==
    /\ exec[w].step = "read" /\ MayBeTried(w) /\ cib = changes[Target(w)].base
    /\ SetStatus(Target(w), IF Applying(w) THEN "applying" ELSE "validating")
    /\ exec' = [exec EXCEPT ![w].step = "remote", ![w].seen = "none",
                            ![w].tx = [step |-> "begun", change |-> Target(w), apply |-> Applying(w),
                                       intact |-> TRUE, ok |-> FALSE]]
    /\ UNCHANGED <<cib, operation, reserved, lockVars, orphans, historyVars, bounds>>

Refuse(w) ==
    /\ exec[w].step = "read" /\ ~(MayBeTried(w) /\ cib = changes[Target(w)].base)
    /\ LeaveStep(w, "release")
    /\ UNCHANGED <<cib, changes, operation, reserved, lockVars, orphans, historyVars, bounds>>

\* The nodes cannot be read or have no quorum.
ReadFails(w) ==
    /\ exec[w].step \in {"read", "operating"} /\ Accident
    /\ LeaveStep(w, "release")
    /\ UNCHANGED <<cib, changes, operation, reserved, lockVars, orphans, historyVars>>

\* operate: standby, maintenance, a resource moved or switched.
Operate(w, x) ==
    /\ exec[w].step = "operating"
    /\ AnEdit /\ cib' = x
    /\ OutdateAll([exec EXCEPT ![w].step = "release"])
    /\ UNCHANGED <<changes, operation, reserved, lockVars, historyVars>>

\* Mutant: the worker has compared the configuration, so the transaction does not.
ComparedByWorker(tx) == [tx EXCEPT !.step = "patching", !.intact = TRUE]

\* The steps of a transaction, written for the worker that waits for it and
\* for one without a worker alike.  It reads and compares first.
Compared(tx) ==
    IF cib = changes[tx.change].base
      THEN [tx EXCEPT !.step = "patching", !.intact = TRUE]
      ELSE [tx EXCEPT !.step = "done", !.ok = FALSE]

\* Then the simulation is done, or the patch committed unless it is outdated.
Ended(tx) == [tx EXCEPT !.step = "done", !.ok = tx.apply => tx.intact]

Commit(tx) ==
    /\ cib' = changes[tx.change].candidate
    /\ commits' = [commits EXCEPT ![tx.change] = @ + 1]
    /\ UNCHANGED <<reviewed, dropped>>

Compare(w) ==
    /\ exec[w].tx.step = "begun"
    /\ exec' = [exec EXCEPT ![w].tx = Compared(@)]
    /\ UNCHANGED <<cib, changes, operation, reserved, lockVars, orphans, historyVars, bounds>>

TransactionEnds(w) ==
    /\ exec[w].tx.step = "patching"
    /\ IF exec[w].tx.apply /\ exec[w].tx.intact
       THEN Commit(exec[w].tx) /\ OutdateAll([exec EXCEPT ![w].tx = Ended(@)])
       ELSE exec' = [exec EXCEPT ![w].tx = Ended(@)] /\ UNCHANGED <<cib, orphans, historyVars>>
    /\ UNCHANGED <<changes, operation, reserved, lockVars, bounds>>

\* crm_verify, crm_simulate or the commit itself fails.
TransactionFails(w) ==
    /\ exec[w].tx.step \in {"begun", "patching"} /\ Accident
    /\ exec' = [exec EXCEPT ![w].tx.step = "done", ![w].tx.ok = FALSE]
    /\ UNCHANGED <<cib, changes, operation, reserved, lockVars, orphans, historyVars>>

OrphanCompares(tx) ==
    /\ tx.step = "begun"
    /\ orphans' = (orphans \ {tx}) \cup {Compared(tx)}
    /\ UNCHANGED <<cib, changes, operation, reserved, lockVars, exec, historyVars, bounds>>

OrphanEnds(tx) ==
    /\ tx.step = "patching"
    /\ IF tx.apply /\ tx.intact
       THEN /\ Commit(tx)
            /\ exec' = [w \in ClusterWorkers |-> [exec[w] EXCEPT !.tx = Outdated(@)]]
            /\ orphans' = {Outdated(o) : o \in orphans \ {tx}}
       ELSE orphans' = orphans \ {tx} /\ UNCHANGED <<cib, exec, historyVars>>
    /\ UNCHANGED <<changes, operation, reserved, lockVars, bounds>>

\* The answer of the transaction is written to the row of the change.
OutcomeSaved(w) ==
    /\ exec[w].step = "remote" /\ exec[w].tx.step = "done"
    /\ LET ok == exec[w].tx.ok IN
       /\ SetStatus(Target(w), CASE ok /\ Applying(w)   -> "applied"
                                 [] ok /\ ~Applying(w)  -> "validated"
                                 [] ~ok /\ Applying(w)  -> "unknown"
                                 [] ~ok /\ ~Applying(w) -> "failed")
       /\ reviewed' = IF ok /\ ~Applying(w) THEN reviewed \cup {Target(w)} ELSE reviewed
       /\ LeaveStep(w, "release")
    /\ UNCHANGED <<cib, operation, reserved, lockVars, orphans, commits, dropped, bounds>>

Orphaned(tx) == IF tx.step \in {"begun", "patching"} THEN {tx} ELSE {}

\* No answer within 180 seconds, or the connection is lost: the transaction
\* goes on by itself.
CallTimesOut(w) ==
    /\ exec[w].step = "remote" /\ Accident
    /\ SetStatus(Target(w), IF Applying(w) THEN "unknown" ELSE "failed")
    /\ orphans' = orphans \cup Orphaned(exec[w].tx)
    /\ LeaveStep(w, "release")
    /\ UNCHANGED <<cib, operation, reserved, lockVars, historyVars>>

\* Only the lock that carries the token of this worker is released, and the
\* operation and its reservation are ended in any case; the outcome in the row
\* is for the user only.
FinishOperation(w) ==
    /\ exec[w].step \in {"release", "finish"}
    /\ IF exec[w].step = "release" /\ holder = w
       THEN holder' = NoClusterWorker /\ lapsed' = FALSE
       ELSE UNCHANGED lockVars
    /\ operation' = [operation EXCEPT ![exec[w].op] = Unused]
    /\ reserved' = IF reserved = exec[w].op THEN NoOperation ELSE reserved
    /\ exec' = [exec EXCEPT ![w] = NoWork]
    /\ UNCHANGED <<cib, changes, orphans, historyVars, bounds>>

-----------------------------------------------------------------------------
(* Crashes, leases and locks. *)

\* A worker dies and its operation is delivered again once its lease is over.
WorkerDies(w) ==
    /\ exec[w].step # "idle" /\ Accident
    /\ operation' = [operation EXCEPT ![exec[w].op].status =
           IF @ = "running" /\ \A v \in ClusterWorkers \ {w} : exec[v].op # exec[w].op THEN "created" ELSE @]
    /\ orphans' = orphans \cup Orphaned(exec[w].tx)
    /\ exec' = [exec EXCEPT ![w] = NoWork]
    /\ UNCHANGED <<cib, changes, reserved, lockVars, historyVars>>

\* The operation of a live worker is delivered again.
LeaseLapses(t) ==
    /\ Stall /\ operation[t].status = "running"
    /\ operation' = [operation EXCEPT ![t].status = "created"]
    /\ UNCHANGED <<cib, changes, reserved, lockVars, exec, orphans, historyVars>>

LockLapses ==
    /\ holder # NoClusterWorker /\ ~lapsed /\ lapsed' = TRUE
    /\ IF exec[holder].step \in LockedSteps THEN Stall ELSE UNCHANGED bounds
    /\ UNCHANGED <<cib, changes, operation, reserved, holder, exec, orphans, historyVars>>

PacemakerNext ==
    \/ \E x \in Configurations : AdminEdit(x)
    \/ \E c \in ChangeIds, x \in Configurations : CreateDraft(c, x)
    \/ \E c, o \in ChangeIds : RestoreDraft(c, o)
    \/ \E t \in Operations, kind \in {"validate", "apply", "operate"}, c \in ChangeIds : Enqueue(t, kind, c)
    \/ \E w \in ClusterWorkers, t \in Operations : ClaimOperation(w, t)
    \/ \E w \in ClusterWorkers : BeginOperation(w)
    \/ \E w \in ClusterWorkers : NotPermitted(w)
    \/ \E w \in ClusterWorkers : Lock(w)
    \/ \E w \in ClusterWorkers : ReadCib(w)
    \/ \E w \in ClusterWorkers : Refuse(w)
    \/ \E w \in ClusterWorkers : ReadFails(w)
    \/ \E w \in ClusterWorkers, x \in Configurations : Operate(w, x)
    \/ \E w \in ClusterWorkers : Compare(w)
    \/ \E w \in ClusterWorkers : TransactionEnds(w)
    \/ \E w \in ClusterWorkers : TransactionFails(w)
    \/ \E tx \in orphans : OrphanCompares(tx)
    \/ \E tx \in orphans : OrphanEnds(tx)
    \/ \E w \in ClusterWorkers : OutcomeSaved(w)
    \/ \E w \in ClusterWorkers : CallTimesOut(w)
    \/ \E w \in ClusterWorkers : FinishOperation(w)
    \/ \E w \in ClusterWorkers : WorkerDies(w)
    \/ \E t \in Operations : LeaseLapses(t)
    \/ LockLapses

PacemakerSpec == PacemakerInit /\ [][PacemakerNext]_pacemakerVars

-----------------------------------------------------------------------------
(* Properties. *)

\* Whatever lapses, dies, is delivered again or goes on by itself: the cluster
\* is only ever given the candidate of a change that was simulated for review,
\* and only in the place of the very configuration the draft was made from.
OnlyReviewedCommitted ==
    [][\A c \in ChangeIds : commits'[c] # commits[c] =>
          /\ c \in reviewed
          /\ cib = changes[c].base /\ cib' = changes[c].candidate]_pacemakerVars

\* While no lease lapses under a live worker, the status of a change tells the
\* truth: one called applied was committed, one that was committed is never
\* offered for another attempt and never committed again, and nobody is left
\* waiting for an attempt that no operation is about any more - unless an
\* operation was interrupted and then given up without a look at the change.
ChangeStatusTrue ==
    ~stalled => \A c \in ChangeIds :
        /\ changes[c].status = "applied" => commits[c] > 0
        /\ c \notin dropped =>
              /\ commits[c] > 0 => commits[c] = 1 /\ changes[c].status \in Attempted
              /\ changes[c].status \in {"validating", "applying"} =>
                     \E t \in Operations : operation[t].change = c /\ Live(t)
=============================================================================
