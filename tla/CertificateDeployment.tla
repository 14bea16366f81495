----------------------- MODULE CertificateDeployment -----------------------
(* The update of a certificate on a HAProxy server and its replicas: an      *)
(* operation of the durable queue applies it server by server, and then      *)
(* commits it everywhere or rolls it back everywhere.  Every server keeps a  *)
(* journal of the operation that changed it last.  Workers crash, calls and  *)
(* their answers are lost, processes die half-way, two operations update the *)
(* same certificate, and administrators edit files and reload HAProxy.       *)
EXTENDS Naturals

CONSTANTS Ops,         \* the operations
          Certs,       \* certificates
          Original,    \* the one loaded in the beginning
          NoCert,      \* no receipt
          N,           \* servers: 1 is the one chosen, the others its replicas
          MaxCertFaults,   \* bound: calls or answers lost, processes killed
          MaxCrashes,  \* bound: crashes of workers
          MaxForeign,  \* bound: edits by administrators
          MaxRetries,  \* bound: recoveries asked for by users
          MaxTotal     \* bound: all of these together

ASSUME CertificateAssumption ==
    /\ Original \in Certs /\ NoCert \notin Certs \cup Ops
    /\ N \in Nat \ {0}
    /\ MaxCertFaults \in Nat /\ MaxCrashes \in Nat /\ MaxForeign \in Nat
    /\ MaxRetries \in Nat /\ MaxTotal \in Nat

Servers == 1..N

\* What is bounded, and by what.
CertKinds == {"faults", "crashes", "foreign", "retries", "total"}
CertBound == [k \in CertKinds |-> CASE k = "faults"  -> MaxCertFaults
                                    [] k = "crashes" -> MaxCrashes
                                    [] k = "foreign" -> MaxForeign
                                    [] k = "retries" -> MaxRetries
                                    [] k = "total"   -> MaxTotal]

VARIABLES
    disk,    \* disk[s]: the certificate in the file
    mem,     \* mem[s]: the certificate HAProxy has loaded
    journal, \* journal[s]: pending.json with previous.pem
    applied, \* applied[s]: the receipt of a deployment
    undone,  \* undone[s]: the receipt of a rollback
    row,     \* row[o]: the row of the operation with its payload
    run,     \* run[o]: the worker that executes it, under the operation's lock
    budget   \* what is left of each bound

host == <<disk, mem, journal, applied, undone>>
certVars == <<disk, mem, journal, applied, undone, row, run, budget>>

NoJournal == [op |-> NoCert]
NoReceipt == [op |-> NoCert]
NoRun     == [step |-> "none", at |-> 1, tried |-> {}]
Targets   == [status : {"pending", "applying", "applied", "failed", "rolled_back", "not_applied"},
              started : BOOLEAN, finished : {"none", "commit", "rollback"}]
NewTarget == [status |-> "pending", started |-> FALSE, finished |-> "none"]

CertTypeOK ==
    /\ disk \in [Servers -> Certs] /\ mem \in [Servers -> Certs]
    /\ journal \in [Servers -> [op : Ops, old : Certs, new : Certs] \cup {NoJournal}]
    /\ applied \in [Servers -> Certs \cup {NoCert}]
    /\ undone \in [Servers -> [op : Ops, cert : Certs] \cup {NoReceipt}]
    /\ row \in [Ops -> [status : {"none", "created", "running", "completed", "failed"},
                        phase : {"apply", "commit", "rollback", "done"},
                        cert : Certs, revision : Certs, target : [Servers -> Targets]]]
    /\ run \in [Ops -> [step : {"none", "apply", "deploy", "abort", "finish"}, at : Servers,
                        tried : SUBSET Servers]]
    /\ budget \in [CertKinds -> Nat] /\ \A k \in CertKinds : budget[k] <= CertBound[k]

CertInit ==
    /\ disk = [s \in Servers |-> Original] /\ mem = disk
    /\ journal = [s \in Servers |-> NoJournal]
    /\ applied = [s \in Servers |-> NoCert]
    /\ undone = [s \in Servers |-> NoReceipt]
    /\ row = [o \in Ops |-> [status |-> "none", phase |-> "apply", cert |-> Original,
                             revision |-> Original, target |-> [s \in Servers |-> NewTarget]]]
    /\ run = [o \in Ops |-> NoRun]
    /\ budget = CertBound

Spent(kind) ==
    /\ budget[kind] > 0 /\ budget["total"] > 0
    /\ budget' = [budget EXCEPT ![kind] = @ - 1, !["total"] = @ - 1]

-----------------------------------------------------------------------------
(* The row of the operation. *)

\* enqueue, with the revision of the chosen server the user was shown.
EnqueueUpdate(o) ==
    /\ row[o].status = "none"
    /\ \E c \in Certs : row' = [row EXCEPT ![o].status = "created", ![o].cert = c,
                                           ![o].revision = disk[1]]
    /\ UNCHANGED <<host, run, budget>>

\* A worker claims the operation, also one whose worker is gone.
ExecuteUpdate(o) ==
    /\ row[o].status \in {"created", "running"} /\ run[o] = NoRun
    /\ row' = [row EXCEPT ![o].status = "running"]
    /\ run' = [run EXCEPT ![o].step = IF row[o].phase = "apply" THEN "apply" ELSE "finish"]
    /\ UNCHANGED <<host, budget>>

\* retry: an operation that could not be finished goes back to the queue.
RetryUpdate(o) ==
    /\ row[o].status = "failed" /\ row[o].phase \in {"commit", "rollback"}
    /\ Spent("retries")
    /\ row' = [row EXCEPT ![o].status = "created"]
    /\ UNCHANGED <<host, run>>

\* A worker is gone; what it saved stays.
WorkerGone(o) ==
    /\ run[o] # NoRun /\ Spent("crashes")
    /\ run' = [run EXCEPT ![o] = NoRun]
    /\ UNCHANGED <<host, row>>

-----------------------------------------------------------------------------
(* The worker: apply. *)

First(s, S) == s \in S /\ \A t \in S : s <= t
ToApply(o) == {s \in Servers : row[o].target[s].status # "applied"}

\* Mutant: "started" is not saved before the server is touched.
BeginTargetUnsaved(o) ==
    /\ run[o].step = "apply"
    /\ \E s \in Servers :
          /\ First(s, ToApply(o))
          /\ row' = [row EXCEPT ![o].target[s].status = "applying"]
          /\ run' = [run EXCEPT ![o].step = "deploy", ![o].at = s]
    /\ UNCHANGED <<host, budget>>

\* "applying" is saved before the server is touched.
BeginTarget(o) ==
    /\ run[o].step = "apply"
    /\ \E s \in Servers :
          /\ First(s, ToApply(o))
          /\ row' = [row EXCEPT ![o].target[s].status = "applying", ![o].target[s].started = TRUE]
          /\ run' = [run EXCEPT ![o].step = "deploy", ![o].at = s]
    /\ UNCHANGED <<host, budget>>

\* The servers, the permission or the settings are not those of the request
\* any more, or cannot be read.
CannotApply(o) ==
    /\ run[o].step = "apply" /\ Spent("faults")
    /\ run' = [run EXCEPT ![o].step = "abort"]
    /\ UNCHANGED <<host, row>>

\* The answer of a deployment is saved, or its worker is gone.
RecordDeploy(o, s, ok) ==
    \/ /\ row' = [row EXCEPT ![o].target[s].status = IF ok THEN "applied" ELSE "failed"]
       /\ run' = [run EXCEPT ![o].step = IF ok THEN "apply" ELSE "abort"]
       /\ UNCHANGED budget
    \/ /\ Spent("crashes")
       /\ run' = [run EXCEPT ![o] = NoRun]
       /\ UNCHANGED row

\* deploy_runtime, under the lock of the server.  Its own journal of before is
\* used again; another one, another revision or a file that HAProxy has not
\* loaded is refused.
Owned(o, s)      == journal[s].op = o
AlreadyThere(o, s) == journal[s] = NoJournal /\ {applied[s], disk[s], mem[s]} = {row[o].cert}
Refuses(o, s) ==
    IF journal[s] = NoJournal
    THEN (s = 1 /\ row[o].revision # disk[s]) \/ mem[s] # disk[s]
    ELSE ~Owned(o, s) \/ disk[s] \notin {journal[s].old, journal[s].new}
JournalFor(o, s) == IF Owned(o, s) THEN journal[s]
                    ELSE [op |-> o, old |-> disk[s], new |-> row[o].cert]

\* What a deployment may leave on the server: everything done; nothing begun
\* because HAProxy has a third certificate; undone again; or, the process
\* killed, the journal with the new file or with nothing.
Installed(o, s) ==
    /\ disk' = [disk EXCEPT ![s] = row[o].cert] /\ mem' = [mem EXCEPT ![s] = row[o].cert]
    /\ applied' = [applied EXCEPT ![s] = row[o].cert]
    /\ journal' = [journal EXCEPT ![s] = JournalFor(o, s)]
    /\ UNCHANGED undone

Undone(s, old) ==
    /\ disk' = [disk EXCEPT ![s] = old] /\ mem' = [mem EXCEPT ![s] = old]
    /\ applied' = [applied EXCEPT ![s] = NoCert]
    /\ journal' = [journal EXCEPT ![s] = NoJournal]
Killed(o, s) ==
    /\ disk' \in {disk, [disk EXCEPT ![s] = row[o].cert]}
    /\ journal' = [journal EXCEPT ![s] = JournalFor(o, s)]
    /\ UNCHANGED <<mem, applied, undone>>

DeployTarget(o) ==
    /\ run[o].step = "deploy"
    /\ LET s == run[o].at IN
       IF AlreadyThere(o, s) THEN UNCHANGED host /\ RecordDeploy(o, s, TRUE)
       ELSE IF Refuses(o, s) THEN UNCHANGED host /\ RecordDeploy(o, s, FALSE)
       ELSE IF mem[s] \notin {JournalFor(o, s).old, row[o].cert}
       THEN /\ journal' = [journal EXCEPT ![s] = JournalFor(o, s)]
            /\ UNCHANGED <<disk, mem, applied, undone>>
            /\ RecordDeploy(o, s, FALSE)
       ELSE Installed(o, s) /\ RecordDeploy(o, s, TRUE)

\* The call does not reach the server, HAProxy refuses the certificate, the
\* process is killed, or the answer is lost.
DeployFails(o) ==
    /\ run[o].step = "deploy" /\ Spent("faults")
    /\ LET s == run[o].at
           begins == /\ ~AlreadyThere(o, s) /\ ~Refuses(o, s)
                     /\ mem[s] \in {JournalFor(o, s).old, row[o].cert} IN
       /\ \/ UNCHANGED host
          \/ begins /\ Undone(s, JournalFor(o, s).old) /\ UNCHANGED undone
          \/ begins /\ Killed(o, s)
          \/ begins /\ Installed(o, s)
       /\ row' = [row EXCEPT ![o].target[s].status = "failed"]
    /\ run' = [run EXCEPT ![o].step = "abort"]

\* The exception handler of execute.
AbortUpdate(o) ==
    /\ run[o].step = "abort"
    /\ row' = [row EXCEPT ![o].phase = "rollback",
                  ![o].target = [s \in Servers |-> IF @[s].started THEN @[s]
                                                   ELSE [@[s] EXCEPT !.status = "not_applied"]]]
    /\ run' = [run EXCEPT ![o].step = "finish"]
    /\ UNCHANGED <<host, budget>>

\* Every server has it: the decision is saved before anything is committed.
DecideCommit(o) ==
    /\ run[o].step = "apply" /\ ToApply(o) = {}
    /\ row' = [row EXCEPT ![o].phase = "commit"]
    /\ run' = [run EXCEPT ![o].step = "finish"]
    /\ UNCHANGED <<host, budget>>

-----------------------------------------------------------------------------
(* The worker: commit or roll back every server that was touched. *)

ToFinish(o) == {s \in Servers : row[o].target[s].started /\ row[o].target[s].finished # row[o].phase}
Untried(o)  == ToFinish(o) \ run[o].tried

RecordFinish(o, s, ok) ==
    \/ /\ row' = IF ok THEN [row EXCEPT ![o].target[s].finished = row[o].phase,
                                        ![o].target[s].status =
                                            IF row[o].phase = "commit" THEN "applied" ELSE "rolled_back"]
                       ELSE [row EXCEPT ![o].target[s].status = "failed"]
       /\ run' = [run EXCEPT ![o].tried = @ \cup {s}]
       /\ UNCHANGED budget
    \/ /\ Spent("crashes")
       /\ run' = [run EXCEPT ![o] = NoRun]
       /\ UNCHANGED row

\* finished_receipt: the journal is gone, perhaps because the phase was done
\* and its answer lost.
ReceiptAgrees(o, s) ==
    IF row[o].phase = "commit"
    THEN {applied[s], disk[s], mem[s]} = {row[o].cert}
    ELSE \/ undone[s] = NoReceipt
         \/ undone[s] = [op |-> o, cert |-> disk[s]] /\ mem[s] = disk[s]

\* finish_runtime, for the commit of a certificate that still is there.
CanCommit(o, s) == disk[s] = journal[s].new /\ mem[s] = journal[s].new

\* Mutant: the rollback compares only what HAProxy has loaded.
CanUndoLoaded(o, s) == mem[s] \in {journal[s].old, journal[s].new}

CanUndo(o, s)   == {disk[s], mem[s]} \subseteq {journal[s].old, journal[s].new}
NoteUndo(o, s)  == undone' = [undone EXCEPT ![s] = [op |-> o, cert |-> journal[s].old]]

Finish(o, s) ==
    IF journal[s] = NoJournal
    THEN UNCHANGED host /\ RecordFinish(o, s, ReceiptAgrees(o, s))
    ELSE IF ~Owned(o, s) THEN UNCHANGED host /\ RecordFinish(o, s, FALSE)
    ELSE IF row[o].phase = "commit"
    THEN /\ journal' = IF CanCommit(o, s) THEN [journal EXCEPT ![s] = NoJournal] ELSE journal
         /\ UNCHANGED <<disk, mem, applied, undone>>
         /\ RecordFinish(o, s, CanCommit(o, s))
    ELSE /\ NoteUndo(o, s)
         /\ IF CanUndo(o, s) THEN Undone(s, journal[s].old)
                             ELSE UNCHANGED <<disk, mem, journal, applied>>
         /\ RecordFinish(o, s, CanUndo(o, s))
FinishTarget(o) ==
    /\ run[o].step = "finish"
    /\ \E s \in Servers : First(s, Untried(o)) /\ Finish(o, s)

\* The call is lost, the process is killed after it has restored the file, or
\* the answer is lost.
FinishFails(o) ==
    /\ run[o].step = "finish" /\ Spent("faults")
    /\ \E s \in Servers :
       /\ First(s, Untried(o))
       /\ \/ UNCHANGED host
          \/ /\ Owned(o, s) /\ row[o].phase = "commit" /\ CanCommit(o, s)
             /\ journal' = [journal EXCEPT ![s] = NoJournal]
             /\ UNCHANGED <<disk, mem, applied, undone>>
          \/ /\ Owned(o, s) /\ row[o].phase = "rollback" /\ CanUndo(o, s)
             /\ NoteUndo(o, s)
             /\ \/ Undone(s, journal[s].old)
                \/ /\ disk' = [disk EXCEPT ![s] = journal[s].old]
                   /\ UNCHANGED <<mem, journal, applied>>
       /\ row' = [row EXCEPT ![o].target[s].status = "failed"]
       /\ run' = [run EXCEPT ![o].tried = @ \cup {s}]

\* The operation ends; its phase is kept if a server could not be finished.
EndUpdate(o) ==
    /\ run[o].step = "finish" /\ Untried(o) = {}
    /\ row' = IF ToFinish(o) # {} THEN [row EXCEPT ![o].status = "failed"]
              ELSE [row EXCEPT ![o].phase = "done",
                       ![o].status = IF row[o].phase = "commit" THEN "completed" ELSE "failed"]
    /\ run' = [run EXCEPT ![o] = NoRun]
    /\ UNCHANGED <<host, budget>>

-----------------------------------------------------------------------------
(* The administrators of the servers. *)

EditCertificate(s) ==
    /\ Spent("foreign")
    /\ \/ \E c \in Certs \ {disk[s]} : disk' = [disk EXCEPT ![s] = c] /\ UNCHANGED mem
       \/ \E c \in Certs \ {mem[s]} : mem' = [mem EXCEPT ![s] = c] /\ UNCHANGED disk
    /\ UNCHANGED <<journal, applied, undone, row, run>>

RestartHaproxy(s) ==
    /\ mem' = [mem EXCEPT ![s] = disk[s]]
    /\ UNCHANGED <<disk, journal, applied, undone, row, run, budget>>

CertNext ==
    \/ \E o \in Ops : EnqueueUpdate(o)
    \/ \E o \in Ops : ExecuteUpdate(o)
    \/ \E o \in Ops : RetryUpdate(o)
    \/ \E o \in Ops : WorkerGone(o)
    \/ \E o \in Ops : BeginTarget(o)
    \/ \E o \in Ops : CannotApply(o)
    \/ \E o \in Ops : DeployTarget(o)
    \/ \E o \in Ops : DeployFails(o)
    \/ \E o \in Ops : AbortUpdate(o)
    \/ \E o \in Ops : DecideCommit(o)
    \/ \E o \in Ops : FinishTarget(o)
    \/ \E o \in Ops : FinishFails(o)
    \/ \E o \in Ops : EndUpdate(o)
    \/ \E s \in Servers : EditCertificate(s)
    \/ \E s \in Servers : RestartHaproxy(s)

CertSpec == CertInit /\ [][CertNext]_certVars

-----------------------------------------------------------------------------
(* Properties. *)

Over(o)  == row[o].phase = "done" \/ row[o].status = "none"
Untouched    == budget["foreign"] = MaxForeign

\* Whatever was lost, killed and tried again, and in whichever order two
\* operations met on the servers: once none is open, and no administrator has
\* edited anything, every server has one and the same certificate in its file
\* and in HAProxy.
FleetAgrees ==
    Untouched /\ (\A o \in Ops : Over(o)) =>
        \A s \in Servers : disk[s] = disk[1] /\ mem[s] = disk[1]

\* An operation that has ended owns no journal: it would turn away every later
\* update of the certificate on that server, and nothing would remove it.
JournalsReleased ==
    \A o \in Ops, s \in Servers : row[o].phase = "done" => journal[s].op # o

\* The decision of an operation is one for all its servers and never changes.
DecisionAtomic ==
    \A o \in Ops, s, t \in Servers :
        ~(row[o].target[s].finished = "commit" /\ row[o].target[t].finished = "rollback")

\* An update is one transaction over its servers: nothing of it is left, and
\* they agree.
UpdateAtomic == JournalsReleased /\ DecisionAtomic /\ FleetAgrees

\* A rollback puts back what its operation found: the file of an administrator
\* is overwritten by no operation, except on a replica before it is touched.
EditSurvivesRollback ==
    [][\A s \in Servers : journal[s] # NoJournal /\ disk'[s] # disk[s] /\ budget'["foreign"] = budget["foreign"]
          => disk[s] \in {journal[s].old, journal[s].new}]_certVars

-----------------------------------------------------------------------------
(* Refinement of the atomic commitment. *)

DecisionOf(r) ==
    CASE r.phase = "apply" -> "open"
      [] r.phase \in {"commit", "rollback"} -> r.phase
      [] r.phase = "done" -> IF r.status = "completed" THEN "commit" ELSE "rollback"

IsReady(r, s) == r.phase = "commit" \/ (r.phase = "apply" /\ r.target[s].status = "applied")

PartOf(r, s) ==
    CASE r.target[s].finished = "commit"   -> "committed"
      [] r.target[s].finished = "rollback" -> "restored"
      [] r.target[s].finished = "none"     -> IF ~r.target[s].started THEN "untouched"
                                              ELSE IF IsReady(r, s) THEN "ready" ELSE "touched"

OutcomeOf(r) == IF r.phase = "done" THEN r.status ELSE "none"

Commitment == INSTANCE AtomicCommit WITH
    Updates  <- Ops,
    Members  <- Servers,
    decision <- [o \in Ops |-> DecisionOf(row[o])],
    part     <- [o \in Ops |-> [s \in Servers |-> PartOf(row[o], s)]],
    outcome  <- [o \in Ops |-> OutcomeOf(row[o])]

\* The update is an atomic commitment of its servers, with the rows as the only
\* memory: no crash, retry or lost answer takes back a decision, commits without
\* every server, or reports an end some server has not come to.
ImplementsAtomicCommit == Commitment!CommitSpec

\* Whichever way an update ends, it ends so on every server, and at the cost of
\* nobody else's work.
UpdateConsistent == []UpdateAtomic /\ EditSurvivesRollback /\ ImplementsAtomicCommit

\* "deployment failed before creating its journal": the rollback of a server on
\* which the operation never changed anything finds nothing to undo.
NothingToUndo ==
    [][\A o \in Ops, s \in Servers :
          /\ FinishTarget(o) /\ s \in run'[o].tried \ run[o].tried
          /\ row[o].phase = "rollback" /\ journal[s] = NoJournal
          /\ undone[s].op # o
          => row'[o].target[s].finished = "rollback"]_certVars
=============================================================================
