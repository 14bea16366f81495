--------------------------- MODULE ServiceEvents ---------------------------
(* Events of the monitoring workers and the notifications they cause:        *)
(*   integrations/rabbitmq_consumer.py   ServiceEventConsumer._message       *)
(*   integrations/service_events.py      process_event, the senders          *)
(*   db/service_event.py, db/service_event_storage.py   the transactions     *)
(* RabbitMQ delivers at least once and in any order; several consumers and   *)
(* the scheduler store events and send notifications from one database.      *)
(* Days stand for time, and the order of the events of an assignment (its    *)
(* revision, lease and sequence number) is the number of the event.          *)
EXTENDS Integers, Sequences, FiniteSets

CONSTANTS
    Processes,       \* consumers; the scheduler is one that receives nothing
    Shapes,          \* what an event may be: [kind, day, changed, keep, notify]
    NoProcess,
    LastDay, MaxEvents,
    MaxBrokerCopies,       \* messages of one event that the broker may hold
    MaxGone,         \* deaths of a process and failed calls
    MaxOverdue       \* claims that take longer than five minutes

Kinds_ == {"status", "scan"}
Days   == 0..LastDay

ASSUME EventAssumption ==
    /\ IsFiniteSet(Processes) /\ NoProcess \notin Processes
    /\ Shapes \subseteq [kind : Kinds_, day : Days, changed : BOOLEAN, keep : BOOLEAN, notify : BOOLEAN]
    /\ LastDay \in Nat /\ MaxEvents \in Nat /\ MaxBrokerCopies \in Nat \ {0}
    /\ MaxGone \in Nat /\ MaxOverdue \in Nat

VARIABLES
    sent,         \* the events published so far: a sequence of shapes
    broker,       \* how many messages of each event wait in the queue
    history,      \* Alerts and PortScannerHistory: identities that are still there
    diagnostics,  \* ServiceEvent rows
    notices,      \* ServiceNotification rows: [status, owner, old] per event
    position,     \* ServiceEventPosition: the newest event, 0 at first
    ports,        \* PortScannerPorts: the scan they are from
    cutoff,       \* ServiceEventRetention per kind
    proc,         \* what each process does
    kept,         \* how often an event was written to the history  (history variable)
    queued,       \* how often its notification was created         (history variable)
    received,     \* copies of the notification the user received   (history variable)
    unrecorded,   \* copies whose outcome could not be recorded     (history variable)
    overdue,      \* claims <<p, e>> that another process took over (history variable)
    eventLeft     \* what remains of the bounds

eventVars == <<sent, broker, history, diagnostics, notices, position, ports, cutoff,
               proc, kept, queued, received, unrecorded, overdue, eventLeft>>
tables == <<history, diagnostics, position, ports, kept, queued>>
ghosts == <<received, unrecorded, overdue>>

Ids == 1..MaxEvents
NoNotice == [status |-> "none", owner |-> NoProcess, old |-> FALSE]
IdleProcess == [step |-> "idle", event |-> 0, fresh |-> FALSE, batch |-> {}, got |-> FALSE]

EventInit ==
    /\ sent = <<>>
    /\ broker = [e \in Ids |-> 0]
    /\ history = {} /\ diagnostics = {}
    /\ notices = [e \in Ids |-> NoNotice]
    /\ position = 0 /\ ports = 0
    /\ cutoff = [k \in Kinds_ |-> 0]
    /\ proc = [p \in Processes |-> IdleProcess]
    /\ kept = [e \in Ids |-> 0] /\ queued = [e \in Ids |-> 0]
    /\ received = [e \in Ids |-> 0] /\ unrecorded = [e \in Ids |-> 0] /\ overdue = {}
    /\ eventLeft = [gone |-> MaxGone, overdue |-> MaxOverdue]

Published == 1..Len(sent)
-----------------------------------------------------------------------------
(* The worker and the broker. *)

\* A worker publishes its next event.
Publish(shape) ==
    /\ Len(sent) < MaxEvents
    /\ sent' = Append(sent, shape)
    /\ broker' = [broker EXCEPT ![Len(sent) + 1] = 1]
    /\ UNCHANGED <<notices, cutoff, proc, tables, ghosts, eventLeft>>

\* The publication is repeated, because its confirmation was lost.
PublishAgain(e) ==
    /\ e \in Published /\ broker[e] < MaxBrokerCopies
    /\ eventLeft.gone > 0
    /\ eventLeft' = [eventLeft EXCEPT !.gone = @ - 1]
    /\ broker' = [broker EXCEPT ![e] = @ + 1]
    /\ UNCHANGED <<sent, notices, cutoff, proc, tables, ghosts>>
-----------------------------------------------------------------------------
(* A consumer. *)

\* It takes a message and compares its revision with that of the assignment,
\* before the transaction that stores the event: "fresh" is what it finds, and
\* what it goes by although the user may change the assignment meanwhile.
Receive(p, e, fresh) ==
    /\ proc[p].step = "idle" /\ broker[e] > 0
    /\ fresh => sent[e].kind = "scan"
    /\ broker' = [broker EXCEPT ![e] = @ - 1]
    /\ proc' = [proc EXCEPT ![p] = [IdleProcess EXCEPT !.step = "received", !.event = e,
                                                       !.fresh = fresh]]
    /\ UNCHANGED <<sent, notices, cutoff, tables, ghosts, eventLeft>>

TooOld(e) == sent[e].day < cutoff[sent[e].kind]

\* The identity of an event survives in its history, in its notification and,
\* of the newest event, in the position of the assignment.
Known(e) ==
    \/ e \in history \/ e \in diagnostics
    \/ sent[e].kind = "scan" /\ (position = e \/ notices[e].status # "none")

AdvancesAny(e) == e # position   \* Mutant: the order is not compared
Advances(e) == e > position

EnqueueNotice(e) ==
    /\ notices' = [notices EXCEPT ![e].status = "pending"]
    /\ queued' = [queued EXCEPT ![e] = @ + 1]

NoNotification == UNCHANGED <<notices, queued>>

\* A change of status is history in any case.
StoreStatus(e) ==
    /\ sent[e].kind = "status"
    /\ history' = history \cup {e} /\ kept' = [kept EXCEPT ![e] = @ + 1]
    /\ diagnostics' = diagnostics \cup {e}
    /\ position' = IF Advances(e) THEN e ELSE position
    /\ IF sent[e].notify THEN EnqueueNotice(e) ELSE NoNotification
    /\ UNCHANGED ports

\* The changes of a scan are kept in whichever order they arrive; its ports
\* become the current ones only if nothing newer of the assignment was stored.
StoreScan(e, fresh) ==
    LET shape == sent[e] IN
    /\ shape.kind = "scan"
    /\ position' = IF Advances(e) THEN e ELSE position
    /\ ports' = IF Advances(e) /\ fresh THEN e ELSE ports
    /\ IF shape.keep /\ shape.changed
       THEN history' = history \cup {e} /\ kept' = [kept EXCEPT ![e] = @ + 1]
       ELSE UNCHANGED <<history, kept>>
    /\ diagnostics' = IF shape.changed THEN diagnostics \cup {e} ELSE diagnostics
    /\ IF shape.changed /\ shape.notify THEN EnqueueNotice(e) ELSE NoNotification

\* One transaction under the lock of the kind's retention.
Store(p) ==
    LET e == proc[p].event IN
    /\ proc[p].step = "received"
    /\ IF TooOld(e) \/ Known(e) THEN UNCHANGED <<tables, notices>>
       ELSE StoreStatus(e) \/ StoreScan(e, proc[p].fresh)
    /\ proc' = [proc EXCEPT ![p].step = "stored", ![p].fresh = FALSE]
    /\ UNCHANGED <<sent, broker, cutoff, ghosts, eventLeft>>

\* The message is acknowledged after the commit.
Acknowledge(p) ==
    /\ proc[p].step = "stored"
    /\ proc' = [proc EXCEPT ![p] = IdleProcess]
    /\ UNCHANGED <<sent, broker, notices, cutoff, tables, ghosts, eventLeft>>
-----------------------------------------------------------------------------
(* The notifications: every consumer after a message, and the scheduler. *)

Eligible(e) ==
    \/ notices[e].status \in {"pending", "failed"}
    \/ notices[e].status = "processing" /\ notices[e].old

\* The rows are claimed one by one: another process may get some of them.
ClaimNotices(p, batch) ==
    /\ proc[p].step = "idle" /\ batch # {}
    /\ \A e \in batch : Eligible(e)
    /\ overdue' = overdue \cup {<<notices[e].owner, e>> : e \in {n \in batch : notices[n].status = "processing"}}
    /\ notices' = [e \in Ids |-> IF e \in batch
                                 THEN [status |-> "processing", owner |-> p, old |-> FALSE] ELSE notices[e]]
    /\ proc' = [proc EXCEPT ![p] = [IdleProcess EXCEPT !.step = "sending", !.batch = batch]]
    /\ UNCHANGED <<sent, broker, cutoff, tables, received, unrecorded, eventLeft>>

\* Five minutes after the claim.
Overdue(e) ==
    /\ notices[e].status = "processing" /\ ~notices[e].old /\ eventLeft.overdue > 0
    /\ notices' = [notices EXCEPT ![e].old = TRUE]
    /\ eventLeft' = [eventLeft EXCEPT !.overdue = @ - 1]
    /\ UNCHANGED <<sent, broker, cutoff, proc, tables, ghosts>>

\* The channels are called for the next notification of the batch.  A call that
\* fails may have reached the user.
SendNotice(p, got, answered) ==
    /\ proc[p].step = "sending" /\ proc[p].batch # {}
    /\ answered => got
    /\ answered \/ eventLeft.gone > 0
    /\ LET e == CHOOSE n \in proc[p].batch : \A m \in proc[p].batch : n <= m IN
       /\ proc' = [proc EXCEPT ![p].step = IF answered THEN "succeeded" ELSE "failed",
                               ![p].event = e, ![p].batch = @ \ {e}, ![p].got = got]
       /\ received' = [received EXCEPT ![e] = @ + IF got THEN 1 ELSE 0]
    /\ eventLeft' = [eventLeft EXCEPT !.gone = @ - IF answered THEN 0 ELSE 1]
    /\ UNCHANGED <<sent, broker, notices, cutoff, tables, unrecorded, overdue>>

\* The outcome is written only by the claim that still holds the row.
Holds(p, e) == notices[e].status = "processing" /\ notices[e].owner = p

\* A copy is without a record when the call failed all the same or the claim was
\* taken over after five minutes.
MarkNotice(p) ==
    LET e == proc[p].event
        outcome == IF proc[p].step = "succeeded" THEN "delivered" ELSE "failed" IN
    /\ proc[p].step \in {"succeeded", "failed"}
    /\ notices' = IF Holds(p, e)
                  THEN [notices EXCEPT ![e] = [NoNotice EXCEPT !.status = outcome]] ELSE notices
    /\ unrecorded' = [unrecorded EXCEPT ![e] =
                         @ + IF proc[p].got /\ (proc[p].step = "failed" \/ <<p, e>> \in overdue) THEN 1 ELSE 0]
    /\ overdue' = overdue \ {<<p, e>>}
    /\ proc' = [proc EXCEPT ![p] = IF proc[p].batch = {} THEN IdleProcess
                                   ELSE [@ EXCEPT !.step = "sending", !.event = 0, !.got = FALSE]]
    /\ UNCHANGED <<sent, broker, cutoff, tables, received, eventLeft>>

\* A process dies or gives up: the database or the broker does not answer.  The
\* message it holds goes back, the rows it has claimed stay "processing".
ProcessGone(p) ==
    /\ proc[p].step # "idle" /\ eventLeft.gone > 0
    /\ eventLeft' = [eventLeft EXCEPT !.gone = @ - 1]
    /\ broker' = IF proc[p].step \in {"received", "stored"}
                 THEN [broker EXCEPT ![proc[p].event] = @ + 1] ELSE broker
    /\ unrecorded' = IF proc[p].got THEN [unrecorded EXCEPT ![proc[p].event] = @ + 1] ELSE unrecorded
    /\ overdue' = {c \in overdue : c[1] # p}
    /\ proc' = [proc EXCEPT ![p] = IdleProcess]
    /\ UNCHANGED <<sent, notices, cutoff, tables, received>>
-----------------------------------------------------------------------------
(* Retention: a daily job, in steps of their own. *)

\* Mutant: the boundary stays where it was.
PruneHistoryOnly(k, day) ==
    /\ day > cutoff[k]
    /\ history' = {e \in history : sent[e].kind # k \/ sent[e].day >= day}
    /\ UNCHANGED <<sent, broker, notices, diagnostics, position, ports, cutoff, proc, kept, queued, ghosts, eventLeft>>

\* The boundary advances in the transaction that deletes the history before it.
PruneHistory(k, day) ==
    /\ day > cutoff[k]
    /\ cutoff' = [cutoff EXCEPT ![k] = day]
    /\ history' = {e \in history : sent[e].kind # k \/ sent[e].day >= day}
    /\ UNCHANGED <<sent, broker, notices, diagnostics, position, ports, proc, kept, queued, ghosts, eventLeft>>

\* Diagnostics go by the day they were received, three days later.
PruneDiagnostics(e) ==
    /\ e \in diagnostics
    /\ diagnostics' = diagnostics \ {e}
    /\ UNCHANGED <<sent, broker, history, notices, position, ports, cutoff, proc, kept, queued, ghosts, eventLeft>>

\* A delivered notification is the identity of its event until the boundary of
\* the history has passed it.
PruneNotices(k) ==
    LET gone == {e \in Published : /\ notices[e].status = "delivered"
                                   /\ sent[e].kind = k /\ TooOld(e)} IN
    /\ gone # {}
    /\ notices' = [e \in Ids |-> IF e \in gone THEN NoNotice ELSE notices[e]]
    /\ UNCHANGED <<sent, broker, cutoff, proc, tables, ghosts, eventLeft>>
-----------------------------------------------------------------------------
EventNext ==
    \/ \E shape \in Shapes : Publish(shape)
    \/ \E e \in Ids : PublishAgain(e)
    \/ \E p \in Processes, e \in Ids, fresh \in BOOLEAN : Receive(p, e, fresh)
    \/ \E p \in Processes : Store(p)
    \/ \E p \in Processes : Acknowledge(p)
    \/ \E p \in Processes, batch \in SUBSET Ids : ClaimNotices(p, batch)
    \/ \E e \in Ids : Overdue(e)
    \/ \E p \in Processes, got, answered \in BOOLEAN : SendNotice(p, got, answered)
    \/ \E p \in Processes : MarkNotice(p)
    \/ \E p \in Processes : ProcessGone(p)
    \/ \E k \in Kinds_, day \in Days : PruneHistory(k, day)
    \/ \E e \in Ids : PruneDiagnostics(e)
    \/ \E k \in Kinds_ : PruneNotices(k)

EventSpec == EventInit /\ [][EventNext]_eventVars

-----------------------------------------------------------------------------
(* Properties. *)

EventTypeOK ==
    /\ sent \in Seq(Shapes)
    /\ broker \in [Ids -> 0..MaxBrokerCopies + Cardinality(Processes)]
    /\ history \subseteq Published /\ diagnostics \subseteq Published
    /\ position \in 0..Len(sent) /\ ports \in 0..position
    /\ cutoff \in [Kinds_ -> Days]
    /\ \A e \in Ids : notices[e].status # "none" => e \in Published

Wanted(e) == sent[e].notify /\ (sent[e].kind = "status" \/ sent[e].changed)
InHand(e) == broker[e] > 0 \/ \E p \in Processes : proc[p].step = "received" /\ proc[p].event = e

\* However often a message is delivered, to whichever consumers, and however
\* much of the tables is pruned in between, an event is history and is notified
\* once; and an event that is no longer in the queue was notified, unless it
\* was older than the history itself.
EventTakenOnce ==
    \A e \in Published :
        /\ kept[e] <= 1 /\ queued[e] <= 1
        /\ Wanted(e) /\ queued[e] = 0 => InHand(e) \/ TooOld(e)

\* The ports shown are never replaced by those of an older scan.
PortsNeverGoBack == [][ports' # ports => ports' > ports]_eventVars

\* Each copy of a notification is the one recorded as delivered, is just being
\* recorded, or has lost its record: to a death, to a call that failed after it
\* had reached the user, or to a claim that was taken over after five minutes.
BeingRecorded(e) == {p \in Processes : proc[p].got /\ proc[p].event = e}
NoticesExplained ==
    \A e \in Published :
        received[e] <= unrecorded[e] + Cardinality(BeingRecorded(e))
                       + IF queued[e] = 1 /\ notices[e].status \in {"delivered", "none"} THEN 1 ELSE 0

\* Events and notifications are accounted for: neither lost nor repeated unseen.
EventsAccounted == EventTakenOnce /\ NoticesExplained

\* What is shown and what is sent come of the events as they happened.
EventsTakeEffectOnce == []EventsAccounted /\ PortsNeverGoBack
=============================================================================
