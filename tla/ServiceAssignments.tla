------------------------- MODULE ServiceAssignments -------------------------
(* The Checker assignment of one service on one server:                      *)
(*   db/service_command.py             queue, reconcile, the command outbox  *)
(*   integrations/service_commands.py  publication of the outbox             *)
(* Requests and the reconciliation queue new revisions side by side; the     *)
(* scheduler publishes what is queued, and the worker, which is another      *)
(* program, keeps the newest revision it has received.                       *)
EXTENDS Integers

CONSTANTS
    Forms,        \* requests of the old form, which save and queue in two transactions
    MaxToggles,   \* changes of the flag or of the settings
    MaxUpsets     \* publications that fail, processes that die and commands received twice

VARIABLES
    alert,        \* the server's flag: it is to be checked
    interval,     \* the group's setting that goes into every assignment
    unqueued,     \* unqueued[r]: the flag a request has saved and not queued yet
    assignment,   \* the ServiceAssignment row: [revision, content]
    outbox,       \* the ServiceCommand rows that are not published: pending or failed
    reconciler,   \* the reconciliation: [step, known, on]
    listed,       \* the commands the publisher has listed and still has to publish
    sent,         \* the commands on their way to the worker
    applied,      \* the assignment the worker keeps
    assignLeft

assignVars == <<alert, interval, unqueued, assignment, outbox, reconciler, listed, sent, applied, assignLeft>>

NoWish    == "none"
NoContent == [on |-> FALSE, interval |-> -1]
Content(on) == [on |-> on, interval |-> interval]
LastRevision == assignment.revision
RestingReconciler == [step |-> "idle", known |-> NoContent, on |-> FALSE]

AssignInit ==
    /\ alert = FALSE /\ interval = 0
    /\ unqueued = [r \in Forms |-> NoWish]
    /\ assignment = [revision |-> 0, content |-> NoContent] /\ applied = assignment /\ outbox = {}
    /\ reconciler = RestingReconciler
    /\ listed = {} /\ sent = {}
    /\ assignLeft = [changes |-> MaxToggles, upsets |-> MaxUpsets]

Uses(kind) == assignLeft[kind] > 0 /\ assignLeft' = [assignLeft EXCEPT ![kind] = @ - 1]

\* One transaction: the next revision, its payload with the settings as just read, its command.
QueueRevision(on) ==
    /\ assignment' = [revision |-> LastRevision + 1, content |-> Content(on)]
    /\ outbox' = outbox \cup {assignment'}

-----------------------------------------------------------------------------
(* Requests. *)

\* The settings of a service: the flag and the command in one transaction.
SaveTools(on) ==
    /\ Uses("changes")
    /\ alert' = on /\ QueueRevision(on)
    /\ UNCHANGED <<interval, unqueued, reconciler, listed, sent, applied>>

SaveFlag(r, on) ==
    /\ unqueued[r] = NoWish
    /\ Uses("changes")
    /\ alert' = on
    /\ unqueued' = [unqueued EXCEPT ![r] = IF on THEN "on" ELSE "off"]
    /\ UNCHANGED <<interval, assignment, outbox, reconciler, listed, sent, applied>>

QueueForm(r) ==
    /\ unqueued[r] # NoWish
    /\ QueueRevision(unqueued[r] = "on")
    /\ unqueued' = [unqueued EXCEPT ![r] = NoWish]
    /\ UNCHANGED <<alert, interval, reconciler, listed, sent, applied, assignLeft>>

FormLost(r) ==
    /\ unqueued[r] # NoWish
    /\ Uses("upsets")
    /\ unqueued' = [unqueued EXCEPT ![r] = NoWish]
    /\ UNCHANGED <<alert, interval, assignment, outbox, reconciler, listed, sent, applied>>

\* A setting that goes into the assignments is changed: nothing is queued.
ChangeSetting ==
    /\ Uses("changes")
    /\ interval' = 1 - interval
    /\ UNCHANGED <<alert, unqueued, assignment, outbox, reconciler, listed, sent, applied>>

-----------------------------------------------------------------------------
(* The reconciliation, once a minute. *)

ReadAssignments ==
    /\ reconciler.step = "idle"
    /\ reconciler' = [step |-> "compare", known |-> assignment.content, on |-> FALSE]
    /\ UNCHANGED <<alert, interval, unqueued, assignment, outbox, listed, sent, applied, assignLeft>>

\* An assignment that does not exist is made only for a server that is to be checked.
Differs(known) ==
    /\ known # Content(alert)
    /\ known = NoContent => alert

ReadServer ==
    /\ reconciler.step = "compare"
    /\ reconciler' = IF Differs(reconciler.known)
                     THEN [reconciler EXCEPT !.step = "queue", !.on = alert]
                     ELSE RestingReconciler
    /\ UNCHANGED <<alert, interval, unqueued, assignment, outbox, listed, sent, applied, assignLeft>>

QueueDrift ==
    /\ reconciler.step = "queue"
    /\ QueueRevision(reconciler.on)
    /\ reconciler' = RestingReconciler
    /\ UNCHANGED <<alert, interval, unqueued, listed, sent, applied, assignLeft>>

-----------------------------------------------------------------------------
(* The publication of the outbox, every five seconds. *)

ListCommands ==
    /\ listed = {} /\ outbox # {}
    /\ listed' = outbox
    /\ UNCHANGED <<alert, interval, unqueued, assignment, outbox, reconciler, sent, applied, assignLeft>>

\* In the order of their creation.
FirstCreated(commands) == CHOOSE c \in commands : \A d \in commands : c.revision <= d.revision

\* Mutant: a published command stays listed.
PublishCommandListed ==
    /\ listed # {}
    /\ LET c == FirstCreated(listed)
       IN  outbox' = outbox \ {c} /\ sent' = sent \cup {c}
    /\ UNCHANGED <<alert, interval, unqueued, assignment, reconciler, listed, applied, assignLeft>>

PublishCommand ==
    /\ listed # {}
    /\ LET c == FirstCreated(listed)
       IN  listed' = listed \ {c} /\ outbox' = outbox \ {c} /\ sent' = sent \cup {c}
    /\ UNCHANGED <<alert, interval, unqueued, assignment, reconciler, applied, assignLeft>>

\* Mutant: a publication that failed is not tried again.
PublishFailsForGood ==
    /\ listed # {}
    /\ Uses("upsets")
    /\ LET c == FirstCreated(listed)
       IN  listed' = listed \ {c} /\ outbox' = outbox \ {c} /\ sent' \in {sent, sent \cup {c}}
    /\ UNCHANGED <<alert, interval, unqueued, assignment, reconciler, applied>>

\* The broker may have the message although no confirmation was seen.
PublishFails ==
    /\ listed # {}
    /\ Uses("upsets")
    /\ LET c == FirstCreated(listed)
       IN  listed' = listed \ {c} /\ sent' \in {sent, sent \cup {c}}
    /\ UNCHANGED <<alert, interval, unqueued, assignment, outbox, reconciler, applied>>

\* The scheduler dies, perhaps between a publication and its mark.
SchedulerDies ==
    /\ listed # {} \/ reconciler # RestingReconciler
    /\ Uses("upsets")
    /\ \/ UNCHANGED sent
       \/ listed # {} /\ sent' = sent \cup {FirstCreated(listed)}
    /\ listed' = {} /\ reconciler' = RestingReconciler
    /\ UNCHANGED <<alert, interval, unqueued, assignment, outbox, applied>>

\* The worker keeps the assignment with the highest revision.
ReceiveCommand ==
    \E c \in sent :
       /\ applied' = IF c.revision > applied.revision THEN c ELSE applied
       /\ \/ sent' = sent \ {c} /\ UNCHANGED assignLeft
          \/ sent' = sent /\ Uses("upsets")
       /\ UNCHANGED <<alert, interval, unqueued, assignment, outbox, reconciler, listed>>

-----------------------------------------------------------------------------

AssignNext ==
    \/ \E on \in BOOLEAN : SaveTools(on)
    \/ \E r \in Forms, on \in BOOLEAN : SaveFlag(r, on)
    \/ \E r \in Forms : QueueForm(r)
    \/ \E r \in Forms : FormLost(r)
    \/ ChangeSetting
    \/ ReadAssignments
    \/ ReadServer
    \/ QueueDrift
    \/ ListCommands
    \/ PublishCommand
    \/ PublishFails
    \/ SchedulerDies
    \/ ReceiveCommand

AssignSpec == AssignInit /\ [][AssignNext]_assignVars

\* Requests in flight go on, the jobs of the scheduler run, and the broker delivers.
AssignFairness ==
    /\ \A r \in Forms : WF_assignVars(QueueForm(r))
    /\ WF_assignVars(ReadAssignments) /\ WF_assignVars(ReadServer) /\ WF_assignVars(QueueDrift)
    /\ WF_assignVars(ListCommands) /\ WF_assignVars(PublishCommand)
    /\ WF_assignVars(ReceiveCommand)
AssignFairSpec == AssignSpec /\ AssignFairness

-----------------------------------------------------------------------------
(* Properties. *)

AssignTypeOK ==
    /\ alert \in BOOLEAN /\ interval \in {0, 1}
    /\ unqueued \in [Forms -> {NoWish, "on", "off"}]
    /\ listed \subseteq outbox
    /\ \A c \in outbox \cup sent \cup {applied, assignment} :
          c.revision \in 0..LastRevision /\ c.content.on \in BOOLEAN

\* The newest assignment is never lost and never forged: the worker keeps it, or its command is
\* in the outbox or on its way, and nothing else goes under its revision, so that a worker which
\* compares revisions and nothing else (the other program does) ends up with it.
NewestNeverLost ==
    /\ assignment \in outbox \cup sent \cup {applied}
    /\ \A c \in outbox \cup sent \cup {applied} : c.revision = LastRevision => c = assignment

\* Once nobody changes anything any more, the worker ends up with what the server's flag and
\* settings say, in whichever order saves, forms, reconciliations and publications met and
\* whatever of it was lost on the way.
WorkerFollowsFlag ==
    <>[](IF applied.revision = 0 THEN ~alert ELSE applied.content = Content(alert))
=============================================================================
