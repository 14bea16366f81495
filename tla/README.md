# Formal models of Roxy-WI

Roxy-WI manages HAProxy, NGINX, Apache and Keepalived servers over SSH. Its web
process writes intentions into a database; a scheduler process publishes them to
RabbitMQ; Operations workers execute them on servers; consumers ingest what the
monitoring services report; and pages in browsers follow all of it by polling. This
directory models the parts where these meet: what they share is a database row, a
message that may be delivered twice, a lock file, the configuration file on somebody
else's server, or an answer that arrives after its page has moved on.

All paths below are relative to the repository's root, `app/` among them.

| module | what it is |
| --- | --- |
| `OperationQueue` | the durable operations queue: outbox, publisher, claim, lease, recovery, execution skeleton |
| `TaskLease` | the abstract promise of that queue, which `OperationQueue` implements |
| `ChangeRollout` | one Change Center change: workflow, targets and servers, step by step |
| `ChangeDeliveries` | the outbox of Change Center notifications and webhooks |
| `BackupSchedule` | a backup schedule, its runs, retries and transfers |
| `ServiceAssignments` | what a monitoring worker is told: revisions, outbox, reconciliation |
| `ServiceEvents` | what the workers report: storage, retention, notifications |
| `HaproxyLists` | HAProxy address lists over the nodes of a group |
| `CertificateDeployment` | the update of a certificate over a server and its replicas |
| `AtomicCommit` | the abstract promise of that update, which `CertificateDeployment` implements |
| `HaMaintenance` | planned maintenance of the nodes of a Keepalived cluster |
| `PacemakerChanges` | reviewed changes of the configuration of a Pacemaker cluster |
| `ChangeCenterView` | the page of the Change Center |
| `MaintenancePanel` | the maintenance panel of an HA cluster |
| `CertificatePanel` | the page with the certificates of a server |
| `ClusterPage` | the page of the Pacemaker clusters |
| `LogFollow` | the log viewer, and the reader behind it |
| `ChangeRolloutProofs`, `HaMaintenanceProofs` | theorems about the modules they are named after |
| `OperationQueueProofs` | theorems about `OperationQueue` and `ServiceAssignments`, and about both side by side |
| `PacemakerChangesProofs` | theorems about `PacemakerChanges`, and about the modules of `commands` side by side |
| `ServiceEventsProofs` | theorems about `ServiceEvents`, and about the modules of `managed` side by side |
| `PendingWorkProofs` | theorems about work that one process leaves in rows and another takes up, `ChangeDeliveries` and `BackupSchedule`, and about the modules of `endpoints` side by side |
| `ServerFilesProofs` | theorems about files that are changed on several servers at once: `HaproxyLists` and `CertificateDeployment` |
| `PageProofs` | theorems about pages: `CertificatePanel`, `MaintenancePanel`, `ChangeCenterView`, `LogFollow` and `ClusterPage` |
| `MCOperationQueue`, `MCChangeRollout` | small instances of one module for TLC |
| `MCRequests`, `MCCommands`, `MCEndpoints`, `MCManaged` | small instances of several modules, one at a time |

The last four hold modules that share no state. A variable, `focus` (in `MCRequests`
`channel`), chosen in the beginning, says which one runs; the others rest in their initial
states. One run then checks them all, and a property of one module is vacuous only where
another has the focus. What one module relies on in another is said below. Each of the four
has a theorem (`RequestsCorrect`, `CommandsCorrect`, `EndpointsCorrect`, `ManagedCorrect`):
every step of the whole is a step of one part and leaves the others alone, so the whole
implements the specification of each part (lemmas `RequestsParts`, `CommandsParts`,
`EndpointsParts`, `ManagedParts`), and what is proved of a part alone holds in the very
specification that the run checks, for all values of the constants.

| run | modules | what it is about |
| --- | --- | --- |
| `requests` | `OperationQueue`, `ServiceAssignments` | what users ask for reaches the process that does it |
| `commands` | `OperationQueue`, `HaMaintenance`, `PacemakerChanges` | what workers do with it, under faults |
| `endpoints` | `LogFollow`, `ChangeCenterView`, `MaintenancePanel`, `CertificatePanel`, `ClusterPage`, `ChangeDeliveries`, `BackupSchedule` | parties at the end of a line that loses and delays |
| `managed` | `HaproxyLists`, `CertificateDeployment`, `ServiceEvents` | work on servers that others change as well |
| `rollout_pause`, `rollout_parallel` | `ChangeRollout` | one change, from its draft to its end |
| `queue_outage`, `rollout_restores`, `rollout_excluded`, `rollout_toggle`, `certificates_receipt`, `maintenance_cancelled` | one module each | violations, section 10 |

Definitions introduced by a comment "Mutant:" are plausible bugs of the definition that
follows them. They belong to no specification: each one replaces its neighbour to show
that the property it is paired with would notice.

## 1. The system's parts

### Processes and what they share

* **web** (Flask, several processes): requests of users and of the public API.
* **scheduler** (`scheduler_runner.py`, `app/jobs.py`): exactly one process, every
  job with `max_instances=1`. It publishes outboxes, queues what is due, prunes.
* **Operations workers** (`app/modules/operations/worker.py`): any number. Each takes
  one message at a time and executes the operation in a thread, while its main loop
  renews the lease of the row.
* **service event consumer** (`service_event_consumer.py`): any number.
* **pages** (`app/static/js/`): any number of browsers. A page holds a copy of what it
  was last told, timers, and requests whose answers come in any order or not at all.
* **servers**: files, a running HAProxy or Keepalived, and administrators who change both.
* **database** (SQLite, MySQL/MariaDB): the source of truth. RabbitMQ only wakes.
* **lock files** (`app/modules/common/file_lock.py`): exclude processes of one host
  that work on the same change, certificate, list, schedule or HA cluster.

### Inventory

| component | state | operations | what is hard | what makes it correct | module |
| --- | --- | --- | --- | --- | --- |
| Operations queue (`operations/`) | `InstallationTasks` rows: status, `updated_at` as lease, payload | create, publish, claim, acknowledge, renew, recover, finish | duplicate and lost messages, crash between any two steps, a lease that expires under a live worker | one executor per task; nothing queued is lost; an outcome is final | `OperationQueue` |
| Change commands (`change/operations.py`) | `active_task_id`, `last_task_id`; the payload's `started` | enqueue, execute, interrupt, finish, clean up | redelivery after remote work began | remote work begins once, under the reservation, which never outlives its command | `OperationQueue` |
| Change rollouts (`change/service.py`) | status, `pause_requested`; per target status, canary, excluded, snapshot; the file on the server | validate, approve, deploy, pause, resume, promote, retry, roll back, exclude, include, recover | partial failure, pauses racing the worker, crashes between a remote step and its record, edits from outside | statuses agree with servers; batches keep their order; nothing stays locked; a rollback restores | `ChangeRollout` |
| Change notifications (`change/automation.py`, `db/change.py`) | delivery rows with attempts and next attempt | record, claim, send, retry, abandon | a run lost between sending and saving; late answers | delivered means received; duplicates and attempts bounded | `ChangeDeliveries` |
| Change scheduling and drift (`change/automation.py`) | schedule, maintenance window, drift status | schedule, cancel, queue what is due, miss, check drift | due list read before the lock; SSH between reading and writing | a window is honoured; a result belongs to a deployed change | no |
| Public API (`app/api/routes/change_routes.py`) | none of its own | the same handlers, in the web process, without reservation and lock | two executors of one change | what holds for the user interface holds for the API | only where it meets `HaMaintenance` |
| Service events (`db/service_event*.py`, `integrations/`) | histories, positions, replay boundary, notifications with claim token | store, prune, claim, settle | duplicates, disorder, retention of the very rows that make duplicates known, two consumers | stored and notified once; positions never move back | `ServiceEvents` |
| Worker heartbeats (`db/service_event.py`) | current run, archived runs | record, archive, prune | generations reported out of order | the current row is the newest generation | no |
| Service assignments (`db/service_command.py`) | wanted state, revision, command outbox | queue, publish, reconcile, stop | reconciliation from a stale snapshot; retried publication of an old revision | the worker ends up with the state that was asked for | `ServiceAssignments` |
| Backup schedules (`service/backup_*.py`) | next run, retry, failures, active task, run key | dispatch, execute, edit, prune | recovery while the first attempt runs; back-off against the next run | one transfer at a time; the schedule never stops for good | `BackupSchedule` |
| Certificates (`service/certificate_deployment.py`, `scripts/certificate_remote.py`) | the operation's payload; journal and receipts on every server | apply, commit, roll back, recover | crash between servers, a lost answer, receipts of earlier operations | servers end all-new or all-old, and nothing foreign is overwritten | `CertificateDeployment` |
| HAProxy lists (`service/haproxy_lists.py`, `scripts/haproxy_lists.py`) | catalogue, file and loaded ACL of every node | show, create, save, remove | edits and reloads by administrators between any two steps | no blind overwrite; a truthful report | `HaproxyLists` |
| HA maintenance (`service/ha_maintenance.py`, `ha_mutation.py`) | plan, its change, reservation, locks | review, drain, verify, hand over, return | everything between the review and the remote step; redelivered tasks | nobody else changes a cluster with a node handed over | `HaMaintenance` |
| Pacemaker changes (`pacemaker/service.py`, `operations.py`, `transaction.py`) | status of a change, reservation and lock of the cluster; its configuration | draft, validate, apply, restore, operate | timeouts after which the transaction goes on, a lock that lapses, interrupted operations, other managers | a cluster is given only what was simulated for it, in the place of what that was made from; the status tells the truth | `PacemakerChanges` |
| Change Center page (`change-center.js`) | list, load, polling, unanswered requests | load, poll, send, report | answers out of order | the newest list wins, polling neither stops early nor runs for ever | `ChangeCenterView` |
| HA maintenance panel (`ha-maintenance.js`) | cluster, reads, timer, request | open, refresh, send, close | reuse for another cluster while reads are under way | the plans shown are of this cluster and current | `MaintenancePanel` |
| Certificates page (`certificates.js`) | table, dialog, operation id, monitor | load, check, send again, wait | retries with an id; files read late; another server chosen | an id names one request; a result reaches the table | `CertificatePanel` |
| Pacemaker page (`pacemaker.js`) | selected cluster, refresh, followed operation, two controls | choose, refresh, follow, ask | four kinds of call overlap and share the controls | the page comes to rest and stays usable | `ClusterPage` |
| Log viewer (`log-viewer.js`, `roxywi/log_query.py`) | cursor, rows, timer | query, follow, pause, continue | rotation, truncation, failed polls, late answers | no gap, no duplicate, no mixture; it catches up | `LogFollow` |
| Let's Encrypt, certificate sources, Keepalived, editor, WAF, installation, services, statistics, OIDC, users, port scanner, other pages, packaging | rows written in one request, or none, or the state of another program | single requests and single remote calls, or the protocol of a module above | little that interleaves, or nothing that is this program's | | no |

`PROJECT.json` lists the components with their files, and the hazards of the
code, each at the line where it bites and with the properties that watch it.

### How the modelled parts interact

A request reserves a change (`EnqueueChange`: the row and the reservation in one
transaction), the scheduler publishes the row, a worker claims it, takes the lock file of
the change, checks everything again, writes `started` and calls the handler. What the
handler does is `ChangeRollout`, `HaMaintenance`, `PacemakerChanges`,
`CertificateDeployment` or `BackupSchedule`: each has of the queue what its handler
relies on. `ChangeRollout` relies
on one executing command per change, which is `ChangeRunsOnce` together with
`RemoteWorkReserved`, both proved. The others do not rely on it: in them a task
may be delivered again while its first worker lives, as `queue_outage` shows that it can,
and their own locks and rechecks have to do.

Events recorded along the way put rows into the outbox of `ChangeDeliveries`, which
never influences the change itself (`record_event` catches every exception). What
`ServiceAssignments` sends makes the workers report what `ServiceEvents` stores. The pages
read what the others write; in their modules the server is a number that grows.

The parts that are composed are composed where they are atomic for one another:
`HaMaintenance` contains the change that carries the plan's approval and the other writers
of the cluster; `CertificatePanel`, `ChangeCenterView` and `ClusterPage` contain the operations
of the queue, with their ids and ends; `PacemakerChanges` the transactions that go on
without the worker that started them.

## 2. OperationQueue and TaskLease

**State.** `status`, `lease`, `started` are columns of `InstallationTasks`; `lease[t]`
says that `updated_at` is younger than the lease of `recover_stale_operations`. `active`
and `last` are the change's reservation. `ready` counts the copies of a task's message in
the queue, `inflight` says that a worker has not acknowledged its delivery. `pubpc`,
`batch`, `sending` are the local variables of `publish_pending_operations`; `pc`, `job`
those of a worker; `lock` the lock file. `starts` is history.

**Actions.** One per step that another process can observe: the publisher's recovery,
its select, each confirmed or failed publication, and the update that follows; the
worker's delivery, claim, acknowledgement, the first reading of row and reservation, the
lock, the second reading under the lock, the durable marker, the remote work and the
transaction that ends it. `EnterAnsible` and `FinishAnsible` stand for the operations
that write their outcome unconditionally.

**Bounds.** `MaxCopies` ready copies of one message; `MaxFaults` crashes, lost connections,
raising publications and refused writes; `MaxOutages` leases that expire under a live
worker. Two tasks and two workers are what every conflict here needs: two commands that
contend for one change, two workers for one task.

| run | question | instance |
| --- | --- | --- |
| `requests` | can remote work on a change begin twice, run unreserved, or its outcome change? does every operation settle? | two commands of one change, 1 fault, 1 outage, `FairSpec` |
| `commands` | is a wake-up ever lost; has a task one executor; is it `TaskLease`? | a command and an Ansible run, 3 faults, no outage |
| `queue_outage` | violation of `OnlyAbandonedRequeued` | an Ansible run, 1 outage |

`queue_outage` finds what an outage does: the lease names a task and no owner, so a task
is put back into the outbox while its worker is still executing it, and an Ansible run is
then executed twice at a time. For changes it is harmless, which is what `ChangeRunsOnce`
and `OutcomeFinal` show: they hold with outages.

**Refinement.** `Abstract == INSTANCE TaskLease` maps the statuses to phases and the
program counters to an owner. Without outages every step is a step of `TaskLease` or
leaves it unchanged: only the executing worker settles a task, and only an abandoned task
is queued again.

**Fairness.** The publisher job is started every five seconds (`WF` of `Publisher`); a
worker keeps consuming and its operation ends (`WF` of `Delivery`, `Execute`: SSH
commands have time limits; that an Ansible run ends is assumed); time passes, so the lease
of a dead worker expires. Nobody has to submit work or to fail. Strong fairness is not
needed.

**Proved** (`OperationQueueProofs`, any number of tasks, workers, faults and outages):
`TypeCorrect`; `RemoteWorkOnce`, `RemoteWorkUnderReservation`, `TaskExclusive`,
`WakeupNeverLost`, `ReservationNeverLeaks`, `OutcomesFinal`. No property is inductive by
itself. `CommandInv` adds what the lock file means (who holds it is between `locked` and
the end, on that change) and that remote work has begun only after `started`. `LeaseInv`
adds that, while there was no outage, an executed row is `running` with a valid lease, so
that neither the recovery nor a claim touches it. `WakeupInv` follows the publisher between
the confirmation and the update. `ReservationInv` ties the reservation to a row that has
not ended. The assumptions are `KindAssumption`, `SentinelAssumption`, `BoundAssumption`.

`QueueImplementsLease` is the refinement, step by step, for any number of tasks, workers and
faults: under `[](outages = 0)` every behaviour of `OperationQueue` is one of `TaskLease`.
The hypothesis is about behaviours, not about the bound: the promise is kept in every system
as long as no lease expires under a live worker, and `queue_outage` shows that it is needed.
The proof needs `LeaseInv`, because the executor that the mapping reads off the program
counters has to be the only one, and each action is shown to be one abstract step or none.

## 3. ChangeRollout

**State.** `status` and `pauseFlag` are columns of the change; `canary`, `excluded`,
`tstatus`, `snap` those of its targets; `remote[n]` is the file on server `n`: `base` (what
the target's snapshot holds), `candidate`, or `foreign`. `cmd`, `arg` are the reserved
command; `pc`, `seen`, `edge`, `todo`, `up` where its executor stands: the status it read
and will compare, the side of the batch, the targets to come and those being worked on.
`overrun` and `late` are history. Targets are numbered by position, as `_rollout_servers`
orders them: the slaves first, the master (or the standalone server, the only target) last.
So `Primary` is `N` and `Slaves` the others, in every instance and in the proofs; a batch takes its
targets up in this order, a rollback in reverse, the master first.

**Actions.** Requests that need no server (`UpdateDraft`, `Approve`, `Cancel`, `Exclude`,
`Pause`, `CancelPause`); `Enqueue`; then the worker, with one action between any two
points at which a crash or another request makes a difference. A remote step and the write
of its outcome are two actions (`Upload`/`TargetOutcome`,
`UploadSnapshot`/`RollbackOutcome`), so a crash may come between them. A transition with
the expected statuses in its `WHERE` is one action that compares. `Interrupt` and `Recover`
are the two halves of `recover_change`; `Redeliver` is what the queue does with a command
whose worker died.

**Bounds.** `MaxCommands` commands after the validation, `MaxPauses` pause requests,
`MaxFaults` remote failures and crashes together, `MaxEdits` edits from outside. Three
servers are two slaves, the second one perhaps a canary, and their master: the least at which a
batch has an earlier and a later one. A change stops for good once it is cancelled, rolled
back, or out of commands, so deadlock is not checked; that no command hangs is
`EveryCommandEnds`.

| run | question | instance |
| --- | --- | --- |
| `rollout_pause` | do statuses agree with servers, do pauses work, and is everything released, after failures, crashes and retries? | N=3, approval, 3 commands, 2 pauses, 2 faults, `FairSpec` |
| `rollout_parallel` | do batches keep their order and foreign edits survive? | N=3, batches of 2 in parallel, canary, promotion, 2 faults, 1 edit |
| `rollout_restores`, `rollout_excluded`, `rollout_toggle` | violations, section 10 | N=2 |

**Fairness.** `WF` of `Worker`: a delivered command is executed, which `OperationQueue`
justifies (`EveryOperationSettles`). Users and faults owe nothing.

**Proved** (`ChangeRolloutProofs`, any number of targets, any plans, batch sizes and
bounds): `Inductive`, and from it `TypeCorrect`, `DeploymentComplete`, `ServerAgrees`,
`ReleasedIsSettled`, `RemoteWorkAnnounced`, `PauseHonoured`, `ForeignEditsKept`,
`BatchesInOrder`. The inductive invariant has ten parts. `ControlInv` says which statuses go
with which program counter: without it a pause could be thought to land in the middle of a
rollback of the whole change. `ProgressInv` says that a target in an in-progress status is
one the current loop has in hand: that is why an interruption finds all of them.
`ExclusionInv`, `RetryInv` and `CompletedInv` are what `deployed` needs: the single-target
retry completes a change only when all others are deployed, and this depends on the
reconciliation having relabelled them. `ForeignInv` carries the result of the checks
through the batches; `OrderInv` the order of the batches. That the lowest remaining batch
exists is shown with the least-element principle of `WellFoundedInduction`. The assumptions
are `TopologyAssumption` (there is a target), `PlanAssumption` (canaries and
exclusions are disjoint slaves) and `OptionAssumption`, `BoundAssumption`.

**What the properties say precisely.**

* `DeployedEverywhere`: `deployed` means no active server holds the original. It does not
  say every server holds the candidate, because somebody may have edited it since.
* `StatusMatchesServer`: `deployed` and `rolled_back` targets. A target that reads
  `deployment_interrupted` or `rollback_failed` may hold either.
* `PauseStopsRollout`: one batch may still start after a pause was requested, the one
  whose boundary the worker had read before. A second one may not.
* `ForeignEditsSurvive`: servers are compared once, before the first batch; an edit after
  that is overwritten by design. The property says that this is the only case.
* A crash during an automatic rollback leaves targets in `rolling_back`, since
  `recover_change` (`app/modules/change/service.py:2159`) looks for deploying ones;
  `IdleIsSettled` excludes that status for this reason.

## 4. From the user to the worker: the run `requests`

`requests` checks `OperationQueue` with liveness (section 2) and `ServiceAssignments`.

### ServiceAssignments

`alert` is the server's flag, `interval` a setting that goes into every assignment;
`assignment` the row with its revision, `outbox` the commands, `applied` what the worker
keeps. A flag is saved with its command in one transaction by the new form (`SaveTools`),
in two by the old one (`SaveFlag`, `QueueForm`). The reconciliation reads the assignments,
then the servers, then queues what differs, by the settings as they are when it queues. Instance:
two old forms, two changes, one upset.

* `WorkerFollowsFlag`: once nobody changes anything, the worker ends up with what flag and
  settings say.
* `NewestNeverLost`: the row's assignment is what the worker keeps, or it is in the outbox or at
  the broker; and nothing else goes under its revision. So no publication that is repeated or
  whose mark is lost makes the worker ignore what is newest.

**Proved** (`OperationQueueProofs`, any set of forms, any numbers of changes and upsets):
`AssignTypeCorrect` and `NewestArrives`. The invariant (`AssignInv`) strengthens the property
by what it silently relies on: a command with the row's revision has the row's content, so
that the worker, which compares nothing but revisions, is right to drop a second one; no
command is newer than the row; and what the publisher has read is still in the outbox. TLC has checked
it on 6.3 million states before. `RequestsCorrect` says of both modules side by side what is
proved of each.

**Fairness of `requests`.** That of `OperationQueue`, and: the scheduler's reconciliation and
publication run at their intervals, the broker delivers, and requests under way end, unless
their process dies. Each condition is guarded by the channel.

## 5. At the end of a line: the run `endpoints`

Seven modules model a party that only hears of the others through calls that may fail,
repeat, or be answered late. In all of them a call is at least two actions, one that reads
or writes at the far end and one that uses the answer, and everything else may happen in
between. A page's "generation", "context" or "query" guard is a flag or field of the call:
a call is marked no longer `current` when the page moves on, and its answer is dropped
because the code compares, not because the model forgets it.

### LogFollow

`files` are the segments of a rotating log with the numbers of their records; `cursor`
has for every file an offset, the record before it (the anchor) and the size, signed with
its query. `Answer` is `read_logs`: without a cursor the newest records, with one what
is new in every file, in order, at most `AnswerLimit`. `Poll`, `AnswerArrives`, `PollFails`, `PauseLive`,
`GoLive` are the `Follower` of `log-viewer.js`. Requests whose answers will be dropped whatever
they say are one value, `Outdated`: nothing reads more of them. Instance: 2 queries, 3
records, answers of 1, 2 rows, 2 files, 1 rotation or truncation, 2 clicks, 1 failure, the
least at which a file is left behind, a cursor points into a reused file, and a late answer
meets a new query.

* `RowsOfOneStretch`: rows are contiguous records of one query. `LiveCatchesUp`: while
  following, the last record is shown in the end.

**Proved** (`PageProofs`, any queries, sizes of answers and pages, and any numbers of files,
records, rotations, clicks and failures): `RowsStayOneStretch`, which is `RowsOfOneStretch`. The
invariant `LogInv` says that there is a record `hi` the page has seen the log up to
(`ShownUpTo`): the rows rise to it and skip nothing that is on disk, and the cursor is true of
it (`CursorTrue`). That means, for every file, that it is unknown and begins after `hi`, or is
as it was left and the offset parts what is up to `hi` from what is after (`LeftAt`), or was
emptied and the offset or the anchor gives it away (`Emptied`); this is where the anchor is
needed, since a file that has grown again is longer than the offset. An answer that
still counts goes on from `hi` to a record of its own (`AnswerTrue`), because one poll at most
counts and it carries the cursor of the page (`OnePoll`). `ListedInOrder`,
`OldestFirst` and `NewestLast` are the facts about listing a finite set of numbers that the
answers are built from. TLC has checked `LogInv` on 0.6 million states before (5 records, 2
rotations, 3 clicks). The assumption is `LogAssumption`; the form always has a query, so there
is one. `LogTypeCorrect` is the type invariant, with the bounds in it: a cursor names files
there have been and places in what was written, because it was made by an answer and the files
were within what was written then (`CursorBounded`); the rows are records of a query, and never
more than the page keeps.

### ChangeCenterView

`record[c]` is the change on the server with the number of its last operation; `seen` what
the table shows; `load` and `generation` are `loadingChanges` and `loadGeneration`; `poll`
is the interval `actionPoll`; `posts` the unanswered requests. `OtherUserQueues`,
`ScheduleStarts` and `OperationEnds` are the world. Instance: 1 change with 2 operations,
2 requests, 1 lost call.

* `ViewFollowsNewest`: the table never goes back to an older list, polling is on exactly
  while something is under way, an end is reported once it is true, an accepted command
  is reported, and the table settles on what the server has.

**Proved** (`PageProofs`, any changes and any numbers of operations, requests and lost calls):
`ViewTrue`, the safety in `ViewFollowsNewest`: `PollsWhileActive`, `ListNeverGoesBack` and
`EndsReportedTruly`. In the invariant `CenterInv`, `FromServer` says that whatever the page
shows, or is about to be told by a list or an answer, was true of the server at some time, and
`ListsCount` why the generation is enough: a list of the generation of now was read after all
that is shown, since the page shows nothing newer without beginning another generation. TLC has
checked `CenterInv` on 7.3 million states before. The assumption is `CenterAssumption`.
`CenterTypeCorrect` is the type invariant. Its `generation` is bounded because a request moves it
on once at most: generation, unanswered requests and requests left are together no more than
the requests there were (`PostsCount`). And an operation that is under way has a number, so that
the end a page reports is never of "no operation" (`Begun`).

### MaintenancePanel

`context` is the cluster, `listing` and `posting` the read and the request under way,
`refreshAgain` asks for another read after this one. `SendRequest` interrupts a read;
`ClosePanel` and `OpenPanel` leave calls of the cluster before behind. Instance: 2 clusters,
1 change of plans in each, 3 acts of the user, 1 error.

* `PlansFollowServer`: an open panel always has a read, a timer or a request to come and
  mixes no two clusters; an answer is not undone by a read that began before it; the plans
  are caught up with.

**Proved** (`PageProofs`, any clusters and any numbers of changes, acts and errors): `PanelTrue`,
the safety in `PlansFollowServer`: `PanelKept` and `AnswerNotUndone`. In the invariant
`MaintenanceInv`, `CurrentIsHere` ties every call that still counts to the cluster of the panel,
and `AnswersKnown` says that no read still counts while a request is under way, and that one
that counts was served after the last answer. TLC has checked `MaintenanceInv` on 0.26
million states before. `MaintenanceTypeCorrect` is the type invariant; with it goes that an
open panel is of a cluster, since only then are its reads. The assumption is
`MaintenanceAssumption`.

### CertificatePanel

`dialogue` is the dialog with its `operationId`, `reading` the files being read, `check` the
preview, `sending` the update, `monitor` the operations being waited for. `ServeSend` is the
server's idempotence by id: a second request with the same id is the same operation if its
content is the same, and refused if not. Instance: 2 servers, 2 texts, 2 edits, 2 sends, 1
lost call, 3 ids.

* `SentAsMeant`: what is sent was checked and shown; an id names one request; a file
  chosen before never replaces what was typed after. `OperationReachesTable`: an operation
  the page waits for brings its result to the table.

**Proved** (`PageProofs`, any servers and texts and any numbers of edits, requests and lost
calls): `SentAsSeen`, which is `SentAsMeant`. The invariant `PanelInv` needs three things beside
the property. `OneSource`: a check under way is of what the field holds, and one file at most is
being read for it. `RequestsKnown`: the id in the dialog belongs to no request, or to one with
the very server, text and name the dialog would send, so that a repeated request is the same
one. `OneRequest`: what is being sent and what the server has agree wherever their ids do. TLC
has checked `PanelInv` on 35 thousand states before. The assumption is `PanelAssumption`; the
page is opened for a server, so there is one. `PanelTypeCorrect` is the type invariant. The counts
in it are bounded by what they count: the ids of requests are different (`RequestsKnown`), so no
more operations have ended, and no server's catalogue has counted more, than ids were given out
(`FewOperations`, `DoneBounded`); a name is edited as often as edits are left (`NameBounded`).

### ClusterPage

`picked` is what the selector shows, `selected` the cluster the page works on, `loading` the
newest read of the list (an older one has no effect, since `clusterRequest` has moved on),
`refreshing` the one refresh the flag of that name lets run, `followed` the one operation
`polling` lets be followed, `asks` the requests without an answer. `selectorOn` and
`refreshOn` are the controls. Each "finally" block of the code is part of the action that
ends its call: `ClustersArrive` and `ClustersFail` for `loadClusters`, `EndRefresh`,
`EndFollow`. Instance: 2 clusters, one of which may have an operation of another user, 2
clicks, 1 failed call: the least at which a refresh, a followed operation and a second
cluster meet.

* `PageComesBack`: whatever overlaps or fails, in the end nothing is under way and the
  selector and the button can be used. A call that is never answered is not a failure
  here: browsers end it. It has a half that says when (`PageRests`, liveness) and one that says
  how (`ControlsKept`).

**Proved** (`PageProofs`, any clusters and any numbers of clicks and failed calls):
`ClusterPageTypeCorrect`, and `ControlsTrue`, the safety in `PageComesBack`: `ControlsKept`, that
nobody chooses another cluster under an operation that is followed, and that both controls are
usable as soon as nothing is under way. Each "finally" block that switches the controls looks
at a part of what is under way only; the invariant (`PageInv`) adds that whatever is under way is
under way for a selected cluster, and that operations, unserved requests, the open dialog and the
clicks left are together no more than the clicks there were, which bounds their numbers.

### ChangeDeliveries

A row's `status`, `attempts`, and whether it is `due`; the batch of the running job and the
outcomes it holds in memory; `received` at the destination; `lost` and `unsure` as history.
`RecordEvent` inserts the rows of an event, `ClaimDue` marks a batch and counts an attempt,
`Send` sends one and keeps the outcome in memory, `Persist` writes all outcomes in one
transaction, `LoseRun` loses them, `Expire` lets time pass. A destination may have
processed what the sender sees fail. Instance: two deliveries, claimed together or one after
the other, two attempts (the code has five: what matters is the first and the last), one
lost run for each.

* `DeliveredReceived`; `SendsExplained`, which is `CopiesExplained` and `RetriesBounded` (the
  bound the code really has: `DELIVERY_ATTEMPTS` and one for every lost run, because the
  comparison is made after the send and a lost run never makes it); `EveryDeliverySettles`.

**Proved** (`PendingWorkProofs`, any finite set of deliveries): `TypeCorrect`,
`DeliveredIsReceived`, `DuplicatesExplained`, `AttemptsBounded`, `SendsAccounted`. The inductive invariant
ties the batch to claimed rows, the outcomes in memory to what was received, and counts
copies by attempt.

### BackupSchedule

`schedule` is the row: whether its period is `due`, the state of its `retry`, the active and
last task, the run and its failures. `Dispatch` is one transaction of
`dispatch_due_backups`; `ClaimTask`, `TakeLock`, `SkipTask`, `RefuseTask`, `BeginTransfer`,
`EndTransfer`, `RecordSuccess`, `RecordFailure` are `backup_execution.py`; `LoseLease` gives
a task to a second worker, also while the first one lives; `SaveBackup` is a user's edit and
`Forget` the clean-up. Instance: 2 workers, 3 tasks, a run given up at the second
failure (the code: the third), 1 death, lost lease or refused write, 1 edit: a retry, a next
run, and a task of each that two workers have.

* `RunsTakenOnce`: one task at a time, limited attempts, only the current task transfers,
  and a run that was recorded as completed is never transferred again. `ScheduleGoesOn`: a
  period that has come is served.

**Proved** (`PendingWorkProofs`, any set of workers, any limit of failures, any numbers of
tasks, troubles and edits): `BackupTypeCorrect` and `RunsOnce`, that is `RunsTakenOnce` with
both its parts. The property is not inductive: nothing in it ties a task to the row. The
invariant (`BackupInv`) adds that a task which is not over is the one the schedule waits for
and of its run (`TasksKnown`, `ActiveKnown`); that whoever transfers has the lock and such a
task, which no one else can end meanwhile (`LockHeld`); that a completed task of the current
run leaves no retry; and that `failures` counts the tasks of the run, with one left for the
retry that is planned (`AttemptsCounted`). TLC has checked it on 7.2 million states before (3 workers, 5
tasks, a run given up at the third failure). A consequence (`RefuseNever`): behind the lock
and the second reading of its task, a worker never finds the task out of date, so the last
test of `_execute_locked` is a second line of defence, as long as no backup is deleted, which
is not modelled.

`EndpointsCorrect` says of the seven modules side by side what is proved of each: the type
invariant `EndpointTypeOK` and all the safety above.

**Fairness of `endpoints`.** Each fairness condition is guarded by the focus of its module.
Browser timers fire and the server answers (weakly fair; the bounds make lost calls
finite, and each liveness property says where a lost call excuses it); the scheduler's jobs
run at their intervals; the lease of an abandoned task expires and is recovered; a worker
that lives goes on; the operations a page follows end (`EveryOperationSettles`).
Users, administrators and faults owe nothing. A part may stop: users close pages, and work
runs out.

## 6. On other people's servers: the run `managed`

Three modules model work on servers whose administrators edit and reload them, and what
their monitoring reports.

### HaproxyLists

A list is in three places: `catalog`, `file[n]`, `acl[n]`; `pid[n]` is the running HAProxy and
`used[n]` whether its configuration refers to the list. `req` is the one change under the
lock, with what its page was shown (`snap`) and what it reports per node. `CheckRevision`,
`WriteFile`, `CommitAcl`, `VerifyAcl`, `RestoreFile`, `ApplyReload`, `WriteCatalog` are its
steps, each with the comparison the code makes on the node; `ChangeFails` loses any of them,
before or after its effect. `LegacyChange` is the older API, without a revision of a page.
Instance: 1 page (and the older API), 2 nodes, 2 contents and absence, 1 edit of a node, 2
changes, 1 fault.

* `ListChangesHonest` has two halves. `NodesKept`: what was not shown to the page is not overwritten, and a file in use is not
  deleted. `ReportTrue`: the answer is true of every node nobody else touched meanwhile.

**Proved** (`ServerFilesProofs`, any pages, contents, nodes, and numbers of edits, changes and
faults): `ListTypeCorrect` and `ListsHonest`, which is `ListChangesHonest` with both halves. In
the invariant `ListInv`, `Permitted` keeps what `CheckRevision` decided (a list that is
deleted was not in use, a node without a prepared version did not have the ACL) and holds for
the rest of the request, `ChangeInOrder` says which nodes the change has come to, and `CatalogSeen`
that the lock keeps the catalogue as it was shown. With `Permitted` the comparison made on
a node at the moment of writing is enough: a used file is not deleted because the node still
uses what it used then, and `unused` is true because the ACL was absent then and nobody
touched the node. TLC has checked `ListInv` on 3.6 million states before. The assumption is
`ListsAssumption`.

### CertificateDeployment

`disk[s]`, `mem[s]`, `journal[s]`, `applied[s]`, `undone[s]` are the file, the loaded
certificate, `pending.json` and the receipts on server `s`; `row[o]` is the row of the
operation with its payload, which alone survives a worker; `run[o]` its worker. A remote call may be lost before
or after its effect, and be killed in the middle (`Killed`). `BeginTarget` saves before the
call, `RecordDeploy` and `RecordFinish` after it. `DecideCommit` is the one decision.
Instance: 2 operations, 2 servers, and any two of: lost calls (or killed remote processes), a
crash of a worker, an edit or reload of an administrator, a recovery asked for.

* `UpdateConsistent` has three parts. `UpdateAtomic`: when every operation is over the servers agree (if no administrator
  interfered), no ended operation owns a journal, and no operation is committed here and rolled
  back there. `EditSurvivesRollback`: no operation overwrites a file that is neither the one it
  found nor the one it wrote. Its third part is `ImplementsAtomicCommit`.

**Refinement.** `Commitment == INSTANCE AtomicCommit` reads the decision off the phase of an
operation's row, and off its targets which servers are untouched, touched, ready, committed or
restored. `AtomicCommit` knows no files, calls, journals or workers: there is one decision for all
servers, in favour only when each is ready, a server follows it and no other, and an end is
reported only when each has followed. The mapping uses nothing but the row, which is all that a
crash leaves to the next worker: every crash, lost answer and repeated call is a stuttering step.

**Proved** (`ServerFilesProofs`, any operations, certificates and number of servers,
any bounds): `CertTypeCorrect`; `UpdatesImplementCommit`, the refinement step by step; and
`UpdatesConsistent`, which is the whole property.
The invariant (`CertInv`) has three parts. `InOrder`: the phase is decided once, every server is
finished the way it was decided, and an operation ends only when it has finished every server it
has begun. `JournalOpen`: a journal belongs to an operation that has begun on its server and not
finished there, and holds that operation's certificate; so no journal survives its operation,
whatever answer was lost. The third part is about servers no administrator has edited, and it is
the one that `FleetAgrees` needs, because in between the files of two servers may differ for
several reasons at once. What agrees meanwhile is not the file but the certificate a server will
have once the operation that holds it is finished there (`Value`): the old one of the journal
until the decision to commit is saved, then the new one, on all servers it holds at once.
Deploying, killing, undoing and finishing leave it as it is. Two servers whose values differ
(`Settled`) are the business of an operation that is committed on one of them and waits for the
other, and an operation does not end while it waits. `HostFits` ties the files to it: a server
has nothing but the old and the new certificate of its journal, and exactly the new one when the
row says that it was applied. TLC has checked `CertInv` on 0.2 million states with the bounds of
the run, and on 6.5 million with three operations and three mishaps. The assumption is
`CertificateAssumption`.

### ServiceEvents

`broker[e]` counts the copies of an event's message; `history`, `diagnostics`, `notices`,
`position`, `ports` and `cutoff` are tables; `proc[p]` is a consumer or the scheduler, between
receiving, storing, acknowledging, claiming, sending and recording. `PruneHistory` moves the
boundary that makes an old event `TooOld`. Times are days, and the order of the events of
an assignment is their number. Instance: 2 processes, 2 events that are a status change or a port
scan, 1 further copy, 1 death, 1 claim that is taken over after five minutes. The two shapes
are the two ways an event goes: through the history, or through the ports.

* `EventsTakeEffectOnce` has two halves. `EventsAccounted`: an event is history once and notified once, however often it is
  delivered and whatever is pruned; every further copy of a notification has a lost record.
  `PortsNeverGoBack`.

**Proved** (`ServiceEventsProofs`, any processes, kinds and numbers of events, and numbers of
copies, deaths, failed calls and claims taken over): `EventTypeCorrect`, with the bound on the
copies of a message (`BrokerBounded`: the queue and the processes that carry one together), and
`EventsOnce`, which is `EventsTakeEffectOnce` with both halves. In the invariant `EventInv`,
`Remembered` says by what an event that was written is known when its message comes again: a
status by its history, a scan by its notification, and either of them no longer only when the
boundary has passed it, so that retention never makes an event new. `NotLost` is the other
side: what was not notified is in the queue, in the hands of a process, or too old. `ClaimsKept`
gives each notification of a batch to the process that claimed it, unless the claim was taken
over after five minutes; with it `Explained` counts the copies: the one recorded as delivered,
those that are just being recorded (a cardinality, so `Processes` has to be finite), and those
whose record is lost. The ports advance because they are never ahead of the position. TLC
has checked `EventInv` on 0.5 million states before. The assumption is `EventAssumption`.
`ManagedCorrect` says of the three modules side by side what is proved of each.

## 7. Commands of a cluster: the run `commands`

`commands` checks the safety of `OperationQueue` without outages (section 2) and the two
modules below.

### HaMaintenance

`plan[p]` is the row with its review, journal and reservation; `change[p]` the Change Center
change that carries the approval; `tasks` the queue's rows, `work` the task under the lock of
the cluster, `waiting` those that a second worker has read before; `writing` another change
of the cluster under the guards of `ha_mutation.py`; `running`, `masked`, `config` the
cluster. A drain is `StartDrain`, `JournalHold`, `Mask`, `JournalHeld`, `CheckAgain`,
`StopKeepalived`, `HandOver`; a return mirrors it; `Dies` and `RemoteFails` may come
between any two. Instance: 2 plans, 2 nodes, 4 actions, 1 other write, 1 mishap: the four
actions are a review, a drain, the review of the return and the return, and with two plans
another node's plan may contend at any point.

* `StoppedAndHeld` has two halves. `HandoverHeld`: a node that was handed over is stopped and masked and stays so, and the
  others run. `StopsAsReviewed`: Keepalived is stopped only on the node of a plan whose review
  describes the present configuration, approved, while all others run.

**Proved** (`HaMaintenanceProofs`, any nodes, any number of plans, actions, other writes and
mishaps): `HaTypeCorrect` and `StoppedAndHeldAlways`. The invariant `HaInv` has, besides types,
`TasksOfPlans` (the task a plan names is about the plan, so a redelivered task cannot act
for another one), `WritersAlone` (another guarded change excludes both a working task and any
reservation: what the guards of `ha_mutation.py` are for), `WorkersAlone` (the plan at work
still owns its task, and no other plan of the cluster is reserved), `DrainsAsReviewed` (what
the review said is still so at each step up to the stop, since nobody else may write in
between) and `MasksReserved` (a mask belongs to a reserved plan that reviewed the present
configuration; at most one node is masked). The last is what carries a hand-over across the
death of its worker, and what a second drain runs into. The assumption is
`MaintenanceAssumption`.

### PacemakerChanges

`cib` is the configuration of the cluster; `changes[c]` the row of a change with the
configuration it was made from and its candidate; `operation[t]` the queue's rows,
`reserved`, `holder` and `lapsed` the columns `active_task_id`, `lock_token` and
`lock_until` of the cluster; `exec[w]` what a worker does, and in `tx` the transaction it
waits for; `orphans` are transactions whose worker has died or given up. A transaction is
`TRANSACTION` of `transaction.py` on a node: it compares, simulates, and commits a
patch that carries the version it was made for, which is what `intact` and `Outdated`
stand for. `commits`, `reviewed`, `dropped` and `stalled` are history.

`BeginOperation` is the head of `execute`: an operation that was started before is not
repeated. `Lock`, `Refuse`, `ReadCib`, `OutcomeSaved` are `validate_or_apply`, `CallTimesOut`
its exception after 180 seconds, `Operate` the direct commands. `LockLapses` is the end of the
ten minutes, `LeaseLapses` the recovery of the queue, either of them also under a live worker;
`AdminEdit` stands for administrators, for other managers, and for commands of this
program that take effect late. Instance: 2 configurations, 2 changes, 2 operations, 2
workers, 1 edit from outside, and two disturbances out of deaths, failed and timed-out
calls, lapses and a second draft. With two configurations an edit can also bring back
the one a draft was made from, so that an attempt that is not the first would pass the
comparison.

* `OnlyReviewedCommitted`: a commit is always of a change whose simulation was recorded, and
  replaces the very configuration the draft was made from. It holds without any help of
  the locks: with lapsed ones too.
* `ChangeStatusTrue`: as long as nothing lapses under a live worker, `applied` means
  committed, a committed change is never offered again nor committed twice, and a change
  that reads `validating` or `applying` has an operation that is about it. Two things the
  code does are excepted, and section 10 says why: `dropped` changes and `stalled` runs.

**Proved** (`PacemakerChangesProofs`, any numbers of configurations, changes, operations,
workers, edits and disturbances): `PacemakerTypeCorrect`; `CommitsReviewed`, which is
`OnlyReviewedCommitted`; and `StatusTold`, which is `ChangeStatusTrue`. For the commits
`IndInv` says of every transaction, also of those whose worker is gone, that it was compared
with the base of its change if it is `patching` and `intact`, and that its change was
simulated if it is to be applied (`TxInv`, `RowsReviewed`, `SeenReviewed`); it does not mention
a lock. For the status `StatusInv` does the opposite: while nothing is `stalled` one operation
at a time is at work (`OneOperation`), what a worker has read agrees with the change
(`WorkTrue`), at most one transaction may still commit a change and none once it is committed,
when its status says so (`AttemptsTrue`), a change that reads `validating` or `applying` has a
started operation and nobody about to begin another (`WaitedFor`), and `applied` is committed
(`AppliedTrue`). TLC has checked it on 8.6 million states before. The assumption is
`PacemakerAssumption`. `CommandsCorrect` says of the three modules side by side what is proved of
each, and that the queue is a `TaskLease` there when no outage is allowed (`MaxOutages = 0`, as in
the run).

The runs `managed` and `commands` check safety only; no fairness is assumed. Their parts, and
those of `requests` and `endpoints`, may stop: users close pages, and work runs out. So
deadlock is not checked; that nothing which has to go on is stuck is what the liveness
properties say.

## 8. The bounds

Every counter is capped by a constant named in the module (`Max...`, `spare`, `left`,
`budget`), and every fault is spent from one. Two actors are enough for the conflicts
here, since each concerns two parties that hold the same row, file or lock; a third server
matters only where batches have an order (`ChangeRollout`). Repetition of one fault
is bounded by one or two where the first repetition brings the code to a state it had
before. Where a result depends on the number (`DELIVERY_ATTEMPTS`, the third failure of a
backup, the size of an answer) the number is a constant and the least that has a first, a
middle or a last.

Symmetry is used in two runs without liveness. In `managed` the processes of `ServiceEvents` and
the updates of a certificate are interchangeable. In `commands` the workers, the nodes of the
Keepalived cluster and the workers of the Pacemaker cluster are, and so are its operations. As
only one module runs at a time, the same two model values stand for the members of each
of these sets, so that one permutation serves all.

## 9. Proved, checked, and left out

*Proved* for all values of the constants: the invariants and action properties of every
component, the refinements of `TaskLease` and `AtomicCommit`, and, for the four modules that put
components side by side, that what holds of each part alone holds of the whole (53 theorems in
eight modules, under the named assumptions of the modules). `tlapm` checks them to the last
leaf. Every invariant that a run checks is proved, and every property of a run that is not
liveness.

*Only model-checked*:

* the liveness properties (`EveryOperationSettles`, `EveryCommandEnds`,
  `EveryDeliverySettles`, `LiveCatchesUp`, `ScheduleGoesOn`, `WorkerFollowsFlag`,
  `OperationReachesTable`, and the liveness in `PageComesBack`, `ViewFollowsNewest` and
  `PlansFollowServer`): liveness under fairness is out of the prover's reach;
* the violations.

*Abstractions that a reader should know*:

* A worker that was declared dead does not complete an SSH session later in `ChangeRollout`;
  in `OperationQueue`, `BackupSchedule` and `HaMaintenance` it may, and in `PacemakerChanges`
  the transaction goes on without it.
* Several writes of one handler that nobody can observe in between are one action.
* Contents of configurations, certificates and lists are compared, never interpreted; the
  health check after an upload is part of the target's outcome.
* Any number of workers may exist, but one host: lock files are shared by all of them.
* The scheduler is a single process and its jobs do not overlap with themselves, as
  `scheduler_runner.py` and `max_instances=1` provide.
* The web process does not die inside a request: the task, the plan and the change that
  `HaMaintenance` writes for one action are written together. `ServiceAssignments` reads the
  settings and `HaproxyLists` the revision of an old page together with the request
  they belong to.
* A missed schedule, from which a change may be deployed as well, is not among the statuses of
  `ChangeRollout`, as scheduling is left out (section 11).
* Checks that only refuse more are left out of `HaproxyLists`: whether the file is shared as a
  map, the version of HAProxy, and the use of a list on other servers of the group.
* The order of the claimed batch in `ChangeDeliveries` is any order.
* `ServiceEvents` has one assignment, whose events are authorised and numbered in order.
* In `HaMaintenance` nothing but maintenance and other guarded changes stops Keepalived; only
  the maintained node reboots.
* In `PacemakerChanges` the lock file of a node, which two transactions at once would need,
  is left out: what it prevents, the version in the patch prevents too. Quorum is a failure
  of the read. Corosync changes and the hand-over of a node are not among its operations.
* The claims of sections 2 and 3 are about commands of the queue and of the user interface;
  the public API calls the handlers of `ChangeRollout` without the reservation.

## 10. Findings

Each violation run checks one statement of the repository's own, and TLC prints a behaviour of
the code that breaks it.

1. `queue_outage`, `OnlyAbandonedRequeued` (`app/modules/operations/queue.py:294`): the
   recovery also returns the task of a live worker whose lease expired in an outage.
2. `rollout_restores`, `RollbackRestores` (`app/modules/change/service.py:517`): the
   reconciliation of a resumed rollout relabels a server that holds the candidate as
   `pending`. If an earlier batch then fails, the rollback picks targets by status and misses
   it. In the trace the master fails its health check, its automatic rollback fails too, the
   slave is restored, and the worker dies before it writes the outcome. The deployment is
   continued, both targets become `pending`, the slave fails: the change reads
   `auto_rolled_back`, the master is `skipped` and holds the candidate.
3. `rollout_excluded`, `ExcludedUntouched` (`:2017`): the rollback of a deployed change takes
   up excluded slaves.
4. `rollout_toggle`, `RollbackHasCause` (`:1575`): pause, resume and pause again while the
   worker claims the first pause rolls a deployment back in which nothing failed. In the
   shortest trace that is before its first batch; after it, the deployed targets go with it.
5. `certificates_receipt`, `NothingToUndo` (`app/scripts/certificate_remote.py:357`): the
   rollback of an update that never reached the server is refused because the receipt of an
   earlier rollback is still there, and stays so at every retry.
6. `maintenance_cancelled`, `ReturnStaysOpen` (`app/api/routes/change_routes.py:382`): the API
   cancels the change of a drained node, which the user interface refuses; nothing can then
   return the node or release its cluster.

Seen in the code and checked by no run:

* An HA task that had started and is delivered again after its plan was released writes
  `unknown` into the plan and clears `active_task_id` whatever it names; two plans of one
  cluster may then be reserved and block each other. A refused action also overwrites a
  `cancelled` change with `validation_failed`.
* The deletion of a server queues the stop of its assignments and removes the row in two
  steps; a reconciliation in between queues it as running again, and nothing repairs that.
* A timeline answer of the Change Center page is rendered without asking whether its change is
  still the one shown; the late answer of a request may show an operation that has ended as
  queued until the next list.
* Loading the table of certificates while the dialog is open renews its operation id, so a
  request repeated after a lost answer is a new operation.
* The page of Pacemaker enables its selector when a task ends while a refresh is still under
  way. Its confirmation names one node or resource, but the request is sent to the cluster that is
  selected by the time of the answer (`app/static/js/pacemaker.js:229`): a list of clusters
  that arrives in between changes it, and the rows of the cluster before stay on the page
  when the refresh that should replace them finds another one running.
* An operation on a Pacemaker change that is delivered again writes `failed` or `unknown` over
  whatever status the change has by then (`app/modules/pacemaker/operations.py:64`). After
  a validation whose worker died late the change may by then have been applied by another
  operation, once a lease has lapsed under a live worker; it then reads `failed` and may be
  attempted again. And an operation that is refused because a permission or a server's
  identity has changed ends before that write (line 50), so an interrupted `apply` stays
  `applying`, where `docs/corosync-pacemaker.md` promises `unknown`. The configuration
  itself is safe in both cases (`OnlyReviewedCommitted`). `ChangeStatusTrue` excepts them.

## 11. Not modelled, and why

* **Change scheduling, maintenance windows and drift** (`change/automation.py`): windows are
  arithmetic on clock times and time zones; a due change is checked again under the lock of its change,
  by the same guards as a command of a user; drift checks write advisory results.
* **The public API as a second executor of a rollout**: it would need every remote step of
  `ChangeRollout` for two executors, an order of magnitude beyond what TLC finishes on two
  servers.
* **Worker heartbeats**: generations of worker runs are shown to the user and decide nothing.
* **Let's Encrypt and certificate sources**: they run the journal of `CertificateDeployment`
  for certificates of their own; ACME is another program's.
* **The rest of Pacemaker** (bootstrap, adoption, transport, witnesses, agents, Corosync
  membership): long sequences of commands of Corosync, Pacemaker and Docker; what they do
  belongs to those programs, and nothing could be said about the result without a model
  of them. Passive nodes of such a cluster are left out of `CertificateDeployment` for the
  same reason.
* **Keepalived clusters, installation**: an operation of the queue or one request.
* **Configuration editor, WAF, services, statistics, users, OIDC, alerts, port scanner**: decisions
  within one request on the tables or servers as they are.
* **Charts, forms, tables and editors of the web interface**: presentation, and code of other
  projects (CodeMirror, jQuery, Chart.js) that the repository carries. They are most of its
  JavaScript.
