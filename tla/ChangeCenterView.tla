-------------------------- MODULE ChangeCenterView --------------------------
(* The page of the Change Center: a table of changes that is loaded again    *)
(* while anything it shows is under way, and the requests of the user.  The  *)
(* operations queue, other users and the scheduler change the records on the *)
(* server at any time.                                                       *)
EXTENDS Naturals

CONSTANTS Changes,      \* the changes of the group
          MaxOps,       \* bound: operations of one change
          MaxPosts,     \* bound: requests of the user
          MaxLostCalls       \* bound: requests that fail

ASSUME CenterAssumption == MaxOps \in Nat /\ MaxPosts \in Nat /\ MaxLostCalls \in Nat

VARIABLES
    record,     \* record[c]: the change on the server and its last operation
    seen,       \* allChanges, changesById: the changes as the page shows them
    load,       \* the load under way (loadingChanges), or NoLoad
    generation, \* loadGeneration
    poll,       \* actionPoll: the interval of 1.5 s is set
    posts,      \* requests of the user without an answer
    announced,  \* operations the page has reported the end of
    centerLeft  \* what is left of each bound

centerVars == <<record, seen, load, generation, poll, posts, announced, centerLeft>>

\* op counts the operations of the change; active says the last has not ended.
ChangeRecords == [op : 0..MaxOps, active : BOOLEAN, scheduled : BOOLEAN]
Data    == [Changes -> ChangeRecords]
NoLoad  == [step |-> "none"]
Loads   == [step : {"sent"}, generation : 0..MaxPosts]
           \cup [step : {"read"}, generation : 0..MaxPosts, data : Data]
Kinds   == {"command", "target", "cancel-schedule", "schedule"}
NoAnswer == [op |-> 0, active |-> FALSE, scheduled |-> FALSE]
Posts   == [id : 1..MaxPosts, change : Changes, kind : Kinds,
            step : {"sent", "accepted", "done"}, data : ChangeRecords]

CenterTypeOK ==
    /\ record \in Data /\ seen \in Data
    /\ load \in Loads \cup {NoLoad}
    /\ generation \in 0..MaxPosts
    /\ poll \in BOOLEAN
    /\ posts \subseteq Posts
    /\ announced \subseteq Changes \X (1..MaxOps)
    /\ centerLeft \in [posts : 0..MaxPosts, lost : 0..MaxLostCalls]

CenterInit ==
    /\ record = [c \in Changes |-> NoAnswer] /\ seen = record
    /\ load = NoLoad /\ generation = 0 /\ poll = FALSE
    /\ posts = {} /\ announced = {}
    /\ centerLeft = [posts |-> MaxPosts, lost |-> MaxLostCalls]

Use(kind) == centerLeft[kind] > 0 /\ centerLeft' = [centerLeft EXCEPT ![kind] = @ - 1]

-----------------------------------------------------------------------------
(* The server. *)

CanQueue(c) == ~record[c].active /\ record[c].op < MaxOps
Queued(c) == [record[c] EXCEPT !.op = @ + 1, !.active = TRUE]

\* Another user queues a command.
OtherUserQueues(c) ==
    /\ CanQueue(c)
    /\ record' = [record EXCEPT ![c] = Queued(c)]
    /\ UNCHANGED <<seen, load, generation, poll, posts, announced, centerLeft>>

\* The scheduler starts a change whose time has come.
ScheduleStarts(c) ==
    /\ record[c].scheduled /\ CanQueue(c)
    /\ record' = [record EXCEPT ![c] = [Queued(c) EXCEPT !.scheduled = FALSE]]
    /\ UNCHANGED <<seen, load, generation, poll, posts, announced, centerLeft>>

\* A worker ends an operation.
OperationEnds(c) ==
    /\ record[c].active
    /\ record' = [record EXCEPT ![c].active = FALSE]
    /\ UNCHANGED <<seen, load, generation, poll, posts, announced, centerLeft>>

\* A command is queued unless one is under way; the schedule is changed at once.
\* The answer has the record of that moment.
ServePost(p) ==
    /\ p.step = "sent"
    /\ \/ /\ p.kind \in {"command", "target"} /\ CanQueue(p.change)
          /\ record' = [record EXCEPT ![p.change] = Queued(p.change)]
          /\ posts' = (posts \ {p}) \cup {[p EXCEPT !.step = "accepted", !.data = Queued(p.change)]}
       \/ /\ p.kind \in {"schedule", "cancel-schedule"} /\ ~record[p.change].active
          /\ record' = [record EXCEPT ![p.change].scheduled = p.kind = "schedule"]
          /\ posts' = (posts \ {p}) \cup {[p EXCEPT !.step = "done"]}
    /\ UNCHANGED <<seen, load, generation, poll, announced, centerLeft>>

-----------------------------------------------------------------------------
(* loadChanges and the interval that calls it. *)

\* The requests counted by activeRequests: a schedule is not one of them.
Counted(pending) == {p \in pending : p.kind # "schedule"}
\* syncActionPolling
PollingNeeded(data, pending) ==
    \/ Counted(pending) # {}
    \/ \E c \in Changes : data[c].active \/ data[c].scheduled

\* loadChanges does nothing while a load is under way.
LoadIfIdle(g) == load' = IF load = NoLoad THEN [step |-> "sent", generation |-> g] ELSE load

\* The interval of a minute, the interval of 1.5 s, or the retry button.
IntervalFires ==
    /\ load = NoLoad
    /\ LoadIfIdle(generation)
    /\ UNCHANGED <<record, seen, generation, poll, posts, announced, centerLeft>>

ServeLoad ==
    /\ load.step = "sent"
    /\ load' = [step |-> "read", generation |-> load.generation, data |-> record]
    /\ UNCHANGED <<record, seen, generation, poll, posts, announced, centerLeft>>

\* The answer of an earlier generation is dropped; another replaces the table,
\* and the end of every operation that was shown active is reported.
LoadArrives ==
    /\ load.step = "read"
    /\ load' = NoLoad
    /\ IF load.generation # generation THEN UNCHANGED <<seen, poll, announced>>
       ELSE /\ seen' = load.data
            /\ announced' = announced \cup
                  {<<c, load.data[c].op>> :
                      c \in {d \in Changes : seen[d].active /\ ~load.data[d].active}}
            /\ poll' = PollingNeeded(load.data, posts)
    /\ UNCHANGED <<record, generation, posts, centerLeft>>

LoadFails ==
    /\ load # NoLoad /\ load' = NoLoad
    /\ Use("lost")
    /\ UNCHANGED <<record, seen, generation, poll, posts, announced>>

-----------------------------------------------------------------------------
(* The requests of the user. *)

\* executeAction, one request of a change at a time, and executeTargetAction,
\* which does not ask; the schedule is saved from a dialog of its own.
SendPost(c, kind) ==
    /\ Use("posts")
    /\ kind \in {"command", "cancel-schedule"} =>
          ~\E p \in posts : p.change = c /\ p.kind \in {"command", "cancel-schedule"}
    /\ posts' = posts \cup {[id |-> centerLeft.posts, change |-> c, kind |-> kind,
                              step |-> "sent", data |-> NoAnswer]}
    /\ poll' = (poll \/ kind # "schedule")
    /\ UNCHANGED <<record, seen, load, generation, announced>>

\* Mutant: the generation stays, so that a list asked for before still counts.
PostAcceptedSameGeneration(p) ==
    /\ p \in posts /\ p.step = "accepted"
    /\ seen' = [seen EXCEPT ![p.change] = p.data]
    /\ posts' = posts \ {p}
    /\ poll' = PollingNeeded(seen', posts')
    /\ LoadIfIdle(generation)
    /\ UNCHANGED <<record, generation, announced, centerLeft>>

\* rememberQueued: the record of an accepted command is shown at once, and no
\* list that was asked for before may replace it.
PostAccepted(p) ==
    /\ p \in posts /\ p.step = "accepted"
    /\ generation' = generation + 1
    /\ seen' = [seen EXCEPT ![p.change] = p.data]
    /\ posts' = posts \ {p}
    /\ poll' = PollingNeeded(seen', posts')
    /\ LoadIfIdle(generation')
    /\ UNCHANGED <<record, announced, centerLeft>>

PostDone(p) ==
    /\ p \in posts /\ p.step = "done"
    /\ posts' = posts \ {p}
    /\ poll' = IF p.kind = "schedule" THEN poll ELSE PollingNeeded(seen, posts')
    /\ LoadIfIdle(generation)
    /\ UNCHANGED <<record, seen, generation, announced, centerLeft>>

\* The server refuses, or the request or its answer is lost.
PostFails(p) ==
    /\ p \in posts
    /\ \/ p.step = "sent" /\ UNCHANGED centerLeft
       \/ p.step # "sent" /\ Use("lost")
    /\ posts' = posts \ {p}
    /\ poll' = IF p.kind = "schedule" THEN poll ELSE PollingNeeded(seen, posts')
    /\ IF p.kind = "schedule" THEN UNCHANGED load ELSE LoadIfIdle(generation)
    /\ UNCHANGED <<record, seen, generation, announced>>

CenterNext ==
    \/ \E c \in Changes : OtherUserQueues(c)
    \/ \E c \in Changes : ScheduleStarts(c)
    \/ \E c \in Changes : OperationEnds(c)
    \/ \E p \in posts : ServePost(p)
    \/ IntervalFires
    \/ ServeLoad
    \/ LoadArrives
    \/ LoadFails
    \/ \E c \in Changes, kind \in Kinds : SendPost(c, kind)
    \/ \E p \in posts : PostAccepted(p)
    \/ \E p \in posts : PostDone(p)
    \/ \E p \in posts : PostFails(p)

CenterSpec == CenterInit /\ [][CenterNext]_centerVars

\* Timers fire, the server answers, answers arrive and operations end.
CenterFairness ==
    /\ WF_centerVars(IntervalFires) /\ WF_centerVars(ServeLoad) /\ WF_centerVars(LoadArrives)
    /\ \A c \in Changes : WF_centerVars(OperationEnds(c))
    /\ WF_centerVars(\E p \in posts : PostAccepted(p) \/ PostDone(p) \/ PostFails(p))
CenterFairSpec == CenterSpec /\ CenterFairness

-----------------------------------------------------------------------------
(* Properties. *)

Rank(r) == 2 * r.op + (IF r.active THEN 0 ELSE 1)

\* A list never takes a change back to an earlier operation, or from an ended
\* operation to the active one: a list read before a command was accepted may
\* arrive after the command was shown.
ListNeverGoesBack ==
    [][(load' = NoLoad /\ seen' # seen) => \A c \in Changes : Rank(seen'[c]) >= Rank(seen[c])]_centerVars

\* The page polls every 1.5 s exactly while it waits for an answer or shows a
\* change that is scheduled or has an active operation.
PollsWhileActive == poll <=> PollingNeeded(seen, posts)

\* The end that is reported is the end of an operation that has ended, and a
\* command the page has shown as queued is reported in the end, or a later one.
EndsReportedTruly == \A a \in announced : Rank(record[a[1]]) > 2 * a[2]
CommandReported ==
    /\ []EndsReportedTruly
    /\ \A c \in Changes, k \in 1..MaxOps :
          (seen[c].op = k /\ seen[c].active) ~> (\E j \in k..MaxOps : <<c, j>> \in announced)

\* Once the server is quiet, the table shows what it has and the page stops
\* polling for operations, whatever was lost and whichever load was dropped.
ViewSettles ==
    <>[](seen = record /\ (poll => \E c \in Changes : record[c].scheduled))

\* The table, the polling and the reports follow the newest list, whatever arrives
\* late, and end up with what the server has.
ViewFollowsNewest ==
    []PollsWhileActive /\ ListNeverGoesBack /\ ViewSettles /\ CommandReported
=============================================================================
