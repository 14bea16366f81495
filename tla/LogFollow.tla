----------------------------- MODULE LogFollow -----------------------------
(* The log viewer: a page that follows a query by polling with the cursor of *)
(* the last answer, and the server that reads the files of a rotating log    *)
(* behind that cursor.  Nothing is kept on the server between two polls: the *)
(* cursor says for every file how far it was read.  Records are numbered in  *)
(* the order the logged program writes them.                                 *)
EXTENDS Naturals, Sequences, FiniteSets

CONSTANTS Queries,      \* what the form can ask for
          NoCursor,     \* no cursor: an answer starts from the newest records
          AnswerLimit,  \* records of one answer
          MaxRows,      \* rows kept on the page
          MaxFiles,     \* files the log keeps
          MaxRecords,   \* bound: records written
          MaxRotations, \* bound: rotations and truncations
          MaxClicks,    \* bound: changes of the form or of the query
          MaxFailures   \* bound: failed polls

ASSUME LogAssumption ==
    /\ Queries # {} /\ AnswerLimit \in Nat \ {0} /\ MaxRows \in Nat \ {0} /\ MaxFiles \in Nat \ {0}
    /\ MaxRecords \in Nat /\ MaxRotations \in Nat

VARIABLES
    files,      \* the log on disk, oldest file first: [id, first, last] records
    written,    \* records written so far
    form,       \* the query in the form
    query,      \* the query being followed
    cursor,     \* Follower.cursor
    live,       \* Follower.live
    pollTimer,  \* a poll is scheduled
    requests,   \* polls without an answer processed by the page
    rows,       \* the rows of the page
    clicks, rotations, failures

logVars == <<files, written, form, query, cursor, live, pollTimer, requests, rows,
             clicks, rotations, failures>>
disk  == <<files, written, rotations>>
page_ == <<form, query, cursor, live, pollTimer, rows>>

FileIds     == 1..(MaxRotations + 1)
Records == 1..MaxRecords
\* How far a file was read, the record before that place, and its size then.
Positions == [offset : 0..MaxRecords, anchor : 0..MaxRecords, size : 0..MaxRecords]
\* A position for the files in "known"; the cursor is signed with its query.
Cursors == {NoCursor} \cup
           [query : Queries, known : SUBSET FileIds, at : [FileIds -> Positions]]

LogTypeOK ==
    /\ files \in Seq([id : FileIds, first : 1..(MaxRecords + 1), last : 0..MaxRecords])
    /\ Len(files) \in 1..MaxFiles
    /\ written \in 0..MaxRecords
    /\ form \in Queries /\ query \in Queries
    /\ cursor \in Cursors
    /\ live \in BOOLEAN /\ pollTimer \in BOOLEAN
    /\ \A r \in requests :
          /\ r.current \in BOOLEAN /\ r.query \in Queries /\ r.cursor \in Cursors
          /\ r.answered \in BOOLEAN
    /\ rows \in Seq([query : Queries, record : Records])
    /\ Len(rows) <= MaxRows

LogInit ==
    /\ files = <<[id |-> 1, first |-> 1, last |-> 0]>>
    /\ written = 0
    /\ form = CHOOSE q \in Queries : TRUE
    /\ query = form
    /\ cursor = NoCursor
    /\ live = FALSE /\ pollTimer = FALSE
    /\ requests = {} /\ rows = <<>>
    /\ clicks = 0 /\ rotations = 0 /\ failures = 0

-----------------------------------------------------------------------------
(* The log. *)

Last == Len(files)
Size(f) == f.last + 1 - f.first
OnDisk  == UNION {f.first .. f.last : f \in {files[i] : i \in 1..Last}}

WriteRecord ==
    /\ written < MaxRecords
    /\ written' = written + 1
    /\ files' = [files EXCEPT ![Last].last = written + 1]
    /\ UNCHANGED <<rotations, requests, clicks, failures>> /\ UNCHANGED page_

\* The current file is renamed and a new one opened; the oldest is removed.
RotateLog ==
    /\ rotations < MaxRotations
    /\ rotations' = rotations + 1
    /\ LET kept == IF Last = MaxFiles THEN Tail(files) ELSE files IN
       files' = Append(kept, [id |-> rotations + 2, first |-> written + 1, last |-> written])
    /\ UNCHANGED <<written, requests, clicks, failures>> /\ UNCHANGED page_

\* The current file is emptied in place.
TruncateLog ==
    /\ rotations < MaxRotations
    /\ rotations' = rotations + 1
    /\ files' = [files EXCEPT ![Last].first = written + 1, ![Last].last = written]
    /\ UNCHANGED <<written, requests, clicks, failures>> /\ UNCHANGED page_

-----------------------------------------------------------------------------
(* read_logs *)

\* Mutant: the record before the offset is not compared.
StartAtOffset(c, f) ==
    IF f.id \notin c.known THEN 0
    ELSE IF c.at[f.id].offset <= Size(f) THEN c.at[f.id].offset ELSE 0

\* Where reading file f starts: where it was left, if the record there still
\* is the same; from the start when the file is new or was emptied.
Start(c, f) ==
    IF f.id \notin c.known THEN 0
    ELSE LET p == c.at[f.id] IN
         IF p.offset <= Size(f) /\ p.anchor = (IF p.offset = 0 THEN 0 ELSE f.first + p.offset - 1)
         THEN p.offset ELSE 0

\* What file f still has to give, and the oldest and newest records of a set.
StillUnread(c, f) == f.first + Start(c, f) .. f.last
Oldest(S) == {x \in S : Cardinality({y \in S : y < x}) < AnswerLimit}
Newest(S) == {x \in S : Cardinality({y \in S : y > x}) < AnswerLimit}
InOrder(S) == [i \in 1..Cardinality(S) |->
                  CHOOSE x \in S : Cardinality({y \in S : y < x}) = i - 1]

PositionAt(f, offset) == [offset |-> offset, size |-> Size(f),
                          anchor |-> IF offset = 0 THEN 0 ELSE f.first + offset - 1]
NoPosition == [offset |-> 0, anchor |-> 0, size |-> 0]
FileIndex(id) == CHOOSE i \in 1..Last : files[i].id = id
\* The cursor for query q of an answer that has read file i up to offset[i].
CursorAt(q, offset) ==
    LET known == {files[i].id : i \in 1..Last} IN
    [query |-> q, known |-> known,
     at |-> [id \in FileIds |-> IF id \in known
                THEN PositionAt(files[FileIndex(id)], offset[FileIndex(id)]) ELSE NoPosition]]

Answer(q, c) ==
    IF c = NoCursor
    THEN LET whole == [i \in 1..Last |-> Size(files[i])] IN
         [rejected |-> FALSE, cursor |-> CursorAt(q, whole), entries |-> InOrder(Newest(OnDisk))]
    ELSE IF c.query # q THEN [rejected |-> TRUE, cursor |-> NoCursor, entries |-> <<>>]
    ELSE LET news == Oldest(UNION {StillUnread(c, files[i]) : i \in 1..Last})
             upto == [i \in 1..Last |-> Start(c, files[i])
                                        + Cardinality(news \cap StillUnread(c, files[i]))] IN
         [rejected |-> FALSE, cursor |-> CursorAt(q, upto), entries |-> InOrder(news)]

-----------------------------------------------------------------------------
(* Follower and the page around it. *)

Poll(q, c) == [current |-> TRUE, query |-> q, cursor |-> c, answered |-> FALSE]

\* stop: the generation moves on, so that nothing under way is current.  The page
\* looks at the generation first, so that what is asked and answered there does
\* not matter any more: all the requests of before are as one.
Outdated == [Poll(query, NoCursor) EXCEPT !.current = FALSE, !.answered = TRUE]
Stopped == IF requests = {} THEN {} ELSE {Outdated}

\* start(live, reset): stop, then poll at once.
StartFollow(q, onLive, c) ==
    /\ query' = q
    /\ live' = onLive /\ pollTimer' = FALSE
    /\ cursor' = c
    /\ requests' = Stopped \cup {Poll(q, c)}

StopFollow(c) == live' = FALSE /\ pollTimer' = FALSE /\ cursor' = c /\ requests' = Stopped

\* The form is submitted: one answer is asked for.  A relative time keeps the
\* query live if it was.
RunQuery ==
    /\ clicks < MaxClicks /\ clicks' = clicks + 1
    /\ \E onLive \in {FALSE, live} : StartFollow(form, onLive, NoCursor)
    /\ UNCHANGED <<form, rows, failures>> /\ UNCHANGED disk

\* A field of the form changes: the follower stops and forgets its cursor.
ChangeForm(q) ==
    /\ clicks < MaxClicks /\ clicks' = clicks + 1
    /\ q # form /\ form' = q
    /\ StopFollow(NoCursor)
    /\ UNCHANGED <<query, rows, failures>> /\ UNCHANGED disk

\* Another source is chosen: the rows go and the query runs.
ChangeSource(q) ==
    /\ clicks < MaxClicks /\ clicks' = clicks + 1
    /\ q # form /\ form' = q
    /\ rows' = <<>>
    /\ StartFollow(q, FALSE, NoCursor)
    /\ UNCHANGED failures /\ UNCHANGED disk

\* The Live button: pause keeps the cursor, and live goes on from it.
PauseLive ==
    /\ live /\ clicks < MaxClicks /\ clicks' = clicks + 1
    /\ StopFollow(cursor)
    /\ UNCHANGED <<form, query, rows, failures>> /\ UNCHANGED disk
GoLive ==
    /\ ~live /\ clicks < MaxClicks /\ clicks' = clicks + 1
    /\ StartFollow(form, TRUE, cursor)
    /\ UNCHANGED <<form, rows, failures>> /\ UNCHANGED disk

TimerFires ==
    /\ pollTimer /\ pollTimer' = FALSE
    /\ requests' = requests \cup {Poll(query, cursor)}
    /\ UNCHANGED <<form, query, cursor, live, rows, clicks, failures>> /\ UNCHANGED disk

\* The server reads the files at some moment before the answer arrives.
ServeLog(r) ==
    /\ r \in requests /\ ~r.answered
    /\ UNCHANGED <<clicks, failures>> /\ UNCHANGED disk /\ UNCHANGED page_
    /\ requests' = (requests \ {r}) \cup
          {[current |-> r.current, query |-> r.query, cursor |-> r.cursor,
            answered |-> TRUE, answer |-> Answer(r.query, r.cursor)]}

\* Mutant: the rows are never trimmed.
AllRows(s) == s

LastRows(s) == IF Len(s) <= MaxRows THEN s ELSE SubSeq(s, Len(s) - MaxRows + 1, Len(s))
Render(r) ==
    LET old == IF r.cursor = NoCursor THEN <<>> ELSE rows IN
    LastRows(old \o [i \in 1..Len(r.answer.entries) |->
                        [query |-> r.query, record |-> r.answer.entries[i]]])

\* done: an answer to an earlier generation is dropped.
AnswerArrives(r) ==
    /\ r \in requests /\ r.answered
    /\ requests' = requests \ {r}
    /\ IF ~r.current THEN UNCHANGED page_
       ELSE IF r.answer.rejected
       THEN live' = FALSE /\ UNCHANGED <<form, query, cursor, pollTimer, rows>>
       ELSE /\ cursor' = r.answer.cursor
            /\ rows' = Render(r)
            /\ pollTimer' = live
            /\ UNCHANGED <<form, query, live>>
    /\ UNCHANGED <<clicks, failures>> /\ UNCHANGED disk

\* Mutant: a failed poll is the last one.
PollFailsForGood(r) ==
    /\ r \in requests
    /\ failures < MaxFailures /\ failures' = failures + 1
    /\ requests' = requests \ {r}
    /\ \E refused \in BOOLEAN : live' = (live /\ ~(r.current /\ refused))
    /\ UNCHANGED <<form, query, cursor, pollTimer, rows, clicks>> /\ UNCHANGED disk

\* fail: the request or its answer is lost, or the server cannot answer now; a
\* live query is polled again with the same cursor, unless it was refused.
PollFails(r) ==
    /\ r \in requests
    /\ failures < MaxFailures /\ failures' = failures + 1
    /\ requests' = requests \ {r}
    /\ \E refused \in BOOLEAN :
          /\ live' = (live /\ ~(r.current /\ refused))
          /\ pollTimer' = IF r.current THEN live' ELSE pollTimer
    /\ UNCHANGED <<form, query, cursor, rows, clicks>> /\ UNCHANGED disk

LogNext ==
    \/ WriteRecord
    \/ RotateLog
    \/ TruncateLog
    \/ RunQuery
    \/ \E q \in Queries : ChangeForm(q)
    \/ \E q \in Queries : ChangeSource(q)
    \/ PauseLive
    \/ GoLive
    \/ TimerFires
    \/ \E r \in requests : ServeLog(r)
    \/ \E r \in requests : AnswerArrives(r)
    \/ \E r \in requests : PollFails(r)

LogSpec == LogInit /\ [][LogNext]_logVars

\* A timer fires, the server answers and the answer arrives.
LogFairness == /\ WF_logVars(TimerFires)
               /\ WF_logVars(\E r \in requests : ServeLog(r))
               /\ WF_logVars(\E r \in requests : AnswerArrives(r))
LogFairSpec == LogSpec /\ LogFairness

-----------------------------------------------------------------------------
(* Properties. *)

Shown == {rows[i].record : i \in 1..Len(rows)}

\* "a paused/changed query cannot append late responses": rows of two queries
\* are never mixed, a poll is never refused because the form has moved on, and
\* there is one outstanding request at most.
OneQueryAtATime ==
    /\ \A i, j \in 1..Len(rows) : rows[i].query = rows[j].query
    /\ cursor # NoCursor => cursor.query = query /\ form = query
    /\ Cardinality({r \in requests : r.current}) + (IF pollTimer THEN 1 ELSE 0) <= 1

\* However often a poll is repeated, the log is rotated or emptied and the live
\* view is paused and resumed, no record is shown twice or out of order, and
\* none between two rows is skipped while it still is on disk.
RowsAreContiguous ==
    /\ \A i, j \in 1..Len(rows) : i < j => rows[i].record < rows[j].record
    /\ \A i \in 1..Len(rows) - 1 :
          \A k \in (rows[i].record + 1)..(rows[i + 1].record - 1) : k \notin OnDisk

\* The rows shown are one stretch of the log, of one query, in order.
RowsOfOneStretch == OneQueryAtATime /\ RowsAreContiguous

\* While a query is followed live, the last record written is shown in the end,
\* unless it left the disk or the user paused: no failed poll, rotation or late
\* answer leaves the live view without its next poll.
LiveCatchesUp ==
    (live /\ written = MaxRecords) ~>
        (~live \/ MaxRecords \in Shown \/ MaxRecords \notin OnDisk)
=============================================================================
