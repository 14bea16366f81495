------------------------ MODULE ServiceEventsProofs ------------------------
(* Proofs about the storage of events and the notifications they cause, for   *)
(* any processes, any shapes and numbers of events, and any numbers of        *)
(* copies, deaths, failed calls and claims that are taken over; and about the *)
(* events together with the files of the servers they come from.              *)
EXTENDS ServiceEvents, ServerFilesProofs, MCManaged, FiniteSetTheorems, NaturalsInduction,
        WellFoundedInduction, TLAPS

EventSteps == {"idle", "received", "stored", "sending", "succeeded", "failed"}
Shape == [kind : Kinds_, day : Days, changed : BOOLEAN, keep : BOOLEAN, notify : BOOLEAN]
Notices == [status : {"none", "pending", "processing", "failed", "delivered"},
            owner : Processes \cup {NoProcess}, old : BOOLEAN]
Work == [step : EventSteps, event : Ids \cup {0}, fresh : BOOLEAN, batch : SUBSET Ids, got : BOOLEAN]
Counts == [Ids -> Nat]

TablesTyped ==
    /\ history \subseteq Published /\ diagnostics \subseteq Published
    /\ position \in 0..Len(sent) /\ ports \in 0..position
    /\ kept \in Counts /\ queued \in Counts
EventTyped ==
    /\ sent \in Seq(Shapes) /\ Len(sent) <= MaxEvents
    /\ TablesTyped
    /\ broker \in Counts /\ received \in Counts /\ unrecorded \in Counts
    /\ notices \in [Ids -> Notices] /\ cutoff \in [Kinds_ -> Days]
    /\ proc \in [Processes -> Work]
    /\ overdue \subseteq (Processes \cup {NoProcess}) \X Ids
    /\ eventLeft \in [gone : Nat, overdue : Nat]

\* Nothing is known of an event before it is published.
Unknown ==
    \A e \in Ids \ Published :
        /\ broker[e] = 0 /\ kept[e] = 0 /\ queued[e] = 0 /\ received[e] = 0
        /\ notices[e].status = "none"

\* What a process may be doing: with a message, with a claim, or nothing.
WorkFits(w) ==
    /\ w.step \in {"received", "stored", "succeeded", "failed"} => w.event \in Published
    /\ w.batch \subseteq Published
    /\ w.step \in {"idle", "received", "stored"} => w.batch = {}
    /\ w.got => w.step \in {"succeeded", "failed"}
    /\ w.step \in {"succeeded", "failed"} => w.event \notin w.batch

\* A notification that a process has claimed is its own until it was taken over.
Claimed(w) == w.batch \cup (IF w.step \in {"succeeded", "failed"} THEN {w.event} ELSE {})
ClaimsKept == \A p \in Processes : \A e \in Claimed(proc[p]) : Holds(p, e) \/ <<p, e>> \in overdue

\* What is written of an event leaves an identity by which it is known, or the boundary has
\* passed it; and what is known of it was notified.
Remembered(e) ==
    /\ kept[e] <= 1 /\ queued[e] <= 1
    /\ kept[e] = 1 => e \in history \/ TooOld(e)
    /\ queued[e] = 1 => IF sent[e].kind = "status" THEN kept[e] = 1
                        ELSE notices[e].status # "none" \/ TooOld(e)
    /\ notices[e].status # "none" => queued[e] = 1
    /\ (e \in history \/ e \in diagnostics \/ position = e) /\ Wanted(e) => queued[e] = 1

NotLost(e) == Wanted(e) /\ queued[e] = 0 => InHand(e) \/ TooOld(e)

\* The one copy a recorded delivery accounts for.
Recorded(e) == IF queued[e] = 1 /\ notices[e].status \in {"delivered", "none"} THEN 1 ELSE 0
Explained(e) == received[e] <= unrecorded[e] + Cardinality(BeingRecorded(e)) + Recorded(e)

EventInv ==
    /\ EventTyped /\ Unknown
    /\ \A p \in Processes : WorkFits(proc[p])
    /\ ClaimsKept
    /\ \A e \in Published : Remembered(e) /\ NotLost(e) /\ Explained(e)
-----------------------------------------------------------------------------
(* The rows. *)

LEMMA ShapeFields ==
  ASSUME sent \in Seq(Shapes), NEW e \in Published
  PROVE  /\ sent[e] \in Shape /\ sent[e].kind \in Kinds_ /\ sent[e].day \in Nat
         /\ sent[e].notify \in BOOLEAN /\ sent[e].changed \in BOOLEAN
<1>1. sent[e] \in Shapes BY DEF Published
<1>2. sent[e] \in Shape BY <1>1, EventAssumption DEF Shape
<1> QED BY <1>2, EventAssumption DEF Shape, Days

LEMMA WorkFields ==
  ASSUME NEW w \in Work
  PROVE  /\ w.step \in EventSteps /\ w.event \in Ids \cup {0} /\ w.fresh \in BOOLEAN
         /\ w.batch \in SUBSET Ids /\ w.got \in BOOLEAN
BY DEF Work

LEMMA NoticeFields ==
  ASSUME NEW n \in Notices
  PROVE  /\ n.status \in {"none", "pending", "processing", "failed", "delivered"}
         /\ n.owner \in Processes \cup {NoProcess} /\ n.old \in BOOLEAN
BY DEF Notices

LEMMA PublishedIds ==
  ASSUME EventTyped
  PROVE  Published \subseteq Ids /\ Published = 1..Len(sent) /\ Len(sent) \in Nat
BY EventAssumption DEF EventTyped, Published, Ids

LEMMA Idle ==
  /\ IdleProcess \in Work /\ WorkFits(IdleProcess) /\ Claimed(IdleProcess) = {}
  /\ IdleProcess.step = "idle" /\ ~IdleProcess.got
<1>1. IdleProcess.step = "idle" /\ IdleProcess.batch = {} /\ IdleProcess.got = FALSE
  BY DEF IdleProcess
<1> QED BY <1>1 DEF IdleProcess, Work, EventSteps, WorkFits, Claimed

-----------------------------------------------------------------------------
(* The parts that do not look at an action, but at what it left alone. *)

LEMMA Tables ==
  ASSUME EventInv, UNCHANGED <<sent, tables>>
  PROVE  TablesTyped'
BY DEF EventInv, EventTyped, TablesTyped, Published, tables

\* Who is sending is at most everybody.
LEMMA SendersFinite ==
  ASSUME NEW e
  PROVE  IsFiniteSet(BeingRecorded(e)) /\ Cardinality(BeingRecorded(e)) \in Nat
<1>1. IsFiniteSet(Processes) BY EventAssumption
<1>2. BeingRecorded(e) \subseteq Processes BY DEF BeingRecorded
<1> QED BY <1>1, <1>2, FS_Subset, FS_CardinalityType

\* Nobody begins or ends to send.
LEMMA SameSenders ==
  ASSUME NEW e, NEW p \in Processes, NEW w, proc \in [Processes -> Work],
         proc' = [proc EXCEPT ![p] = w], ~proc[p].got, ~w.got
  PROVE  BeingRecorded(e)' = BeingRecorded(e)
BY DEF BeingRecorded

\* The processes, when one of them goes on.
LEMMA FitsStill ==
  ASSUME NEW p \in Processes, NEW w \in Work, proc \in [Processes -> Work],
         proc' = [proc EXCEPT ![p] = w], sent' = sent,
         \A q \in Processes : WorkFits(proc[q]), WorkFits(w)
  PROVE  /\ proc' \in [Processes -> Work]
         /\ \A q \in Processes : WorkFits(proc[q])'
<1>1. \A q \in Processes : proc'[q] = IF q = p THEN w ELSE proc[q] OBVIOUS
<1>2. Published' = Published BY DEF Published
<1>3. \A q \in Processes : WorkFits(proc[q])'
  BY <1>1, <1>2 DEF WorkFits
<1> QED BY <1>3

LEMMA ClaimsStill ==
  ASSUME NEW p \in Processes, NEW w \in Work, proc \in [Processes -> Work],
         proc' = [proc EXCEPT ![p] = w], ClaimsKept,
         \A q \in Processes \ {p}, e \in Ids : Holds(q, e) \/ <<q, e>> \in overdue
                                         => Holds(q, e)' \/ <<q, e>> \in overdue',
         \A q \in Processes : WorkFits(proc[q]), Published \subseteq Ids,
         \A e \in Claimed(w) : Holds(p, e)' \/ <<p, e>> \in overdue'
  PROVE  ClaimsKept'
<1>1. ASSUME NEW q \in Processes, NEW e \in Claimed(proc'[q])
      PROVE  Holds(q, e)' \/ <<q, e>> \in overdue'
  <2>1. CASE q = p BY <1>1, <2>1
  <2>2. CASE q # p
    <3>1. proc'[q] = proc[q] BY <2>2
    <3>2. e \in Ids BY <1>1, <3>1 DEF Claimed, WorkFits
    <3> QED BY <1>1, <2>2, <3>1, <3>2 DEF ClaimsKept
  <2> QED BY <2>1, <2>2
<1> QED BY <1>1 DEF ClaimsKept, Claimed

\* What may be taken from the invariant about any event.
LEMMA OfPublished ==
  ASSUME EventInv, NEW e \in Published
  PROVE  /\ e \in Ids /\ Remembered(e) /\ NotLost(e) /\ Explained(e)
         /\ sent[e].kind \in Kinds_ /\ notices[e] \in Notices
         /\ kept[e] \in Nat /\ queued[e] \in Nat /\ received[e] \in Nat /\ unrecorded[e] \in Nat
         /\ broker[e] \in Nat
<1>1. EventTyped BY DEF EventInv
<1>2. e \in Ids BY <1>1, PublishedIds
<1>3. sent[e].kind \in Kinds_ BY <1>1, ShapeFields DEF EventTyped
<1> QED BY <1>1, <1>2, <1>3 DEF EventInv, EventTyped, TablesTyped, Counts

-----------------------------------------------------------------------------
(* The steps. *)

LEMMA PublishAgainKeeps ==
  ASSUME EventInv, NEW x \in Ids, PublishAgain(x)
  PROVE  EventInv'
<1>0. UNCHANGED <<sent, notices, cutoff, proc, tables, ghosts>> BY DEF PublishAgain
<1>1. EventTyped BY DEF EventInv
<1>2. x \in Published /\ broker' = [broker EXCEPT ![x] = @ + 1] BY DEF PublishAgain
<1>3. EventTyped'
  <2>1. broker' \in Counts BY <1>1, <1>2 DEF EventTyped, Counts
  <2>2. eventLeft' \in [gone : Nat, overdue : Nat] BY <1>1 DEF EventTyped, PublishAgain
  <2>3. TablesTyped' BY <1>0, Tables
  <2> QED BY <1>0, <1>1, <2>1, <2>2, <2>3 DEF EventTyped, ghosts
<1>4. Published' = Published BY <1>0 DEF Published
<1>5. \A e \in Ids : e # x => broker'[e] = broker[e] BY <1>1, <1>2 DEF EventTyped, Counts
<1>6. Unknown' BY <1>0, <1>2, <1>4, <1>5 DEF EventInv, Unknown, tables, ghosts
<1>7. (\A p \in Processes : WorkFits(proc[p])') /\ ClaimsKept'
  BY <1>0, <1>4 DEF EventInv, WorkFits, ClaimsKept, Claimed, Holds, ghosts
<1>8. ASSUME NEW e \in Published
      PROVE  Remembered(e)' /\ NotLost(e)' /\ Explained(e)'
  <2>1. Remembered(e) /\ NotLost(e) /\ Explained(e) /\ e \in Ids /\ broker[e] \in Nat
    BY OfPublished
  <2>2. TooOld(e)' = TooOld(e) BY <1>0 DEF TooOld
  <2>3. InHand(e) => InHand(e)' BY <1>0, <1>1, <1>2, <1>5, <2>1 DEF InHand, EventTyped, Counts
  <2> QED BY <1>0, <2>1, <2>2, <2>3
      DEF Remembered, NotLost, Wanted, Explained, BeingRecorded, Recorded, tables, ghosts
<1> QED BY <1>3, <1>4, <1>6, <1>7, <1>8 DEF EventInv

LEMMA ReceiveKeeps ==
  ASSUME EventInv, NEW p \in Processes, NEW x \in Ids, NEW fresh \in BOOLEAN,
         Receive(p, x, fresh)
  PROVE  EventInv'
<1>0. UNCHANGED <<sent, notices, cutoff, tables, ghosts, eventLeft>> BY DEF Receive
<1>1. EventTyped BY DEF EventInv
<1> DEFINE w == [IdleProcess EXCEPT !.step = "received", !.event = x, !.fresh = fresh]
<1>2. /\ proc' = [proc EXCEPT ![p] = w] /\ proc[p].step = "idle"
      /\ broker' = [broker EXCEPT ![x] = @ - 1] /\ broker[x] > 0
  BY DEF Receive
<1>3. /\ w \in Work /\ w.step = "received" /\ w.event = x /\ w.batch = {} /\ ~w.got
  BY DEF IdleProcess, Work, EventSteps
<1> HIDE DEF w
<1>4. x \in Published BY <1>2 DEF EventInv, Unknown
<1>5. proc \in [Processes -> Work] /\ WorkFits(proc[p]) BY <1>1 DEF EventInv, EventTyped
<1>6. ~proc[p].got BY <1>2, <1>5 DEF WorkFits
<1>7. WorkFits(w) /\ Claimed(w) = {} BY <1>3, <1>4 DEF WorkFits, Claimed
<1>8. proc' \in [Processes -> Work] /\ \A q \in Processes : WorkFits(proc[q])'
  BY <1>0, <1>2, <1>3, <1>5, <1>7, FitsStill DEF EventInv
<1>9. ClaimsKept'
  <2>1. \A q \in Processes \ {p}, e \in Ids : Holds(q, e) \/ <<q, e>> \in overdue
                                         => Holds(q, e)' \/ <<q, e>> \in overdue'
    BY <1>0 DEF Holds, ghosts
  <2>2. Published \subseteq Ids /\ ClaimsKept /\ \A q \in Processes : WorkFits(proc[q])
    BY <1>1, PublishedIds DEF EventInv
  <2> QED BY <1>2, <1>3, <1>5, <1>7, <2>1, <2>2, ClaimsStill
<1>10. broker[x] - 1 \in Nat /\ broker \in Counts BY <1>1, <1>2 DEF EventTyped, Counts
<1>11. EventTyped'
  <2>1. broker' \in Counts BY <1>2, <1>10 DEF Counts
  <2>3. TablesTyped' BY <1>0, Tables
  <2> QED BY <1>0, <1>1, <1>8, <2>1, <2>3 DEF EventTyped, ghosts
<1>12. Published' = Published BY <1>0 DEF Published
<1>13. \A e \in Ids : e # x => broker'[e] = broker[e] BY <1>2, <1>10 DEF Counts
<1>14. Unknown' BY <1>0, <1>4, <1>12, <1>13 DEF EventInv, Unknown, tables, ghosts
<1>15. ASSUME NEW e \in Published
       PROVE  Remembered(e)' /\ NotLost(e)' /\ Explained(e)'
  <2>1. Remembered(e) /\ NotLost(e) /\ Explained(e) /\ e \in Ids BY OfPublished
  <2>2. TooOld(e)' = TooOld(e) BY <1>0 DEF TooOld
  <2>3. InHand(e) => InHand(e)'
    <3>1. CASE e = x
      <4>1. proc'[p].step = "received" /\ proc'[p].event = e BY <1>2, <1>3, <1>5, <3>1
      <4> QED BY <4>1 DEF InHand
    <3>2. CASE e # x
      <4>1. \A q \in Processes : q # p => proc'[q] = proc[q] BY <1>2, <1>5
      <4>2. broker'[e] = broker[e] BY <1>13, <2>1, <3>2
      <4> QED BY <1>2, <4>1, <4>2 DEF InHand
    <3> QED BY <3>1, <3>2
  <2>4. BeingRecorded(e)' = BeingRecorded(e) BY <1>2, <1>3, <1>5, <1>6, SameSenders
  <2> QED BY <1>0, <2>1, <2>2, <2>3, <2>4
      DEF Remembered, NotLost, Wanted, Explained, Recorded, tables, ghosts
<1> QED BY <1>8, <1>9, <1>11, <1>12, <1>14, <1>15 DEF EventInv

LEMMA AcknowledgeKeeps ==
  ASSUME EventInv, NEW p \in Processes, Acknowledge(p)
  PROVE  EventInv'
<1>0. UNCHANGED <<sent, broker, notices, cutoff, tables, ghosts, eventLeft>> BY DEF Acknowledge
<1>1. EventTyped BY DEF EventInv
<1>2. proc' = [proc EXCEPT ![p] = IdleProcess] /\ proc[p].step = "stored" BY DEF Acknowledge
<1>3. proc \in [Processes -> Work] /\ WorkFits(proc[p]) BY <1>1 DEF EventInv, EventTyped
<1>4. ~proc[p].got /\ ~IdleProcess.got BY <1>2, <1>3, Idle DEF WorkFits
<1>5. proc' \in [Processes -> Work] /\ \A q \in Processes : WorkFits(proc[q])'
  BY <1>0, <1>2, <1>3, Idle, FitsStill DEF EventInv
<1>6. ClaimsKept'
  <2>1. \A q \in Processes \ {p}, e \in Ids : Holds(q, e) \/ <<q, e>> \in overdue
                                         => Holds(q, e)' \/ <<q, e>> \in overdue'
    BY <1>0 DEF Holds, ghosts
  <2>2. Published \subseteq Ids /\ ClaimsKept /\ \A q \in Processes : WorkFits(proc[q])
    BY <1>1, PublishedIds DEF EventInv
  <2> QED BY <1>2, <1>3, <2>1, <2>2, Idle, ClaimsStill
<1>7. EventTyped'
  <2>1. TablesTyped' BY <1>0, Tables
  <2> QED BY <1>0, <1>1, <1>5, <2>1 DEF EventTyped, ghosts
<1>8. Published' = Published BY <1>0 DEF Published
<1>9. Unknown' BY <1>0, <1>8 DEF EventInv, Unknown, tables, ghosts
<1>10. ASSUME NEW e \in Published
       PROVE  Remembered(e)' /\ NotLost(e)' /\ Explained(e)'
  <2>1. Remembered(e) /\ NotLost(e) /\ Explained(e) /\ e \in Ids BY OfPublished
  <2>2. TooOld(e)' = TooOld(e) BY <1>0 DEF TooOld
  <2>3. InHand(e) => InHand(e)'
    <3>1. \A q \in Processes : proc[q].step = "received" => proc'[q] = proc[q] BY <1>2, <1>3
    <3> QED BY <1>0, <3>1 DEF InHand
  <2>4. BeingRecorded(e)' = BeingRecorded(e) BY <1>2, <1>3, <1>4, SameSenders
  <2> QED BY <1>0, <2>1, <2>2, <2>3, <2>4
      DEF Remembered, NotLost, Wanted, Explained, Recorded, tables, ghosts
<1> QED BY <1>5, <1>6, <1>7, <1>8, <1>9, <1>10 DEF EventInv

\* A step that neither a process nor the broker has a part in.
LEMMA OutsideKeeps ==
  ASSUME EventInv, UNCHANGED <<sent, broker, proc, kept, queued, ghosts>>,
         EventTyped',
         \A e \in Ids \ Published : notices'[e].status = "none",
         \A q \in Processes, e \in Ids : Holds(q, e) => Holds(q, e)',
         \A e \in Published : TooOld(e) => TooOld(e)',
         \A e \in Published : Remembered(e)' /\ Recorded(e)' = Recorded(e)
  PROVE  EventInv'
<1>1. EventTyped BY DEF EventInv
<1>2. Published' = Published /\ Published \subseteq Ids BY <1>1, PublishedIds DEF Published
<1>3. Unknown' BY <1>2 DEF EventInv, Unknown, ghosts
<1>4. \A p \in Processes : WorkFits(proc[p])' BY <1>2 DEF EventInv, WorkFits
<1>5. ClaimsKept'
  <2>1. ASSUME NEW p \in Processes, NEW e \in Claimed(proc[p])
        PROVE  Holds(p, e)' \/ <<p, e>> \in overdue'
    <3>1. e \in Ids BY <1>2, <2>1 DEF EventInv, WorkFits, Claimed
    <3>2. Holds(p, e) \/ <<p, e>> \in overdue BY <2>1 DEF EventInv, ClaimsKept
    <3> QED BY <3>1, <3>2 DEF ghosts
  <2> QED BY <2>1 DEF ClaimsKept, Claimed
<1>6. ASSUME NEW e \in Published
      PROVE  NotLost(e)' /\ Explained(e)'
  <2>1. NotLost(e) /\ Explained(e) BY OfPublished
  <2>2. InHand(e)' = InHand(e) /\ BeingRecorded(e)' = BeingRecorded(e)
    BY DEF InHand, BeingRecorded
  <2>3. (TooOld(e) => TooOld(e)') /\ Recorded(e)' = Recorded(e) OBVIOUS
  <2> QED BY <2>1, <2>2, <2>3 DEF NotLost, Wanted, Explained, ghosts
<1> QED BY <1>2, <1>3, <1>4, <1>5, <1>6 DEF EventInv

LEMMA OverdueKeeps ==
  ASSUME EventInv, NEW x \in Ids, Overdue(x)
  PROVE  EventInv'
<1>0. UNCHANGED <<sent, broker, cutoff, proc, tables, ghosts>> BY DEF Overdue
<1>1. EventTyped BY DEF EventInv
<1>2. notices' = [notices EXCEPT ![x].old = TRUE] BY DEF Overdue
<1>3. notices \in [Ids -> Notices] BY <1>1 DEF EventTyped
<1>4. /\ notices' \in [Ids -> Notices]
      /\ \A e \in Ids : /\ notices'[e].status = notices[e].status
                        /\ notices'[e].owner = notices[e].owner
  BY <1>2, <1>3 DEF Notices
<1>5. EventTyped'
  <2>1. eventLeft' \in [gone : Nat, overdue : Nat] BY <1>1 DEF EventTyped, Overdue
  <2>2. TablesTyped' BY <1>0, Tables
  <2> QED BY <1>0, <1>1, <1>4, <2>1, <2>2 DEF EventTyped, ghosts
<1>6. \A e \in Ids \ Published : notices'[e].status = "none" BY <1>4 DEF EventInv, Unknown
<1>7. \A q \in Processes, e \in Ids : Holds(q, e) => Holds(q, e)' BY <1>4 DEF Holds
<1>8. \A e \in Published : TooOld(e) => TooOld(e)' BY <1>0 DEF TooOld
<1>9. ASSUME NEW e \in Published
      PROVE  Remembered(e)' /\ Recorded(e)' = Recorded(e)
  <2>1. Remembered(e) /\ e \in Ids BY OfPublished
  <2>2. notices'[e].status = notices[e].status BY <1>4, <2>1
  <2>3. TooOld(e)' = TooOld(e) BY <1>0 DEF TooOld
  <2> QED BY <1>0, <2>1, <2>2, <2>3 DEF Remembered, Wanted, Recorded, tables
<1> QED BY <1>0, <1>5, <1>6, <1>7, <1>8, <1>9, OutsideKeeps DEF tables

\* The history is pruned together with its boundary: what it forgets is too old to come again.
LEMMA PruneHistoryKeeps ==
  ASSUME EventInv, NEW k \in Kinds_, NEW day \in Days, PruneHistory(k, day)
  PROVE  EventInv'
<1>0. UNCHANGED <<sent, broker, notices, diagnostics, position, ports, proc, kept, queued, ghosts,
                  eventLeft>>
  BY DEF PruneHistory
<1>1. EventTyped BY DEF EventInv
<1>2. /\ day > cutoff[k] /\ cutoff' = [cutoff EXCEPT ![k] = day]
      /\ history' = {e \in history : sent[e].kind # k \/ sent[e].day >= day}
  BY DEF PruneHistory
<1>3. cutoff \in [Kinds_ -> Days] /\ Days \subseteq Nat BY <1>1 DEF EventTyped, Days
<1>4. EventTyped'
  <2>1. cutoff' \in [Kinds_ -> Days] BY <1>2, <1>3
  <2>2. TablesTyped' BY <1>0, <1>1, <1>2 DEF EventTyped, TablesTyped, Published
  <2> QED BY <1>0, <1>1, <2>1, <2>2 DEF EventTyped, ghosts
<1>5. \A e \in Ids \ Published : notices'[e].status = "none" BY <1>0 DEF EventInv, Unknown
<1>6. \A q \in Processes, e \in Ids : Holds(q, e) => Holds(q, e)' BY <1>0 DEF Holds
<1>7. ASSUME NEW e \in Published
      PROVE  /\ TooOld(e) => TooOld(e)'
             /\ e \in history => e \in history' \/ TooOld(e)'
  <2>1. sent[e].kind \in Kinds_ /\ sent[e].day \in Nat BY <1>1, ShapeFields DEF EventTyped
  <2>2. cutoff'[sent[e].kind] = IF sent[e].kind = k THEN day ELSE cutoff[sent[e].kind]
    BY <1>2, <1>3, <2>1
  <2>3. cutoff[sent[e].kind] \in Nat /\ day \in Nat /\ cutoff[k] \in Nat BY <1>3, <2>1
  <2> QED BY <1>0, <1>2, <2>1, <2>2, <2>3 DEF TooOld
<1>8. ASSUME NEW e \in Published
      PROVE  Remembered(e)' /\ Recorded(e)' = Recorded(e)
  <2>1. Remembered(e) BY OfPublished
  <2>2. (TooOld(e) => TooOld(e)') /\ (e \in history => e \in history' \/ TooOld(e)') BY <1>7
  <2>3. history' \subseteq history BY <1>2
  <2> QED BY <1>0, <2>1, <2>2, <2>3 DEF Remembered, Wanted, Recorded
<1> QED BY <1>0, <1>4, <1>5, <1>6, <1>7, <1>8, OutsideKeeps

LEMMA PruneDiagnosticsKeeps ==
  ASSUME EventInv, NEW x \in Ids, PruneDiagnostics(x)
  PROVE  EventInv'
<1>0. UNCHANGED <<sent, broker, history, notices, position, ports, cutoff, proc, kept, queued,
                  ghosts, eventLeft>>
  BY DEF PruneDiagnostics
<1>1. EventTyped BY DEF EventInv
<1>2. diagnostics' = diagnostics \ {x} BY DEF PruneDiagnostics
<1>3. EventTyped'
  <2>1. TablesTyped' BY <1>0, <1>1, <1>2 DEF EventTyped, TablesTyped, Published
  <2> QED BY <1>0, <1>1, <2>1 DEF EventTyped, ghosts
<1>4. \A e \in Ids \ Published : notices'[e].status = "none" BY <1>0 DEF EventInv, Unknown
<1>5. \A q \in Processes, e \in Ids : Holds(q, e) => Holds(q, e)' BY <1>0 DEF Holds
<1>6. \A e \in Published : TooOld(e)' = TooOld(e) BY <1>0 DEF TooOld
<1>7. ASSUME NEW e \in Published
      PROVE  Remembered(e)' /\ Recorded(e)' = Recorded(e)
  <2>1. Remembered(e) /\ TooOld(e)' = TooOld(e) BY <1>6, OfPublished
  <2> QED BY <1>0, <1>2, <2>1 DEF Remembered, Wanted, Recorded
<1> QED BY <1>0, <1>3, <1>4, <1>5, <1>6, <1>7, OutsideKeeps

\* A delivered notification is forgotten only once its event is too old.
LEMMA PruneNoticesKeeps ==
  ASSUME EventInv, NEW k \in Kinds_, PruneNotices(k)
  PROVE  EventInv'
<1>0. UNCHANGED <<sent, broker, cutoff, proc, tables, ghosts, eventLeft>> BY DEF PruneNotices
<1>1. EventTyped BY DEF EventInv
<1> DEFINE gone == {e \in Published : /\ notices[e].status = "delivered"
                                      /\ sent[e].kind = k /\ TooOld(e)}
<1>2. notices' = [e \in Ids |-> IF e \in gone THEN NoNotice ELSE notices[e]]
  BY DEF PruneNotices
<1>3. NoNotice \in Notices /\ NoNotice.status = "none" BY DEF NoNotice, Notices
<1>4. notices \in [Ids -> Notices] /\ notices' \in [Ids -> Notices]
  BY <1>1, <1>2, <1>3 DEF EventTyped
<1>5. \A e \in Ids : \/ notices'[e] = notices[e]
                     \/ /\ notices[e].status = "delivered" /\ TooOld(e)
                        /\ notices'[e].status = "none"
  BY <1>2, <1>3
<1>6. EventTyped'
  <2>1. TablesTyped' BY <1>0, Tables
  <2> QED BY <1>0, <1>1, <1>4, <2>1 DEF EventTyped, ghosts
<1>7. \A e \in Ids \ Published : notices'[e].status = "none" BY <1>5 DEF EventInv, Unknown
<1>8. \A q \in Processes, e \in Ids : Holds(q, e) => Holds(q, e)' BY <1>5 DEF Holds
<1>9. \A e \in Published : TooOld(e)' = TooOld(e) BY <1>0 DEF TooOld
<1>10. ASSUME NEW e \in Published
       PROVE  Remembered(e)' /\ Recorded(e)' = Recorded(e)
  <2>1. Remembered(e) /\ e \in Ids /\ TooOld(e)' = TooOld(e) BY <1>9, OfPublished
  <2>2. CASE notices'[e] = notices[e]
    BY <1>0, <2>1, <2>2 DEF Remembered, Wanted, Recorded, tables
  <2>3. CASE notices[e].status = "delivered" /\ TooOld(e) /\ notices'[e].status = "none"
    BY <1>0, <2>1, <2>3 DEF Remembered, Wanted, Recorded, tables
  <2> QED BY <1>5, <2>1, <2>2, <2>3
<1> QED BY <1>0, <1>6, <1>7, <1>8, <1>9, <1>10, OutsideKeeps DEF tables

\* What the transaction writes of an event that is stored.
Written(e) ==
    /\ \/ kept' = kept /\ history' = history /\ sent[e].kind # "status"
       \/ kept' = [kept EXCEPT ![e] = @ + 1] /\ history' = history \cup {e}
    /\ diagnostics' \in {diagnostics, diagnostics \cup {e}}
    /\ position' = IF Advances(e) THEN e ELSE position
    /\ ports' = ports \/ (Advances(e) /\ ports' = e)
    /\ Wanted(e) => EnqueueNotice(e)
    /\ ~Wanted(e) => NoNotification

LEMMA StoreWrites ==
  ASSUME NEW e, NEW fresh, StoreStatus(e) \/ StoreScan(e, fresh)
  PROVE  Written(e)
<1>1. \/ kept' = kept /\ history' = history /\ sent[e].kind # "status"
      \/ kept' = [kept EXCEPT ![e] = @ + 1] /\ history' = history \cup {e}
  BY DEF StoreStatus, StoreScan
<1>2. diagnostics' \in {diagnostics, diagnostics \cup {e}}
  BY DEF StoreStatus, StoreScan
<1>3. position' = IF Advances(e) THEN e ELSE position
  BY DEF StoreStatus, StoreScan
<1>4. ports' = ports \/ (Advances(e) /\ ports' = e)
  BY DEF StoreStatus, StoreScan
<1>5. CASE StoreStatus(e)
  <2>1. Wanted(e) <=> sent[e].notify BY <1>5 DEF StoreStatus, Wanted
  <2>2. CASE sent[e].notify
    <3>1. EnqueueNotice(e) BY <1>5, <2>2 DEF StoreStatus
    <3> QED BY <1>1, <1>2, <1>3, <1>4, <2>1, <2>2, <3>1 DEF Written
  <2>3. CASE ~sent[e].notify
    <3>1. NoNotification BY <1>5, <2>3 DEF StoreStatus
    <3> QED BY <1>1, <1>2, <1>3, <1>4, <2>1, <2>3, <3>1 DEF Written
  <2> QED BY <2>2, <2>3
<1>6. CASE StoreScan(e, fresh)
  <2>1. Wanted(e) <=> sent[e].changed /\ sent[e].notify BY <1>6 DEF StoreScan, Wanted
  <2>2. CASE sent[e].changed /\ sent[e].notify
    <3>1. EnqueueNotice(e) BY <1>6, <2>2 DEF StoreScan
    <3> QED BY <1>1, <1>2, <1>3, <1>4, <2>1, <2>2, <3>1 DEF Written
  <2>3. CASE ~(sent[e].changed /\ sent[e].notify)
    <3>1. NoNotification BY <1>6, <2>3 DEF StoreScan
    <3> QED BY <1>1, <1>2, <1>3, <1>4, <2>1, <2>3, <3>1 DEF Written
  <2> QED BY <2>2, <2>3
<1> QED BY <1>5, <1>6

\* An event that is neither known nor too old was never written.
LEMMA NeverWritten ==
  ASSUME EventInv, NEW e \in Published, ~TooOld(e), ~Known(e)
  PROVE  kept[e] = 0 /\ queued[e] = 0 /\ notices[e].status = "none"
<1>1. /\ Remembered(e) /\ kept[e] \in Nat /\ queued[e] \in Nat /\ sent[e].kind \in Kinds_
  BY OfPublished
<1>2. kept[e] = 0 BY <1>1 DEF Remembered, Known
<1>3. queued[e] = 0 BY <1>1, <1>2 DEF Remembered, Known, Kinds_
<1> QED BY <1>1, <1>2, <1>3 DEF Remembered

\* One that is known was notified, if it was to be.
LEMMA KnownNotified ==
  ASSUME EventInv, NEW e \in Published, Known(e), Wanted(e)
  PROVE  queued[e] = 1
<1>1. Remembered(e) BY OfPublished
<1> QED BY <1>1 DEF Remembered, Known

LEMMA WrittenTyped ==
  ASSUME EventTyped, sent' = sent, NEW e \in Published, Written(e)
  PROVE  TablesTyped' /\ notices' \in [Ids -> Notices]
<1>1. e \in Ids /\ Published = 1..Len(sent) /\ Len(sent) \in Nat BY PublishedIds
<1>2. Published' = Published BY DEF Published
<1>3. /\ history \subseteq Published /\ diagnostics \subseteq Published
      /\ position \in 0..Len(sent) /\ ports \in 0..position
      /\ kept \in Counts /\ queued \in Counts
      /\ notices \in [Ids -> Notices]
  BY DEF EventTyped, TablesTyped
<1>4. kept' \in Counts BY <1>1, <1>3 DEF Written, Counts
<1>5. queued' \in Counts
  BY <1>1, <1>3 DEF Written, EnqueueNotice, NoNotification, Counts
<1>6. notices' \in [Ids -> Notices]
  <2>1. [notices[e] EXCEPT !.status = "pending"] \in Notices BY <1>1, <1>3 DEF Notices
  <2> QED BY <1>1, <1>3, <2>1 DEF Written, EnqueueNotice, NoNotification
<1>7. history' \subseteq Published /\ diagnostics' \subseteq Published BY <1>3 DEF Written
<1>8. position' \in 0..Len(sent) /\ ports' \in 0..position'
  BY <1>1, <1>3 DEF Written, Advances
<1> QED BY <1>2, <1>4, <1>5, <1>6, <1>7, <1>8 DEF TablesTyped

LEMMA StoreKeeps ==
  ASSUME EventInv, NEW p \in Processes, Store(p)
  PROVE  EventInv'
<1>0. UNCHANGED <<sent, broker, cutoff, ghosts, eventLeft>> BY DEF Store
<1>1. EventTyped BY DEF EventInv
<1> DEFINE w == [proc[p] EXCEPT !.step = "stored", !.fresh = FALSE]
<1>2. proc' = [proc EXCEPT ![p] = w] /\ proc[p].step = "received" BY DEF Store
<1>3. proc \in [Processes -> Work] /\ proc[p] \in Work /\ WorkFits(proc[p])
  BY <1>1 DEF EventInv, EventTyped
<1>4. PICK e \in Published : e = proc[p].event BY <1>2, <1>3 DEF WorkFits
<1>a. ~proc[p].got /\ proc[p].batch = {} BY <1>2, <1>3 DEF WorkFits
<1>5. w \in Work /\ w.step = "stored" /\ w.event = e /\ w.batch = {} /\ ~w.got
  BY <1>3, <1>4, <1>a DEF Work, EventSteps
<1> HIDE DEF w
<1>6. WorkFits(w) /\ Claimed(w) = {} BY <1>4, <1>5 DEF WorkFits, Claimed
<1>7. proc' \in [Processes -> Work] /\ \A q \in Processes : WorkFits(proc[q])'
  BY <1>0, <1>2, <1>3, <1>5, <1>6, FitsStill DEF EventInv
<1>8. Published' = Published /\ Published \subseteq Ids BY <1>0, <1>1, PublishedIds DEF Published
<1>9. \/ (TooOld(e) \/ Known(e)) /\ UNCHANGED <<tables, notices>>
      \/ ~TooOld(e) /\ ~Known(e) /\ Written(e)
  <2>1. CASE TooOld(e) \/ Known(e) BY <1>4, <2>1 DEF Store
  <2>2. CASE ~(TooOld(e) \/ Known(e))
    <3>1. StoreStatus(e) \/ StoreScan(e, proc[p].fresh) BY <1>4, <2>2 DEF Store
    <3> QED BY <2>2, <3>1, StoreWrites
  <2> QED BY <2>1, <2>2
<1>10. TablesTyped' /\ notices' \in [Ids -> Notices]
  <2>1. CASE UNCHANGED <<tables, notices>> BY <1>0, <1>1, <2>1, Tables DEF EventTyped
  <2>2. CASE Written(e) BY <1>0, <1>1, <1>4, <2>2, WrittenTyped
  <2> QED BY <1>9, <2>1, <2>2
<1>11. EventTyped' BY <1>0, <1>1, <1>7, <1>10 DEF EventTyped, ghosts
<1>12. \A x \in Ids : x # e => /\ kept'[x] = kept[x] /\ queued'[x] = queued[x]
                               /\ notices'[x] = notices[x]
                               /\ x \in history' <=> x \in history
                               /\ x \in diagnostics' <=> x \in diagnostics
                               /\ position' = x => position = x
  BY <1>1, <1>9 DEF Written, EnqueueNotice, NoNotification, EventTyped, TablesTyped, Counts, tables
<1>13. Unknown' BY <1>0, <1>4, <1>8, <1>12 DEF EventInv, Unknown, ghosts
<1>14. notices'[e] = notices[e] \/ notices[e].status = "none"
  BY <1>4, <1>9, NeverWritten DEF tables
<1>15. ClaimsKept'
  <2>1. \A q \in Processes \ {p}, x \in Ids : Holds(q, x) \/ <<q, x>> \in overdue
                                         => Holds(q, x)' \/ <<q, x>> \in overdue'
    BY <1>0, <1>12, <1>14 DEF Holds, ghosts
  <2>2. ClaimsKept /\ \A q \in Processes : WorkFits(proc[q]) BY DEF EventInv
  <2> QED BY <1>2, <1>3, <1>5, <1>6, <1>8, <2>1, <2>2, ClaimsStill
<1>16. ASSUME NEW x \in Published, x # e
       PROVE  Remembered(x)' /\ NotLost(x)' /\ Explained(x)'
  <2>1. Remembered(x) /\ NotLost(x) /\ Explained(x) /\ x \in Ids BY OfPublished
  <2>2. TooOld(x)' = TooOld(x) BY <1>0 DEF TooOld
  <2>3. InHand(x) => InHand(x)'
    <3>1. \A q \in Processes : proc[q].step = "received" /\ proc[q].event = x => proc'[q] = proc[q]
      BY <1>2, <1>3, <1>4, <1>16
    <3> QED BY <1>0, <3>1 DEF InHand
  <2>4. BeingRecorded(x)' = BeingRecorded(x) BY <1>2, <1>3, <1>a, <1>5, SameSenders
  <2>5. Remembered(x)' BY <1>0, <1>12, <1>16, <2>1, <2>2 DEF Remembered, Wanted
  <2>6. NotLost(x)' BY <1>0, <1>12, <1>16, <2>1, <2>2, <2>3 DEF NotLost, Wanted
  <2>7. Explained(x)' BY <1>0, <1>12, <1>16, <2>1, <2>4 DEF Explained, Recorded, ghosts
  <2> QED BY <2>5, <2>6, <2>7
<1>17. Remembered(e)' /\ NotLost(e)' /\ Explained(e)'
  <2>0. /\ Remembered(e) /\ NotLost(e) /\ Explained(e) /\ e \in Ids
        /\ kept[e] \in Nat /\ queued[e] \in Nat
    BY <1>4, OfPublished
  <2>1. TooOld(e)' = TooOld(e) BY <1>0 DEF TooOld
  <2>2. BeingRecorded(e)' = BeingRecorded(e) BY <1>2, <1>3, <1>a, <1>5, SameSenders
  <2>3. Wanted(e)' = Wanted(e) BY <1>0 DEF Wanted
  <2>4. CASE (TooOld(e) \/ Known(e)) /\ UNCHANGED <<tables, notices>>
    <3>1. Remembered(e)' BY <1>0, <2>0, <2>1, <2>4 DEF Remembered, Wanted, tables
    <3>2. NotLost(e)'
      <4>1. queued'[e] = queued[e] BY <2>4 DEF tables
      <4>2. CASE TooOld(e) BY <2>1, <4>2 DEF NotLost
      <4>3. CASE Known(e)
        <5>1. Wanted(e) => queued[e] = 1 BY <1>4, <4>3, KnownNotified
        <5> QED BY <2>3, <4>1, <5>1 DEF NotLost
      <4> QED BY <2>4, <4>2, <4>3
    <3>3. Explained(e)' BY <1>0, <2>0, <2>2, <2>4 DEF Explained, Recorded, ghosts, tables
    <3> QED BY <3>1, <3>2, <3>3
  <2>5. CASE ~TooOld(e) /\ ~Known(e) /\ Written(e)
    <3>1. kept[e] = 0 /\ queued[e] = 0 /\ notices[e].status = "none"
      BY <1>4, <2>5, NeverWritten
    <3>2. /\ queued'[e] = IF Wanted(e) THEN 1 ELSE 0
          /\ notices'[e].status = IF Wanted(e) THEN "pending" ELSE "none"
      BY <1>1, <2>0, <2>5, <3>1
      DEF Written, EnqueueNotice, NoNotification, EventTyped, TablesTyped, Counts, Notices
    <3>3. \/ kept'[e] = 0 /\ sent[e].kind # "status"
          \/ kept'[e] = 1 /\ e \in history'
      BY <1>1, <2>0, <2>5, <3>1 DEF Written, EventTyped, TablesTyped, Counts
    <3>4. Remembered(e)' BY <1>0, <2>3, <3>2, <3>3 DEF Remembered
    <3>5. NotLost(e)' BY <2>3, <3>2 DEF NotLost
    <3>6. Recorded(e)' = 0 /\ Recorded(e) = 0 BY <3>1, <3>2 DEF Recorded
    <3>7. Explained(e)' BY <1>0, <2>0, <2>2, <3>6 DEF Explained, ghosts
    <3> QED BY <3>4, <3>5, <3>7
  <2> QED BY <1>9, <2>4, <2>5
<1> QED BY <1>7, <1>8, <1>11, <1>13, <1>15, <1>16, <1>17 DEF EventInv

\* A claim takes the rows over from whoever has held them for too long.
LEMMA ClaimKeeps ==
  ASSUME EventInv, NEW p \in Processes, NEW batch \in SUBSET Ids, ClaimNotices(p, batch)
  PROVE  EventInv'
<1>0. UNCHANGED <<sent, broker, cutoff, tables, received, unrecorded, eventLeft>>
  BY DEF ClaimNotices
<1>1. EventTyped BY DEF EventInv
<1> DEFINE w == [IdleProcess EXCEPT !.step = "sending", !.batch = batch]
           taken == [status |-> "processing", owner |-> p, old |-> FALSE]
<1>2. /\ proc' = [proc EXCEPT ![p] = w] /\ proc[p].step = "idle"
      /\ \A e \in batch : Eligible(e)
      /\ notices' = [e \in Ids |-> IF e \in batch THEN taken ELSE notices[e]]
      /\ overdue' = overdue \cup {<<notices[e].owner, e>> :
                                      e \in {n \in batch : notices[n].status = "processing"}}
  BY DEF ClaimNotices
<1>3. taken \in Notices /\ taken.status = "processing" /\ taken.owner = p BY DEF Notices
<1>4. w \in Work /\ w.step = "sending" /\ w.batch = batch /\ ~w.got
  BY DEF IdleProcess, Work, EventSteps
<1> HIDE DEF w, taken
<1>5. notices \in [Ids -> Notices] /\ notices' \in [Ids -> Notices]
  BY <1>1, <1>2, <1>3 DEF EventTyped
<1>6. \A e \in Ids : IF e \in batch THEN notices'[e] = taken ELSE notices'[e] = notices[e]
  BY <1>2
<1>7. \A e \in batch : notices[e].status \in {"pending", "failed", "processing"}
  BY <1>2 DEF Eligible
<1>8. batch \subseteq Published BY <1>7 DEF EventInv, Unknown
<1>9. proc \in [Processes -> Work] /\ WorkFits(proc[p]) BY <1>1 DEF EventInv, EventTyped
<1>10. ~proc[p].got BY <1>2, <1>9 DEF WorkFits
<1>11. WorkFits(w) /\ Claimed(w) = batch BY <1>4, <1>8 DEF WorkFits, Claimed
<1>12. proc' \in [Processes -> Work] /\ \A q \in Processes : WorkFits(proc[q])'
  BY <1>0, <1>2, <1>4, <1>9, <1>11, FitsStill DEF EventInv
<1>13. Published' = Published /\ Published \subseteq Ids BY <1>0, <1>1, PublishedIds DEF Published
<1>14. ClaimsKept'
  <2>1. ASSUME NEW q \in Processes \ {p}, NEW e \in Ids, Holds(q, e) \/ <<q, e>> \in overdue
        PROVE  Holds(q, e)' \/ <<q, e>> \in overdue'
    <3>1. CASE <<q, e>> \in overdue BY <1>2, <3>1
    <3>2. CASE Holds(q, e) /\ e \in batch
      <4>1. notices[e].status = "processing" /\ notices[e].owner = q BY <3>2 DEF Holds
      <4> QED BY <1>2, <3>2, <4>1
    <3>3. CASE Holds(q, e) /\ e \notin batch BY <1>6, <3>3 DEF Holds
    <3> QED BY <2>1, <3>1, <3>2, <3>3
  <2>2. \A e \in Claimed(w) : Holds(p, e)' \/ <<p, e>> \in overdue'
    BY <1>3, <1>6, <1>8, <1>11, <1>13 DEF Holds
  <2>3. ClaimsKept /\ \A q \in Processes : WorkFits(proc[q]) BY DEF EventInv
  <2> QED BY <1>2, <1>4, <1>9, <1>13, <2>1, <2>2, <2>3, ClaimsStill
<1>15. EventTyped'
  <2>1. overdue' \subseteq (Processes \cup {NoProcess}) \X Ids
    <3>1. \A e \in batch : notices[e].owner \in Processes \cup {NoProcess}
      BY <1>5, NoticeFields
    <3> QED BY <1>1, <1>2, <3>1 DEF EventTyped
  <2>2. TablesTyped' BY <1>0, Tables
  <2> QED BY <1>0, <1>1, <1>5, <1>12, <2>1, <2>2 DEF EventTyped
<1>16. Unknown' BY <1>0, <1>6, <1>8, <1>13 DEF EventInv, Unknown, tables
<1>17. ASSUME NEW e \in Published
       PROVE  Remembered(e)' /\ NotLost(e)' /\ Explained(e)'
  <2>1. Remembered(e) /\ NotLost(e) /\ Explained(e) /\ e \in Ids BY OfPublished
  <2>2. TooOld(e)' = TooOld(e) BY <1>0 DEF TooOld
  <2>3. InHand(e) => InHand(e)'
    <3>1. \A q \in Processes : proc[q].step = "received" => proc'[q] = proc[q] BY <1>2, <1>9
    <3> QED BY <1>0, <3>1 DEF InHand
  <2>4. BeingRecorded(e)' = BeingRecorded(e) BY <1>2, <1>4, <1>9, <1>10, SameSenders
  <2>5. \/ notices'[e] = notices[e]
        \/ /\ notices[e].status \in {"pending", "failed", "processing"}
           /\ notices'[e].status = "processing"
    BY <1>3, <1>6, <1>7, <2>1
  <2>6. Remembered(e)' BY <1>0, <2>1, <2>2, <2>5 DEF Remembered, Wanted, tables
  <2>7. NotLost(e)' BY <1>0, <2>1, <2>2, <2>3 DEF NotLost, Wanted, tables
  <2>8. Recorded(e)' = Recorded(e) BY <1>0, <2>5 DEF Recorded, tables
  <2>9. Explained(e)' BY <1>0, <2>1, <2>4, <2>8 DEF Explained
  <2> QED BY <2>6, <2>7, <2>9
<1> QED BY <1>12, <1>13, <1>14, <1>15, <1>16, <1>17 DEF EventInv

\* The batch has a first notification.
LEMMA NextNotice ==
  ASSUME NEW batch \in SUBSET Ids, batch # {}
  PROVE  (CHOOSE n \in batch : \A m \in batch : n <= m) \in batch
<1> DEFINE R == OpToRel(<, Nat)
<1>1. batch \subseteq Nat BY EventAssumption DEF Ids
<1>2. IsWellFoundedOn(R, Nat) BY NatLessThanWellFounded
<1>3. PICK x \in batch : \A y \in batch : ~(<<y, x>> \in R)
  <2> HIDE DEF R
  <2> QED BY <1>1, <1>2, WFMin
<1>4. \A u, v \in Nat : <<v, u>> \in R <=> v < u BY DEF OpToRel
<1>5. \A m \in batch : x <= m
  <2> SUFFICES ASSUME NEW m \in batch PROVE x <= m OBVIOUS
  <2> HIDE DEF R
  <2>1. ~(<<m, x>> \in R) BY <1>3
  <2>2. x \in Nat /\ m \in Nat BY <1>1, <1>3
  <2> QED BY <1>4, <2>1, <2>2
<1> QED BY <1>5

\* One more process is sending, or one less.
LEMMA SenderMore ==
  ASSUME NEW e, NEW p \in Processes, ~proc[p].got, proc \in [Processes -> Work],
         NEW w, proc' = [proc EXCEPT ![p] = w], w.event = e, w.got
  PROVE  Cardinality(BeingRecorded(e)') = Cardinality(BeingRecorded(e)) + 1
<1>1. BeingRecorded(e)' = BeingRecorded(e) \cup {p} BY DEF BeingRecorded
<1>2. p \notin BeingRecorded(e) BY DEF BeingRecorded
<1>3. IsFiniteSet(BeingRecorded(e)) BY SendersFinite
<1> DEFINE S == BeingRecorded(e)
<1>4. Cardinality(S \cup {p}) = Cardinality(S) + 1
  <2> HIDE DEF S
  <2> QED BY <1>2, <1>3, FS_AddElement DEF S
<1> QED BY <1>1, <1>4

LEMMA SenderLess ==
  ASSUME NEW e, NEW p \in Processes, proc[p].got, proc[p].event = e, proc \in [Processes -> Work],
         NEW w, proc' = [proc EXCEPT ![p] = w], ~w.got
  PROVE  Cardinality(BeingRecorded(e)) = Cardinality(BeingRecorded(e)') + 1
<1>1. BeingRecorded(e)' = BeingRecorded(e) \ {p} BY DEF BeingRecorded
<1>2. p \in BeingRecorded(e) BY DEF BeingRecorded
<1>3. IsFiniteSet(BeingRecorded(e)) /\ Cardinality(BeingRecorded(e)) \in Nat BY SendersFinite
<1> DEFINE S == BeingRecorded(e)
<1>4. Cardinality(S \ {p}) = Cardinality(S) - 1
  <2> HIDE DEF S
  <2> QED BY <1>2, <1>3, FS_RemoveElement DEF S
<1> QED BY <1>1, <1>3, <1>4

\* An event that the process is not at.
LEMMA OtherSenders ==
  ASSUME NEW e, NEW p \in Processes, proc \in [Processes -> Work],
         NEW w, proc' = [proc EXCEPT ![p] = w],
         ~(proc[p].got /\ proc[p].event = e), ~(w.got /\ w.event = e)
  PROVE  BeingRecorded(e)' = BeingRecorded(e)
BY DEF BeingRecorded

\* The copy that reaches the user is on its record while its process has it in hand.
LEMMA SendKeeps ==
  ASSUME EventInv, NEW p \in Processes, NEW got \in BOOLEAN, NEW answered \in BOOLEAN,
         SendNotice(p, got, answered)
  PROVE  EventInv'
<1>0. UNCHANGED <<sent, broker, notices, cutoff, tables, unrecorded, overdue>> BY DEF SendNotice
<1>1. EventTyped BY DEF EventInv
<1>2. proc \in [Processes -> Work] /\ proc[p] \in Work /\ WorkFits(proc[p])
  BY <1>1 DEF EventInv, EventTyped
<1>3. proc[p].step = "sending" /\ proc[p].batch # {} /\ proc[p].batch \in SUBSET Ids
  BY <1>2, WorkFields DEF SendNotice
<1>4. PICK n \in proc[p].batch : n = CHOOSE k \in proc[p].batch : \A m \in proc[p].batch : k <= m
  BY <1>3, NextNotice
<1> DEFINE w == [proc[p] EXCEPT !.step = IF answered THEN "succeeded" ELSE "failed",
                                !.event = n, !.batch = @ \ {n}, !.got = got]
<1>5. /\ proc' = [proc EXCEPT ![p] = w]
      /\ received' = [received EXCEPT ![n] = @ + IF got THEN 1 ELSE 0]
      /\ eventLeft' = [eventLeft EXCEPT !.gone = @ - IF answered THEN 0 ELSE 1]
      /\ answered \/ eventLeft.gone > 0
  <2> DEFINE e == CHOOSE k \in proc[p].batch : \A m \in proc[p].batch : k <= m
  <2>1. /\ proc' = [proc EXCEPT ![p].step = IF answered THEN "succeeded" ELSE "failed",
                                ![p].event = e, ![p].batch = @ \ {e}, ![p].got = got]
        /\ received' = [received EXCEPT ![e] = @ + IF got THEN 1 ELSE 0]
        /\ eventLeft' = [eventLeft EXCEPT !.gone = @ - IF answered THEN 0 ELSE 1]
        /\ answered \/ eventLeft.gone > 0
    BY DEF SendNotice
  <2>2. e = n BY <1>4
  <2> HIDE DEF e
  <2>3. proc' = [proc EXCEPT ![p] = w] BY <1>2, <2>1, <2>2
  <2> QED BY <2>1, <2>2, <2>3
<1>6. /\ w \in Work /\ w.step \in {"succeeded", "failed"} /\ w.event = n
      /\ w.batch = proc[p].batch \ {n} /\ w.got = got
  BY <1>2, <1>3, <1>4 DEF Work, EventSteps
<1> HIDE DEF w
<1>7. n \in Published /\ n \in Ids BY <1>2, <1>3, <1>4 DEF WorkFits
<1>8. ~proc[p].got BY <1>2, <1>3 DEF WorkFits
<1>9. WorkFits(w) /\ Claimed(w) = proc[p].batch BY <1>2, <1>4, <1>6, <1>7 DEF WorkFits, Claimed
<1>10. proc' \in [Processes -> Work] /\ \A q \in Processes : WorkFits(proc[q])'
  BY <1>0, <1>2, <1>5, <1>6, <1>9, FitsStill DEF EventInv
<1>11. Published' = Published /\ Published \subseteq Ids BY <1>0, <1>1, PublishedIds DEF Published
<1>12. ClaimsKept'
  <2>1. \A q \in Processes, e \in Ids : /\ Holds(q, e)' = Holds(q, e)
                                        /\ <<q, e>> \in overdue' <=> <<q, e>> \in overdue
    BY <1>0 DEF Holds
  <2>2. \A e \in Claimed(w) : Holds(p, e) \/ <<p, e>> \in overdue
    BY <1>9 DEF EventInv, ClaimsKept, Claimed
  <2>3. \A e \in Claimed(w) : e \in Ids BY <1>3, <1>9
  <2>4. ClaimsKept /\ \A q \in Processes : WorkFits(proc[q]) BY DEF EventInv
  <2>5. \A e \in Claimed(w) : Holds(p, e)' \/ <<p, e>> \in overdue' BY <2>1, <2>2, <2>3
  <2>6. \A q \in Processes \ {p}, e \in Ids : Holds(q, e) \/ <<q, e>> \in overdue
                                         => Holds(q, e)' \/ <<q, e>> \in overdue'
    BY <2>1
  <2> QED BY <1>2, <1>5, <1>6, <1>11, <2>4, <2>5, <2>6, ClaimsStill
<1>13. EventTyped'
  <2>1. received' \in Counts BY <1>1, <1>5, <1>7 DEF EventTyped, Counts
  <2>2. eventLeft' \in [gone : Nat, overdue : Nat] BY <1>1, <1>5 DEF EventTyped
  <2>3. TablesTyped' BY <1>0, Tables
  <2> QED BY <1>0, <1>1, <1>10, <2>1, <2>2, <2>3 DEF EventTyped
<1>14. \A e \in Ids : e # n => received'[e] = received[e] BY <1>1, <1>5 DEF EventTyped, Counts
<1>15. Unknown' BY <1>0, <1>7, <1>11, <1>14 DEF EventInv, Unknown, tables
<1>16. ASSUME NEW e \in Published
       PROVE  Remembered(e)' /\ NotLost(e)' /\ Explained(e)'
  <2>1. /\ Remembered(e) /\ NotLost(e) /\ Explained(e) /\ e \in Ids
        /\ received[e] \in Nat /\ unrecorded[e] \in Nat
    BY OfPublished
  <2>2. TooOld(e)' = TooOld(e) BY <1>0 DEF TooOld
  <2>3. InHand(e) => InHand(e)'
    <3>1. \A q \in Processes : proc[q].step = "received" => proc'[q] = proc[q] BY <1>2, <1>3, <1>5
    <3> QED BY <1>0, <3>1 DEF InHand
  <2>4. Remembered(e)' BY <1>0, <2>1, <2>2 DEF Remembered, Wanted, tables
  <2>5. NotLost(e)' BY <1>0, <2>1, <2>2, <2>3 DEF NotLost, Wanted, tables
  <2>6. Recorded(e)' = Recorded(e) /\ Recorded(e) \in {0, 1} BY <1>0 DEF Recorded, tables
  <2>7. Explained(e)'
    <3>1. CASE e = n /\ got
      <4>1. received'[e] = received[e] + 1 BY <1>1, <1>5, <2>1, <3>1 DEF EventTyped, Counts
      <4>2. Cardinality(BeingRecorded(e)') = Cardinality(BeingRecorded(e)) + 1
        BY <1>2, <1>5, <1>6, <1>8, <3>1, SenderMore
      <4>3. Cardinality(BeingRecorded(e)) \in Nat BY SendersFinite
      <4> QED BY <1>0, <2>1, <2>6, <4>1, <4>2, <4>3 DEF Explained
    <3>2. CASE ~(e = n /\ got)
      <4>1. received'[e] = received[e] BY <1>1, <1>5, <2>1, <3>2 DEF EventTyped, Counts
      <4>2. BeingRecorded(e)' = BeingRecorded(e) BY <1>2, <1>5, <1>6, <1>8, <3>2, OtherSenders
      <4> QED BY <1>0, <2>1, <2>6, <4>1, <4>2 DEF Explained
    <3> QED BY <3>1, <3>2
  <2> QED BY <2>4, <2>5, <2>7
<1> QED BY <1>10, <1>11, <1>12, <1>13, <1>15, <1>16 DEF EventInv

\* The outcome goes to the row while the claim holds it; else the copy has lost its record.
LEMMA MarkKeeps ==
  ASSUME EventInv, NEW p \in Processes, MarkNotice(p)
  PROVE  EventInv'
<1>0. UNCHANGED <<sent, broker, cutoff, tables, received, eventLeft>> BY DEF MarkNotice
<1>1. EventTyped BY DEF EventInv
<1>2. proc \in [Processes -> Work] /\ proc[p] \in Work /\ WorkFits(proc[p])
  BY <1>1 DEF EventInv, EventTyped
<1>3. proc[p].step \in {"succeeded", "failed"} BY DEF MarkNotice
<1>4. PICK n \in Published : n = proc[p].event BY <1>2, <1>3 DEF WorkFits
<1> DEFINE w == IF proc[p].batch = {} THEN IdleProcess
                ELSE [proc[p] EXCEPT !.step = "sending", !.event = 0, !.got = FALSE]
           outcome == IF proc[p].step = "succeeded" THEN "delivered" ELSE "failed"
           done == [NoNotice EXCEPT !.status = outcome]
           lost == proc[p].got /\ (proc[p].step = "failed" \/ <<p, n>> \in overdue)
<1>5. /\ proc' = [proc EXCEPT ![p] = w]
      /\ notices' = IF Holds(p, n) THEN [notices EXCEPT ![n] = done] ELSE notices
      /\ unrecorded' = [unrecorded EXCEPT ![n] = @ + IF lost THEN 1 ELSE 0]
      /\ overdue' = overdue \ {<<p, n>>}
  BY <1>4 DEF MarkNotice
<1>6. w \in Work /\ w.step \in {"idle", "sending"} /\ w.batch = proc[p].batch /\ ~w.got
  <2>1. CASE proc[p].batch = {} BY <2>1 DEF IdleProcess, Work, EventSteps
  <2>2. CASE proc[p].batch # {} BY <1>2, <2>2 DEF Work, EventSteps
  <2> QED BY <2>1, <2>2
<1>7. /\ outcome \in {"delivered", "failed"} /\ done.status = outcome /\ done \in Notices
      /\ outcome = "delivered" <=> proc[p].step = "succeeded"
  BY DEF NoNotice, Notices
<1>8. lost \in BOOLEAN /\ (lost <=> proc[p].got /\ (proc[p].step = "failed" \/ <<p, n>> \in overdue))
  OBVIOUS
<1> HIDE DEF w, outcome, done, lost
<1>9. n \in Ids /\ n \notin proc[p].batch /\ proc[p].batch \subseteq Published
  BY <1>1, <1>2, <1>3, <1>4, PublishedIds DEF WorkFits
<1>10. WorkFits(w) /\ Claimed(w) = proc[p].batch
  <2>1. w.step = "idle" => w.batch = {} BY <1>7 DEF w, IdleProcess
  <2> QED BY <1>6, <1>9, <2>1 DEF WorkFits, Claimed
<1>11. proc' \in [Processes -> Work] /\ \A q \in Processes : WorkFits(proc[q])'
  BY <1>0, <1>2, <1>5, <1>6, <1>10, FitsStill DEF EventInv
<1>12. Published' = Published /\ Published \subseteq Ids BY <1>0, <1>1, PublishedIds DEF Published
<1>13. notices \in [Ids -> Notices] /\ unrecorded \in Counts BY <1>1 DEF EventTyped
<1>14. /\ \A e \in Ids : e # n => notices'[e] = notices[e] /\ unrecorded'[e] = unrecorded[e]
       /\ notices'[n] = IF Holds(p, n) THEN done ELSE notices[n]
       /\ unrecorded'[n] = unrecorded[n] + IF lost THEN 1 ELSE 0
  BY <1>5, <1>9, <1>13 DEF Counts
<1>15. ClaimsKept'
  <2>1. ASSUME NEW q \in Processes \ {p}, NEW e \in Ids, Holds(q, e) \/ <<q, e>> \in overdue
        PROVE  Holds(q, e)' \/ <<q, e>> \in overdue'
    <3>1. CASE <<q, e>> \in overdue BY <1>5, <3>1
    <3>2. CASE Holds(q, e)
      <4>1. notices'[e] = notices[e] BY <1>14, <3>2 DEF Holds
      <4> QED BY <3>2, <4>1 DEF Holds
    <3> QED BY <2>1, <3>1, <3>2
  <2>2. ASSUME NEW e \in Claimed(w)
        PROVE  Holds(p, e)' \/ <<p, e>> \in overdue'
    <3>1. e \in Ids /\ e # n BY <1>9, <1>10, <1>12
    <3>2. Holds(p, e) \/ <<p, e>> \in overdue BY <1>10 DEF EventInv, ClaimsKept, Claimed
    <3> QED BY <1>5, <1>14, <3>1, <3>2 DEF Holds
  <2>3. ClaimsKept /\ \A q \in Processes : WorkFits(proc[q]) BY DEF EventInv
  <2> QED BY <1>2, <1>5, <1>6, <1>12, <2>1, <2>2, <2>3, ClaimsStill
<1>16. EventTyped'
  <2>1. notices' \in [Ids -> Notices] BY <1>5, <1>7, <1>9, <1>13
  <2>2. unrecorded' \in Counts BY <1>5, <1>8, <1>9, <1>13 DEF Counts
  <2>3. TablesTyped' BY <1>0, Tables
  <2>4. overdue' \subseteq (Processes \cup {NoProcess}) \X Ids BY <1>1, <1>5 DEF EventTyped
  <2> QED BY <1>0, <1>1, <1>11, <2>1, <2>2, <2>3, <2>4 DEF EventTyped
<1>17. Unknown' BY <1>0, <1>4, <1>12, <1>14 DEF EventInv, Unknown, tables
<1>18. ASSUME NEW e \in Published
       PROVE  Remembered(e)' /\ NotLost(e)' /\ Explained(e)'
  <2>1. /\ Remembered(e) /\ NotLost(e) /\ Explained(e) /\ e \in Ids
        /\ received[e] \in Nat /\ unrecorded[e] \in Nat
    BY OfPublished
  <2>2. TooOld(e)' = TooOld(e) BY <1>0 DEF TooOld
  <2>3. InHand(e) => InHand(e)'
    <3>1. \A q \in Processes : proc[q].step = "received" => proc'[q] = proc[q] BY <1>2, <1>3, <1>5
    <3> QED BY <1>0, <3>1 DEF InHand
  <2>4. \/ notices'[e] = notices[e]
        \/ /\ e = n /\ Holds(p, n) /\ notices[e].status = "processing"
           /\ notices'[e].status \in {"delivered", "failed"}
    BY <1>7, <1>14, <2>1 DEF Holds
  <2>5. Remembered(e)' BY <1>0, <2>1, <2>2, <2>4 DEF Remembered, Wanted, tables
  <2>6. NotLost(e)' BY <1>0, <2>1, <2>2, <2>3 DEF NotLost, Wanted, tables
  <2>7. Recorded(e) \in {0, 1} /\ Recorded(e)' \in {0, 1} /\ Recorded(e) <= Recorded(e)'
    <3>1. notices[e].status \in {"delivered", "none"} => notices'[e].status \in {"delivered", "none"}
      BY <2>4
    <3> QED BY <1>0, <3>1 DEF Recorded, tables
  <2>8. Cardinality(BeingRecorded(e)) \in Nat BY SendersFinite
  <2>9. Explained(e)'
    <3>1. CASE e = n /\ proc[p].got
      <4>1. Cardinality(BeingRecorded(e)) = Cardinality(BeingRecorded(e)') + 1
        BY <1>2, <1>4, <1>5, <1>6, <3>1, SenderLess
      <4>2. IsFiniteSet(BeingRecorded(e)') /\ Cardinality(BeingRecorded(e)') \in Nat
        <5>1. BeingRecorded(e)' \subseteq Processes BY DEF BeingRecorded
        <5> QED BY <5>1, EventAssumption, FS_Subset, FS_CardinalityType
      <4>3. CASE lost
        <5>1. unrecorded'[e] = unrecorded[e] + 1 BY <1>14, <3>1, <4>3
        <5> QED BY <1>0, <2>1, <2>7, <2>8, <4>1, <4>2, <5>1 DEF Explained
      <4>4. CASE ~lost
        <5>1. proc[p].step = "succeeded" /\ ~(<<p, n>> \in overdue) BY <1>3, <1>8, <3>1, <4>4
        <5>2. n \in Claimed(proc[p]) BY <1>4, <5>1 DEF Claimed
        <5>3. Holds(p, n) BY <5>1, <5>2 DEF EventInv, ClaimsKept
        <5>4. notices[e].status = "processing" /\ notices'[e].status = "delivered"
          BY <1>7, <1>14, <3>1, <5>1, <5>3 DEF Holds
        <5>5. queued[e] = 1 /\ queued'[e] = 1 BY <1>0, <2>1, <5>4 DEF Remembered, tables
        <5>6. Recorded(e) = 0 /\ Recorded(e)' = 1 BY <5>4, <5>5 DEF Recorded
        <5>7. unrecorded'[e] = unrecorded[e] BY <1>14, <2>1, <3>1, <4>4
        <5> QED BY <1>0, <2>1, <2>8, <4>1, <4>2, <5>6, <5>7 DEF Explained
      <4> QED BY <4>3, <4>4
    <3>2. CASE ~(e = n /\ proc[p].got)
      <4>1. BeingRecorded(e)' = BeingRecorded(e) BY <1>2, <1>4, <1>5, <1>6, <3>2, OtherSenders
      <4>2. unrecorded'[e] = unrecorded[e]
        <5>1. CASE e # n BY <1>14, <2>1, <5>1
        <5>2. CASE e = n /\ ~proc[p].got
          <6>1. ~lost BY <1>8, <5>2
          <6> QED BY <1>14, <2>1, <5>2, <6>1
        <5> QED BY <3>2, <5>1, <5>2
      <4> QED BY <1>0, <2>1, <2>7, <2>8, <4>1, <4>2 DEF Explained
    <3> QED BY <3>1, <3>2
  <2> QED BY <2>5, <2>6, <2>9
<1> QED BY <1>11, <1>12, <1>15, <1>16, <1>17, <1>18 DEF EventInv

\* The message of a process that has gone is delivered again; a copy it was recording has lost its
\* record.
LEMMA ProcessGoneKeeps ==
  ASSUME EventInv, NEW p \in Processes, ProcessGone(p)
  PROVE  EventInv'
<1>0. UNCHANGED <<sent, notices, cutoff, tables, received>> BY DEF ProcessGone
<1>1. EventTyped BY DEF EventInv
<1>2. proc \in [Processes -> Work] /\ proc[p] \in Work /\ WorkFits(proc[p])
  BY <1>1 DEF EventInv, EventTyped
<1>3. PICK n : n = proc[p].event OBVIOUS
<1>4. /\ proc' = [proc EXCEPT ![p] = IdleProcess]
      /\ broker' = IF proc[p].step \in {"received", "stored"}
                   THEN [broker EXCEPT ![n] = @ + 1] ELSE broker
      /\ unrecorded' = IF proc[p].got THEN [unrecorded EXCEPT ![n] = @ + 1] ELSE unrecorded
      /\ overdue' = {c \in overdue : c[1] # p}
      /\ eventLeft.gone > 0 /\ eventLeft' = [eventLeft EXCEPT !.gone = @ - 1]
  BY <1>3 DEF ProcessGone
<1>5. /\ proc[p].step \in {"received", "stored"} => n \in Published
      /\ proc[p].got => n \in Published
  BY <1>2, <1>3 DEF WorkFits
<1>6. proc' \in [Processes -> Work] /\ \A q \in Processes : WorkFits(proc[q])'
  BY <1>0, <1>2, <1>4, Idle, FitsStill DEF EventInv
<1>7. Published' = Published /\ Published \subseteq Ids BY <1>0, <1>1, PublishedIds DEF Published
<1>8. broker \in Counts /\ unrecorded \in Counts BY <1>1 DEF EventTyped
<1>9. broker' \in Counts /\ unrecorded' \in Counts
  <2>1. broker' \in Counts
    <3>1. CASE proc[p].step \in {"received", "stored"}
      BY <1>4, <1>5, <1>7, <1>8, <3>1 DEF Counts
    <3> QED BY <1>4, <1>8, <3>1
  <2>2. unrecorded' \in Counts
    <3>1. CASE proc[p].got BY <1>4, <1>5, <1>7, <1>8, <3>1 DEF Counts
    <3> QED BY <1>4, <1>8, <3>1
  <2> QED BY <2>1, <2>2
<1>10. /\ \A e \in Ids : broker'[e] = broker[e] + IF proc[p].step \in {"received", "stored"} /\ e = n
                                                  THEN 1 ELSE 0
       /\ \A e \in Ids : unrecorded'[e] = unrecorded[e] + IF proc[p].got /\ e = n THEN 1 ELSE 0
  BY <1>4, <1>8 DEF Counts
<1>11. ClaimsKept'
  <2>1. \A q \in Processes \ {p}, e \in Ids : Holds(q, e) \/ <<q, e>> \in overdue
                                         => Holds(q, e)' \/ <<q, e>> \in overdue'
    BY <1>0, <1>4 DEF Holds
  <2>2. ClaimsKept /\ \A q \in Processes : WorkFits(proc[q]) BY DEF EventInv
  <2> QED BY <1>2, <1>4, <1>7, <2>1, <2>2, Idle, ClaimsStill
<1>12. EventTyped'
  <2>1. eventLeft' \in [gone : Nat, overdue : Nat] BY <1>1, <1>4 DEF EventTyped
  <2>2. TablesTyped' BY <1>0, Tables
  <2>3. overdue' \subseteq (Processes \cup {NoProcess}) \X Ids BY <1>1, <1>4 DEF EventTyped
  <2> QED BY <1>0, <1>1, <1>6, <1>9, <2>1, <2>2, <2>3 DEF EventTyped
<1>13. Unknown' BY <1>0, <1>5, <1>7, <1>8, <1>10 DEF EventInv, Unknown, tables, Counts
<1>14. ASSUME NEW e \in Published
       PROVE  Remembered(e)' /\ NotLost(e)' /\ Explained(e)'
  <2>1. /\ Remembered(e) /\ NotLost(e) /\ Explained(e) /\ e \in Ids
        /\ received[e] \in Nat /\ unrecorded[e] \in Nat /\ broker[e] \in Nat
    BY OfPublished
  <2>2. TooOld(e)' = TooOld(e) BY <1>0 DEF TooOld
  <2>3. InHand(e) => InHand(e)'
    <3>1. CASE broker[e] > 0 BY <1>10, <2>1, <3>1 DEF InHand
    <3>2. ASSUME NEW q \in Processes, proc[q].step = "received", proc[q].event = e
          PROVE  InHand(e)'
      <4>1. CASE q = p
        <5>1. broker'[e] = broker[e] + 1 BY <1>3, <1>10, <2>1, <3>2, <4>1
        <5> QED BY <2>1, <5>1 DEF InHand
      <4>2. CASE q # p
        <5>1. proc'[q] = proc[q] BY <1>2, <1>4, <4>2
        <5> QED BY <3>2, <5>1 DEF InHand
      <4> QED BY <4>1, <4>2
    <3> QED BY <3>1, <3>2 DEF InHand
  <2>4. Remembered(e)' BY <1>0, <2>1, <2>2 DEF Remembered, Wanted, tables
  <2>5. NotLost(e)' BY <1>0, <2>1, <2>2, <2>3 DEF NotLost, Wanted, tables
  <2>6. Recorded(e)' = Recorded(e) /\ Recorded(e) \in {0, 1} BY <1>0 DEF Recorded, tables
  <2>7. Cardinality(BeingRecorded(e)) \in Nat BY SendersFinite
  <2>8. Explained(e)'
    <3>1. CASE e = n /\ proc[p].got
      <4>1. Cardinality(BeingRecorded(e)) = Cardinality(BeingRecorded(e)') + 1
        BY <1>2, <1>3, <1>4, <3>1, Idle, SenderLess
      <4>2. IsFiniteSet(BeingRecorded(e)') /\ Cardinality(BeingRecorded(e)') \in Nat
        <5>1. BeingRecorded(e)' \subseteq Processes BY DEF BeingRecorded
        <5> QED BY <5>1, EventAssumption, FS_Subset, FS_CardinalityType
      <4>3. unrecorded'[e] = unrecorded[e] + 1 BY <1>10, <2>1, <3>1
      <4> QED BY <1>0, <2>1, <2>6, <2>7, <4>1, <4>2, <4>3 DEF Explained
    <3>2. CASE ~(e = n /\ proc[p].got)
      <4>1. BeingRecorded(e)' = BeingRecorded(e) BY <1>2, <1>3, <1>4, <3>2, Idle, OtherSenders
      <4>2. unrecorded'[e] = unrecorded[e] BY <1>10, <2>1, <3>2
      <4> QED BY <1>0, <2>1, <2>6, <4>1, <4>2 DEF Explained
    <3> QED BY <3>1, <3>2
  <2> QED BY <2>4, <2>5, <2>8
<1> QED BY <1>6, <1>7, <1>11, <1>12, <1>13, <1>14 DEF EventInv

\* A new event is in the queue, and nothing else is known of it.
LEMMA PublishKeeps ==
  ASSUME EventInv, NEW shape \in Shapes, Publish(shape)
  PROVE  EventInv'
<1>0. UNCHANGED <<notices, cutoff, proc, tables, ghosts, eventLeft>> BY DEF Publish
<1>1. EventTyped BY DEF EventInv
<1>a. PICK n : n = Len(sent) + 1 OBVIOUS
<1>2. /\ Len(sent) < MaxEvents /\ sent' = Append(sent, shape)
      /\ broker' = [broker EXCEPT ![n] = 1]
  BY <1>a DEF Publish
<1>3. sent \in Seq(Shapes) /\ Len(sent) \in Nat /\ MaxEvents \in Nat
  BY <1>1, EventAssumption DEF EventTyped
<1>4. /\ sent' \in Seq(Shapes) /\ Len(sent') = n /\ n \in Nat
      /\ \A e \in 1..Len(sent) : sent'[e] = sent[e]
  BY <1>a, <1>2, <1>3
<1>5. n \in Ids /\ n \notin Published BY <1>a, <1>2, <1>3 DEF Ids, Published
<1>6. Published' = Published \cup {n} BY <1>a, <1>3, <1>4 DEF Published
<1>7. \A e \in Ids : broker'[e] = IF e = n THEN 1 ELSE broker[e]
  BY <1>1, <1>2 DEF EventTyped, Counts
<1>8. EventTyped'
  <2>1. broker' \in Counts BY <1>1, <1>2 DEF EventTyped, Counts
  <2>2. TablesTyped' BY <1>a, <1>0, <1>1, <1>3, <1>4, <1>6 DEF EventTyped, TablesTyped, tables
  <2>3. Len(sent') <= MaxEvents BY <1>a, <1>2, <1>3, <1>4
  <2> QED BY <1>0, <1>1, <1>4, <2>1, <2>2, <2>3 DEF EventTyped, ghosts
<1>9. Unknown' BY <1>0, <1>6, <1>7 DEF EventInv, Unknown, tables, ghosts
<1>10. \A p \in Processes : WorkFits(proc[p])' BY <1>0, <1>6 DEF EventInv, WorkFits
<1>11. ClaimsKept' BY <1>0 DEF EventInv, ClaimsKept, Claimed, Holds, ghosts
<1>12. ASSUME NEW e \in Published
       PROVE  Remembered(e)' /\ NotLost(e)' /\ Explained(e)'
  <2>1. Remembered(e) /\ NotLost(e) /\ Explained(e) /\ e \in Ids BY OfPublished
  <2>2. sent'[e] = sent[e] BY <1>4 DEF Published
  <2>3. TooOld(e)' = TooOld(e) BY <1>0, <2>2 DEF TooOld
  <2>4. InHand(e)' = InHand(e) BY <1>0, <1>5, <1>7, <2>1 DEF InHand
  <2>5. Wanted(e)' = Wanted(e) BY <2>2 DEF Wanted
  <2>6. Remembered(e)' BY <1>0, <2>1, <2>2, <2>3, <2>5 DEF Remembered, tables
  <2>7. NotLost(e)' BY <1>0, <2>1, <2>3, <2>4, <2>5 DEF NotLost, tables
  <2>8. Explained(e)' BY <1>0, <2>1 DEF Explained, BeingRecorded, Recorded, tables, ghosts
  <2> QED BY <2>6, <2>7, <2>8
<1>13. Remembered(n)' /\ NotLost(n)' /\ Explained(n)'
  <2>1. /\ kept[n] = 0 /\ queued[n] = 0 /\ received[n] = 0 /\ notices[n].status = "none"
    BY <1>5 DEF EventInv, Unknown
  <2>2. n \notin history /\ n \notin diagnostics /\ position # n
    BY <1>a, <1>1, <1>3 DEF EventTyped, TablesTyped, Published
  <2>3. Remembered(n)' BY <1>0, <2>1, <2>2 DEF Remembered, tables
  <2>4. NotLost(n)' BY <1>5, <1>7 DEF NotLost, InHand
  <2>5. Explained(n)'
    <3>1. unrecorded[n] \in Nat BY <1>1, <1>5 DEF EventTyped, Counts
    <3>2. Cardinality(BeingRecorded(n)) \in Nat BY SendersFinite
    <3>3. Recorded(n) = 0 BY <2>1 DEF Recorded
    <3> QED BY <1>0, <2>1, <3>1, <3>2, <3>3 DEF Explained, BeingRecorded, Recorded, tables, ghosts
  <2> QED BY <2>3, <2>4, <2>5
<1> QED BY <1>6, <1>8, <1>9, <1>10, <1>11, <1>12, <1>13 DEF EventInv-----------------------------------------------------------------------------
(* The messages of an event: in the queue, or with the processes that carry   *)
(* one, and those are at most everybody.                                      *)

Carries(w, e) == w.step \in {"received", "stored"} /\ w.event = e
Holders(e) == {p \in Processes : Carries(proc[p], e)}
BrokerBounded ==
    \A e \in Published :
        broker[e] + Cardinality(Holders(e)) <= MaxBrokerCopies + Cardinality(Processes)

LEMMA HoldersFinite ==
  ASSUME NEW e
  PROVE  /\ IsFiniteSet(Holders(e)) /\ Cardinality(Holders(e)) \in Nat
         /\ Cardinality(Processes) \in Nat /\ Cardinality(Holders(e)) <= Cardinality(Processes)
<1>1. IsFiniteSet(Processes) BY EventAssumption
<1>2. Holders(e) \subseteq Processes BY DEF Holders
<1> QED BY <1>1, <1>2, FS_Subset, FS_CardinalityType

\* The step of a process p, by what it carried before and carries after it.
LEMMA HoldersStep ==
  ASSUME NEW e, NEW p \in Processes, NEW w, proc \in [Processes -> Work],
         proc' = [proc EXCEPT ![p] = w]
  PROVE  /\ Cardinality(Holders(e)') \in Nat
         /\ (Carries(w, e) <=> Carries(proc[p], e)) => Holders(e)' = Holders(e)
         /\ Carries(w, e) /\ ~Carries(proc[p], e)
               => Cardinality(Holders(e)') = Cardinality(Holders(e)) + 1
         /\ ~Carries(w, e) /\ Carries(proc[p], e)
               => Cardinality(Holders(e)) = Cardinality(Holders(e)') + 1
<1> DEFINE S == Holders(e)
           T == {q \in Processes : Carries(proc'[q], e)}
<1>1. Holders(e)' = T BY DEF Holders, Carries
<1>2. \A q \in Processes : proc'[q] = IF q = p THEN w ELSE proc[q] OBVIOUS
<1>3. S \subseteq Processes /\ T \subseteq Processes BY DEF Holders
<1>4. \A q \in Processes : (q \in S <=> Carries(proc[q], e)) /\ (q \in T <=> Carries(proc'[q], e))
  BY DEF Holders
<1> HIDE DEF S, T
<1>5. IsFiniteSet(S) /\ IsFiniteSet(T) /\ Cardinality(S) \in Nat /\ Cardinality(T) \in Nat
  BY <1>3, EventAssumption, FS_Subset, FS_CardinalityType
<1>6. CASE Carries(w, e) <=> Carries(proc[p], e)
  <2>1. T = S BY <1>2, <1>3, <1>4, <1>6
  <2> QED BY <1>1, <1>5, <1>6, <2>1 DEF S
<1>7. CASE Carries(w, e) /\ ~Carries(proc[p], e)
  <2>1. T = S \cup {p} /\ p \notin S BY <1>2, <1>3, <1>4, <1>7
  <2>2. Cardinality(T) = Cardinality(S) + 1 BY <1>5, <2>1, FS_AddElement
  <2> QED BY <1>1, <1>5, <1>7, <2>2 DEF S
<1>8. CASE ~Carries(w, e) /\ Carries(proc[p], e)
  <2>1. T = S \ {p} /\ p \in S BY <1>2, <1>3, <1>4, <1>8
  <2>2. Cardinality(T) = Cardinality(S) - 1 BY <1>5, <2>1, FS_RemoveElement
  <2> QED BY <1>1, <1>5, <1>8, <2>2 DEF S
<1> QED BY <1>6, <1>7, <1>8

\* A process that was carrying nothing and still carries nothing.
LEMMA BoundedStays ==
  ASSUME EventInv, BrokerBounded, UNCHANGED <<sent, broker>>, NEW p \in Processes, NEW w,
         proc' = [proc EXCEPT ![p] = w],
         \A e \in Published : Carries(w, e) => Carries(proc[p], e)
  PROVE  BrokerBounded'
<1>1. proc \in [Processes -> Work] BY DEF EventInv, EventTyped
<1>2. Published' = Published BY DEF Published
<1>3. ASSUME NEW e \in Published
      PROVE  broker'[e] + Cardinality(Holders(e)') <= MaxBrokerCopies + Cardinality(Processes)
  <2>1. broker[e] + Cardinality(Holders(e)) <= MaxBrokerCopies + Cardinality(Processes)
    BY DEF BrokerBounded
  <2>2. broker[e] \in Nat BY OfPublished
  <2>3. Cardinality(Holders(e)) \in Nat /\ Cardinality(Processes) \in Nat BY HoldersFinite
  <2>4. Carries(w, e) => Carries(proc[p], e) OBVIOUS
  <2>5. /\ Cardinality(Holders(e)') \in Nat
        /\ (Carries(w, e) <=> Carries(proc[p], e)) => Holders(e)' = Holders(e)
        /\ ~Carries(w, e) /\ Carries(proc[p], e)
               => Cardinality(Holders(e)) = Cardinality(Holders(e)') + 1
    BY <1>1, HoldersStep
  <2>6. Cardinality(Holders(e)') <= Cardinality(Holders(e)) BY <2>3, <2>4, <2>5
  <2> QED BY <2>1, <2>2, <2>3, <2>5, <2>6, EventAssumption
<1> QED BY <1>2, <1>3 DEF BrokerBounded

LEMMA BoundedNext ==
  EventInv /\ BrokerBounded /\ [EventNext]_eventVars => BrokerBounded'
<1> SUFFICES ASSUME EventInv, BrokerBounded, [EventNext]_eventVars PROVE BrokerBounded' OBVIOUS
<1>1. EventTyped /\ Published \subseteq Ids /\ Len(sent) \in Nat
  BY PublishedIds DEF EventInv
<1>2. proc \in [Processes -> Work] /\ broker \in Counts BY <1>1 DEF EventTyped
<1>3. \A e \in Published : /\ broker[e] + Cardinality(Holders(e))
                                <= MaxBrokerCopies + Cardinality(Processes)
                           /\ broker[e] \in Nat /\ Cardinality(Holders(e)) \in Nat
                           /\ Cardinality(Holders(e)) <= Cardinality(Processes)
  BY OfPublished, HoldersFinite DEF BrokerBounded
<1>4. Cardinality(Processes) \in Nat /\ MaxBrokerCopies \in Nat \ {0}
  BY HoldersFinite, EventAssumption
<1>5. ASSUME UNCHANGED <<sent, broker, proc>> PROVE BrokerBounded'
  BY <1>5 DEF BrokerBounded, Holders, Published
<1>6. ASSUME NEW shape \in Shapes, Publish(shape) PROVE BrokerBounded'
  <2>1. PICK n : n = Len(sent) + 1 OBVIOUS
  <2>2. /\ Len(sent) < MaxEvents /\ sent' = Append(sent, shape)
        /\ broker' = [broker EXCEPT ![n] = 1] /\ proc' = proc
    BY <1>6, <2>1 DEF Publish
  <2>3. Len(sent') = n BY <1>1, <2>1, <2>2 DEF EventTyped
  <2>4. n \in Ids /\ n \notin Published /\ Published' = Published \cup {n}
    BY <1>1, <2>1, <2>2, <2>3, EventAssumption DEF Ids, Published
  <2>5. \A e \in Ids : broker'[e] = IF e = n THEN 1 ELSE broker[e] BY <1>2, <2>2 DEF Counts
  <2>6. \A e : Holders(e)' = Holders(e) BY <2>2 DEF Holders
  <2>7. Holders(n) = {} BY <2>4 DEF EventInv, WorkFits, Holders, Carries
  <2>8. Cardinality(Holders(n)) = 0 BY <2>7, FS_EmptySet
  <2>9. ASSUME NEW e \in Published'
        PROVE  broker'[e] + Cardinality(Holders(e)') <= MaxBrokerCopies + Cardinality(Processes)
    <3>1. CASE e = n BY <1>4, <2>4, <2>5, <2>6, <2>8, <3>1
    <3>2. CASE e # n
      <4>1. e \in Published /\ e \in Ids BY <1>1, <2>4, <2>9, <3>2
      <4> QED BY <1>3, <2>5, <2>6, <3>2, <4>1
    <3> QED BY <3>1, <3>2
  <2> QED BY <2>9 DEF BrokerBounded
<1>7. ASSUME NEW x \in Ids, PublishAgain(x) PROVE BrokerBounded'
  <2>1. /\ x \in Published /\ broker[x] < MaxBrokerCopies /\ broker' = [broker EXCEPT ![x] = @ + 1]
        /\ sent' = sent /\ proc' = proc
    BY <1>7 DEF PublishAgain
  <2>2. \A e \in Ids : broker'[e] = IF e = x THEN broker[e] + 1 ELSE broker[e]
    BY <1>2, <2>1 DEF Counts
  <2>3. Published' = Published /\ \A e : Holders(e)' = Holders(e)
    BY <2>1 DEF Holders, Published
  <2>4. ASSUME NEW e \in Published
        PROVE  broker'[e] + Cardinality(Holders(e)') <= MaxBrokerCopies + Cardinality(Processes)
    BY <1>1, <1>3, <1>4, <2>1, <2>2, <2>3
  <2> QED BY <2>3, <2>4 DEF BrokerBounded
<1>8. ASSUME NEW p \in Processes, NEW x \in Ids, NEW fresh \in BOOLEAN, Receive(p, x, fresh)
      PROVE  BrokerBounded'
  <2> DEFINE w == [IdleProcess EXCEPT !.step = "received", !.event = x, !.fresh = fresh]
  <2>1. /\ proc' = [proc EXCEPT ![p] = w] /\ proc[p].step = "idle" /\ sent' = sent
        /\ broker' = [broker EXCEPT ![x] = @ - 1]
    BY <1>8 DEF Receive
  <2>2. w.step = "received" /\ w.event = x BY DEF IdleProcess
  <2> HIDE DEF w
  <2>3. \A e : ~Carries(proc[p], e) /\ (Carries(w, e) <=> e = x) BY <2>1, <2>2 DEF Carries
  <2>4. \A e \in Ids : broker'[e] = IF e = x THEN broker[e] - 1 ELSE broker[e]
    BY <1>2, <2>1 DEF Counts
  <2>5. ASSUME NEW e \in Published
        PROVE  broker'[e] + Cardinality(Holders(e)') <= MaxBrokerCopies + Cardinality(Processes)
    <3>1. /\ Carries(w, e) => Cardinality(Holders(e)') = Cardinality(Holders(e)) + 1
          /\ ~Carries(w, e) => Holders(e)' = Holders(e)
      BY <1>2, <2>1, <2>3, HoldersStep
    <3> QED BY <1>1, <1>3, <1>4, <2>3, <2>4, <3>1
  <2>6. Published' = Published BY <2>1 DEF Published
  <2> QED BY <2>5, <2>6 DEF BrokerBounded
<1>9. ASSUME NEW p \in Processes, ProcessGone(p) PROVE BrokerBounded'
  <2>1. PICK n : n = proc[p].event OBVIOUS
  <2>2. /\ proc' = [proc EXCEPT ![p] = IdleProcess] /\ sent' = sent
        /\ broker' = IF proc[p].step \in {"received", "stored"}
                     THEN [broker EXCEPT ![n] = @ + 1] ELSE broker
    BY <1>9, <2>1 DEF ProcessGone
  <2>3. \A e \in Ids : broker'[e] = broker[e] + IF Carries(proc[p], e) THEN 1 ELSE 0
    BY <1>2, <2>1, <2>2 DEF Counts, Carries
  <2>4. \A e : ~Carries(IdleProcess, e) BY Idle DEF Carries
  <2>5. ASSUME NEW e \in Published
        PROVE  broker'[e] + Cardinality(Holders(e)') <= MaxBrokerCopies + Cardinality(Processes)
    <3>1. /\ Cardinality(Holders(e)') \in Nat
          /\ Carries(proc[p], e) => Cardinality(Holders(e)) = Cardinality(Holders(e)') + 1
          /\ ~Carries(proc[p], e) => Holders(e)' = Holders(e)
      BY <1>2, <2>2, <2>4, HoldersStep
    <3> QED BY <1>1, <1>3, <1>4, <2>3, <3>1
  <2>6. Published' = Published BY <2>2 DEF Published
  <2> QED BY <2>5, <2>6 DEF BrokerBounded
<1>10. ASSUME NEW p \in Processes, Store(p) PROVE BrokerBounded'
  <2> DEFINE w == [proc[p] EXCEPT !.step = "stored", !.fresh = FALSE]
  <2>1. proc' = [proc EXCEPT ![p] = w] /\ proc[p].step = "received" /\ UNCHANGED <<sent, broker>>
    BY <1>10 DEF Store
  <2>2. proc[p] \in Work BY <1>2
  <2>3. w.event = proc[p].event BY <2>2 DEF Work
  <2> HIDE DEF w
  <2>4. \A e \in Published : Carries(w, e) => Carries(proc[p], e) BY <2>1, <2>3 DEF Carries
  <2> QED BY <2>1, <2>4, BoundedStays
<1>11. ASSUME NEW p \in Processes, Acknowledge(p) PROVE BrokerBounded'
  <2>1. proc' = [proc EXCEPT ![p] = IdleProcess] /\ UNCHANGED <<sent, broker>>
    BY <1>11 DEF Acknowledge
  <2>2. \A e \in Published : Carries(IdleProcess, e) => Carries(proc[p], e)
    BY Idle DEF Carries
  <2> QED BY <2>1, <2>2, BoundedStays
<1>12. ASSUME NEW p \in Processes, NEW batch \in SUBSET Ids, ClaimNotices(p, batch)
       PROVE  BrokerBounded'
  <2> DEFINE w == [IdleProcess EXCEPT !.step = "sending", !.batch = batch]
  <2>1. proc' = [proc EXCEPT ![p] = w] /\ UNCHANGED <<sent, broker>> BY <1>12 DEF ClaimNotices
  <2>2. w.step = "sending" BY DEF IdleProcess
  <2> HIDE DEF w
  <2>3. \A e \in Published : Carries(w, e) => Carries(proc[p], e) BY <2>2 DEF Carries
  <2> QED BY <2>1, <2>3, BoundedStays
<1>13. ASSUME NEW p \in Processes, NEW got \in BOOLEAN, NEW answered \in BOOLEAN,
              SendNotice(p, got, answered)
       PROVE  BrokerBounded'
  <2> DEFINE n == CHOOSE k \in proc[p].batch : \A m \in proc[p].batch : k <= m
             s == IF answered THEN "succeeded" ELSE "failed"
             w == [proc[p] EXCEPT !.step = s, !.event = n, !.batch = @ \ {n}, !.got = got]
  <2>1. UNCHANGED <<sent, broker>> BY <1>13 DEF SendNotice
  <2>2. proc' = [proc EXCEPT ![p].step = s, ![p].event = n, ![p].batch = @ \ {n}, ![p].got = got]
    BY <1>13 DEF SendNotice
  <2>3. s \notin {"received", "stored"} /\ proc[p] \in Work BY <1>2
  <2> HIDE DEF n, s
  <2>4. proc' = [proc EXCEPT ![p] = w] BY <1>2, <2>2
  <2>5. w.step = s BY <2>3 DEF Work
  <2> HIDE DEF w
  <2>6. \A e \in Published : Carries(w, e) => Carries(proc[p], e) BY <2>3, <2>5 DEF Carries
  <2> QED BY <2>1, <2>4, <2>6, BoundedStays
<1>14. ASSUME NEW p \in Processes, MarkNotice(p) PROVE BrokerBounded'
  <2> DEFINE w == IF proc[p].batch = {} THEN IdleProcess
                  ELSE [proc[p] EXCEPT !.step = "sending", !.event = 0, !.got = FALSE]
  <2>1. proc' = [proc EXCEPT ![p] = w] /\ UNCHANGED <<sent, broker>> BY <1>14 DEF MarkNotice
  <2>2. w.step \notin {"received", "stored"}
    <3>1. CASE proc[p].batch = {} BY <3>1, Idle
    <3>2. CASE proc[p].batch # {} BY <1>2, <3>2 DEF Work
    <3> QED BY <3>1, <3>2
  <2> HIDE DEF w
  <2>3. \A e \in Published : Carries(w, e) => Carries(proc[p], e) BY <2>2 DEF Carries
  <2> QED BY <2>1, <2>3, BoundedStays
<1>15. CASE UNCHANGED eventVars BY <1>5, <1>15 DEF eventVars
<1>16. CASE \E e \in Ids : Overdue(e) BY <1>5, <1>16 DEF Overdue
<1>17. CASE \E k \in Kinds_, day \in Days : PruneHistory(k, day) BY <1>5, <1>17 DEF PruneHistory
<1>18. CASE \E e \in Ids : PruneDiagnostics(e) BY <1>5, <1>18 DEF PruneDiagnostics
<1>19. CASE \E k \in Kinds_ : PruneNotices(k) BY <1>5, <1>19 DEF PruneNotices
<1> QED BY <1>6, <1>7, <1>8, <1>9, <1>10, <1>11, <1>12, <1>13, <1>14, <1>15, <1>16, <1>17, <1>18, <1>19
    DEF EventNext
-----------------------------------------------------------------------------
(* The results. *)

LEMMA InvInit == EventInit => EventInv
<1> SUFFICES ASSUME EventInit PROVE EventInv OBVIOUS
<1>1. /\ sent = <<>> /\ Published = {} /\ Len(sent) = 0 BY DEF EventInit, Published
<1>2. \A p \in Processes : proc[p] = IdleProcess BY DEF EventInit
<1>3. EventTyped
  <2>1. NoNotice \in Notices BY DEF NoNotice, Notices
  <2>2. proc \in [Processes -> Work] BY Idle DEF EventInit
  <2>3. TablesTyped BY <1>1 DEF EventInit, TablesTyped, Counts
  <2>4. sent \in Seq(Shapes) /\ Len(sent) <= MaxEvents BY <1>1, EventAssumption
  <2>5. cutoff \in [Kinds_ -> Days] BY EventAssumption DEF EventInit, Days
  <2>6. broker \in Counts /\ received \in Counts /\ unrecorded \in Counts
    BY DEF EventInit, Counts
  <2>7. eventLeft \in [gone : Nat, overdue : Nat] BY EventAssumption DEF EventInit
  <2> QED BY <2>1, <2>2, <2>3, <2>4, <2>5, <2>6, <2>7 DEF EventInit, EventTyped
<1>4. Unknown BY DEF EventInit, Unknown, NoNotice
<1>5. \A p \in Processes : WorkFits(proc[p]) BY <1>2, Idle
<1>6. ClaimsKept BY <1>2, Idle DEF ClaimsKept
<1> QED BY <1>1, <1>3, <1>4, <1>5, <1>6 DEF EventInv

LEMMA InvNext == EventInv /\ [EventNext]_eventVars => EventInv'
<1> SUFFICES ASSUME EventInv, [EventNext]_eventVars PROVE EventInv' OBVIOUS
<1>1. CASE UNCHANGED eventVars
  <2>1. EventTyped' BY <1>1 DEF EventInv, EventTyped, TablesTyped, Published, eventVars
  <2>2. Unknown' BY <1>1 DEF EventInv, Unknown, Published, eventVars
  <2>3. (\A p \in Processes : WorkFits(proc[p])') /\ ClaimsKept'
    BY <1>1 DEF EventInv, WorkFits, ClaimsKept, Claimed, Holds, Published, eventVars
  <2>4. \A e \in Published' : Remembered(e)' /\ NotLost(e)' /\ Explained(e)'
    BY <1>1 DEF EventInv, Remembered, NotLost, Explained, Wanted, InHand, TooOld, Recorded,
                BeingRecorded, Published, eventVars
  <2> QED BY <2>1, <2>2, <2>3, <2>4 DEF EventInv
<1>2. CASE EventNext
  <2>1. CASE \E shape \in Shapes : Publish(shape) BY <2>1, PublishKeeps
  <2>2. CASE \E e \in Ids : PublishAgain(e) BY <2>2, PublishAgainKeeps
  <2>3. CASE \E p \in Processes, e \in Ids, fresh \in BOOLEAN : Receive(p, e, fresh)
    BY <2>3, ReceiveKeeps
  <2>4. CASE \E p \in Processes : Store(p) BY <2>4, StoreKeeps
  <2>5. CASE \E p \in Processes : Acknowledge(p) BY <2>5, AcknowledgeKeeps
  <2>6. CASE \E p \in Processes, batch \in SUBSET Ids : ClaimNotices(p, batch)
    BY <2>6, ClaimKeeps
  <2>7. CASE \E e \in Ids : Overdue(e) BY <2>7, OverdueKeeps
  <2>8. CASE \E p \in Processes, got, answered \in BOOLEAN : SendNotice(p, got, answered)
    BY <2>8, SendKeeps
  <2>9. CASE \E p \in Processes : MarkNotice(p) BY <2>9, MarkKeeps
  <2>10. CASE \E p \in Processes : ProcessGone(p) BY <2>10, ProcessGoneKeeps
  <2>11. CASE \E k \in Kinds_, day \in Days : PruneHistory(k, day) BY <2>11, PruneHistoryKeeps
  <2>12. CASE \E e \in Ids : PruneDiagnostics(e) BY <2>12, PruneDiagnosticsKeeps
  <2>13. CASE \E k \in Kinds_ : PruneNotices(k) BY <2>13, PruneNoticesKeeps
  <2> QED BY <1>2, <2>1, <2>2, <2>3, <2>4, <2>5, <2>6, <2>7, <2>8, <2>9, <2>10, <2>11, <2>12, <2>13
      DEF EventNext
<1> QED BY <1>1, <1>2

\* What the invariant says of an event is what the properties promise.
LEMMA InvAccounts == EventInv => EventsAccounted
<1> SUFFICES ASSUME EventInv PROVE EventsAccounted OBVIOUS
<1>1. EventTakenOnce
  <2> SUFFICES ASSUME NEW e \in Published
               PROVE  /\ kept[e] <= 1 /\ queued[e] <= 1
                      /\ Wanted(e) /\ queued[e] = 0 => InHand(e) \/ TooOld(e)
    BY DEF EventTakenOnce
  <2>1. Remembered(e) /\ NotLost(e) BY OfPublished
  <2> QED BY <2>1 DEF Remembered, NotLost
<1>2. NoticesExplained
  <2> SUFFICES ASSUME NEW e \in Published
               PROVE  received[e] <= unrecorded[e] + Cardinality(BeingRecorded(e))
                           + IF queued[e] = 1 /\ notices[e].status \in {"delivered", "none"}
                             THEN 1 ELSE 0
    BY DEF NoticesExplained
  <2>1. Explained(e) BY OfPublished
  <2> QED BY <2>1 DEF Explained, Recorded
<1> QED BY <1>1, <1>2 DEF EventsAccounted

\* The ports come of an event that is ahead of the position, and they were not.
LEMMA PortsAdvance ==
  EventInv /\ [EventNext]_eventVars => [ports' # ports => ports' > ports]_eventVars
<1> SUFFICES ASSUME EventInv, EventNext, ports' # ports
             PROVE  ports' > ports
  BY DEF eventVars
<1>1. EventTyped BY DEF EventInv
<1>2. PICK p \in Processes : Store(p)
  <2>1. CASE \E shape \in Shapes : Publish(shape) BY <2>1 DEF Publish, tables
  <2>2. CASE \E e \in Ids : PublishAgain(e) BY <2>2 DEF PublishAgain, tables
  <2>3. CASE \E q \in Processes, e \in Ids, fresh \in BOOLEAN : Receive(q, e, fresh)
    BY <2>3 DEF Receive, tables
  <2>4. CASE \E q \in Processes : Store(q) BY <2>4
  <2>5. CASE \E q \in Processes : Acknowledge(q) BY <2>5 DEF Acknowledge, tables
  <2>6. CASE \E q \in Processes, batch \in SUBSET Ids : ClaimNotices(q, batch)
    BY <2>6 DEF ClaimNotices, tables
  <2>7. CASE \E e \in Ids : Overdue(e) BY <2>7 DEF Overdue, tables
  <2>8. CASE \E q \in Processes, got, answered \in BOOLEAN : SendNotice(q, got, answered)
    <3>1. UNCHANGED tables BY <2>8 DEF SendNotice
    <3> QED BY <3>1 DEF tables
  <2>9. CASE \E q \in Processes : MarkNotice(q) BY <2>9 DEF MarkNotice, tables
  <2>10. CASE \E q \in Processes : ProcessGone(q) BY <2>10 DEF ProcessGone, tables
  <2>11. CASE \E k \in Kinds_, day \in Days : PruneHistory(k, day) BY <2>11 DEF PruneHistory
  <2>12. CASE \E e \in Ids : PruneDiagnostics(e) BY <2>12 DEF PruneDiagnostics
  <2>13. CASE \E k \in Kinds_ : PruneNotices(k) BY <2>13 DEF PruneNotices, tables
  <2> QED BY <2>1, <2>2, <2>3, <2>4, <2>5, <2>6, <2>7, <2>8, <2>9, <2>10, <2>11, <2>12, <2>13
      DEF EventNext
<1>3. PICK e : e = proc[p].event OBVIOUS
<1>4. StoreStatus(e) \/ StoreScan(e, proc[p].fresh)
  BY <1>2, <1>3 DEF Store, tables
<1>5. Advances(e) /\ ports' = e BY <1>4, StoreWrites DEF Written
<1>6. position \in Nat /\ ports \in Nat /\ ports <= position
  BY <1>1, PublishedIds DEF EventTyped, TablesTyped
<1>7. proc[p] \in Work BY <1>1 DEF EventTyped
<1>8. e \in Nat BY <1>3, <1>7, WorkFields, EventAssumption DEF Ids
<1> QED BY <1>5, <1>6, <1>8 DEF Advances

LEMMA InvTypes == EventInv /\ BrokerBounded => EventTypeOK
<1> SUFFICES ASSUME EventInv, BrokerBounded PROVE EventTypeOK OBVIOUS
<1>1. EventTyped /\ Published \subseteq Ids BY PublishedIds DEF EventInv
<1>2. broker \in [Ids -> 0..MaxBrokerCopies + Cardinality(Processes)]
  <2>1. ASSUME NEW e \in Ids PROVE broker[e] \in 0..MaxBrokerCopies + Cardinality(Processes)
    <3>1. Cardinality(Holders(e)) \in Nat /\ Cardinality(Processes) \in Nat BY HoldersFinite
    <3>2. broker[e] \in Nat BY <1>1 DEF EventTyped, Counts
    <3>3. CASE e \in Published
      <4>1. broker[e] + Cardinality(Holders(e)) <= MaxBrokerCopies + Cardinality(Processes)
        BY <3>3 DEF BrokerBounded
      <4> QED BY <3>1, <3>2, <4>1, EventAssumption
    <3>4. CASE e \notin Published
      <4>1. broker[e] = 0 BY <3>4 DEF EventInv, Unknown
      <4> QED BY <3>1, <4>1, EventAssumption
    <3> QED BY <3>3, <3>4
  <2> QED BY <1>1, <2>1 DEF EventTyped, Counts
<1>3. \A e \in Ids : notices[e].status # "none" => e \in Published BY DEF EventInv, Unknown
<1> QED BY <1>1, <1>2, <1>3 DEF EventTyped, TablesTyped, EventTypeOK

\* The tables hold published events only, the ports are not ahead of the position, and however a
\* message travels there is never more of it than the broker and the processes hold.
THEOREM EventTypeCorrect == EventSpec => []EventTypeOK
<1>1. EventInit => BrokerBounded BY DEF EventInit, BrokerBounded, Published
<1>2. EventSpec => [](EventInv /\ BrokerBounded)
  BY <1>1, InvInit, InvNext, BoundedNext, PTL DEF EventSpec
<1> QED BY <1>2, InvTypes, PTL

\* Whatever is delivered again, dies, is pruned or taken over meanwhile: an event is written and
\* notified once, none is lost, each copy of a notification has its record or has lost it in a way
\* that is named, and the ports shown never go back (service_events.py, service_event_storage.py).
THEOREM EventsOnce == EventSpec => EventsTakeEffectOnce
<1>1. EventSpec => []EventInv BY InvInit, InvNext, PTL DEF EventSpec
<1>2. EventSpec => []EventsAccounted BY <1>1, InvAccounts, PTL
<1>3. EventSpec => [][ports' # ports => ports' > ports]_eventVars
  BY <1>1, PortsAdvance, PTL DEF EventSpec
<1> QED BY <1>2, <1>3 DEF EventsTakeEffectOnce, PortsNeverGoBack

-----------------------------------------------------------------------------
(* The parts together. *)

\* The parts share nothing, so each of them behaves as it does alone.
LEMMA ManagedStep ==
  ManagedNext \/ UNCHANGED managedVars
    => [ListNext]_listVars /\ [CertNext]_certVars /\ [EventNext]_eventVars
<1>1. ManagedNext => [ListNext]_listVars /\ [CertNext]_certVars /\ [EventNext]_eventVars
  BY DEF ManagedNext
<1>2. UNCHANGED managedVars => UNCHANGED listVars /\ UNCHANGED certVars /\ UNCHANGED eventVars
  BY DEF managedVars
<1> QED BY <1>1, <1>2

LEMMA ManagedParts == ManagedSpec => ListSpec /\ CertSpec /\ EventSpec
<1>1. ManagedInit => ListInit /\ CertInit /\ EventInit BY DEF ManagedInit
<1>2. [ManagedNext]_managedVars
      => [ListNext]_listVars /\ [CertNext]_certVars /\ [EventNext]_eventVars
  BY ManagedStep
<1> QED BY <1>1, <1>2, PTL DEF ManagedSpec, ListSpec, CertSpec, EventSpec

\* A list and a certificate that are changed on the same servers, and the events of their
\* monitoring, get into nobody's way: what is proved of each alone holds when they run together.
THEOREM ManagedCorrect ==
  ManagedSpec => []ManagedTypeOK /\ ListChangesHonest /\ UpdateConsistent /\ EventsTakeEffectOnce
<1> DEFINE OneRuns == focus \in {"list", "certificate", "events"}
<1>1. ManagedInit => OneRuns BY DEF ManagedInit
<1>2. OneRuns /\ [ManagedNext]_managedVars => OneRuns' BY DEF ManagedNext, managedVars
<1>3. OneRuns /\ ListTypeOK /\ CertTypeOK /\ EventTypeOK => ManagedTypeOK BY DEF ManagedTypeOK
<1> HIDE DEF OneRuns
<1> QED
  BY <1>1, <1>2, <1>3, ManagedParts, ListTypeCorrect, CertTypeCorrect, EventTypeCorrect,
     ListsHonest, UpdatesConsistent, EventsOnce, PTL DEF ManagedSpec
=============================================================================
