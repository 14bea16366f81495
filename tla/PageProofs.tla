----------------------------- MODULE PageProofs -----------------------------
(* Five pages of the web interface, each by itself: what a page shows, and   *)
(* what it sends, whatever answers, timers and reloads come in between.      *)
EXTENDS CertificatePanel, MaintenancePanel, ChangeCenterView, LogFollow,
        ClusterPage, FiniteSetTheorems, SequenceTheorems, Integers, TLAPS

(* The page of the certificates. *)

Requests == [id : Nat, host : Hosts, text : Texts, name : Nat, ended : Nat]
Fields   == [open : {TRUE}, host : Hosts, text : Texts \cup {Blank}, name : Nat,
             valid : Texts \cup {Blank}, id : Nat]
Files    == [current : BOOLEAN, text : Texts]
Checks   == [step : {"timer"}, host : Hosts, text : Texts]
Sends    == [step : {"sent", "done"}, op : Requests]

PanelTyped ==
    /\ chosen \in Hosts /\ catalogue \in [Hosts -> Nat] /\ lastId \in Nat
    /\ operations \subseteq Requests /\ sending \in Sends \cup {NoCall}
    /\ dialogue \in Fields \cup {Closed} /\ check \in Checks \cup {NoCall}
    /\ reading \subseteq Files

\* A check is of what the field holds, and one file at most is read for it.
OneSource ==
    /\ check # NoCall => dialogue.open /\ check.text = dialogue.text
    /\ \A r \in reading : r.current => dialogue.open
    /\ \A r, s \in reading : r.current /\ s.current => r = s

\* The id in the dialog belongs to no request, or to the one the dialog would send.
Agrees(d, o) == d.open /\ d.id = o.id => o.host = d.host /\ o.text = d.valid /\ o.name = d.name
Known(d, last, o) == o.id # 0 /\ o.id <= last /\ Agrees(d, o)
RequestsKnown ==
    /\ dialogue.open => dialogue.id <= lastId
    /\ \A o \in operations : Known(dialogue, lastId, o)
    /\ sending # NoCall => Known(dialogue, lastId, sending.op)

SameRequest(a, b) == a.id = b.id /\ a.host = b.host /\ a.text = b.text /\ a.name = b.name
OneRequest ==
    /\ sending # NoCall => \A o \in operations : o.id = sending.op.id => SameRequest(o, sending.op)
    /\ \A a, b \in operations : a.id = b.id => a = b

ListOfChosen == (listCall # NoCall => listCall.host = chosen) /\ TableOfChosen

PanelInv == /\ PanelTyped /\ OneSource /\ RequestsKnown /\ OneRequest
            /\ CheckedIsShown /\ ListOfChosen
-----------------------------------------------------------------------------
LEMMA FieldsOf ==
  ASSUME NEW d \in Fields
  PROVE  /\ d.open /\ d.host \in Hosts /\ d.text \in Texts \cup {Blank} /\ d.name \in Nat
         /\ d.valid \in Texts \cup {Blank} /\ d.id \in Nat
BY DEF Fields

LEMMA DialogueFields ==
  ASSUME NEW d \in Fields \cup {Closed}
  PROVE  /\ d.open \in BOOLEAN
         /\ d.open => d \in Fields
         /\ ~d.open => d = Closed
<1>1. CASE d \in Fields BY <1>1 DEF Fields
<1>2. CASE d = Closed BY <1>2 DEF Closed
<1> QED BY <1>1, <1>2

LEMMA RequestFields ==
  ASSUME NEW o \in Requests
  PROVE  o.id \in Nat /\ o.host \in Hosts /\ o.text \in Texts /\ o.name \in Nat /\ o.ended \in Nat
BY DEF Requests

LEMMA SendFields ==
  ASSUME sending \in Sends \cup {NoCall}, sending # NoCall
  PROVE  sending \in Sends /\ sending.step \in {"sent", "done"} /\ sending.op \in Requests
BY DEF Sends, NoCall

LEMMA FileFields ==
  ASSUME NEW r \in Files
  PROVE  /\ r.current \in BOOLEAN /\ r.text \in Texts
         /\ [r EXCEPT !.current = FALSE] \in Files
         /\ ~([r EXCEPT !.current = FALSE]).current
         /\ ~r.current => [r EXCEPT !.current = FALSE] = r
BY DEF Files

LEMMA RequestChanged ==
  ASSUME NEW o \in Requests, NEW n \in Nat
  PROVE  LET p == [o EXCEPT !.ended = n] IN p \in Requests /\ SameRequest(p, o)
BY DEF Requests, SameRequest

LEMMA SameButEnded ==
  ASSUME NEW a \in Requests, NEW b \in Requests, SameRequest(a, b)
  PROVE  a = [b EXCEPT !.ended = a.ended]
BY DEF Requests, SameRequest

LEMMA InvNames == PanelInv => IdNamesRequest
<1> SUFFICES ASSUME PanelInv PROVE IdNamesRequest OBVIOUS
<1>1. ASSUME sending # NoCall, NEW op \in operations, op.id = sending.op.id
      PROVE  op = [sending.op EXCEPT !.ended = op.ended]
  <2>1. op \in Requests /\ sending.op \in Requests
    BY <1>1, SendFields DEF PanelInv, PanelTyped
  <2> QED BY <1>1, <2>1, SameButEnded DEF PanelInv, OneRequest
<1> QED BY <1>1 DEF IdNamesRequest, PanelInv, OneRequest

-----------------------------------------------------------------------------
\* The dialog changes, and the requests stay: what was sent keeps its id.
LEMMA RequestsStay ==
  ASSUME PanelInv, UNCHANGED <<operations, sending>>, lastId' \in Nat, lastId <= lastId',
         dialogue' \in Fields \cup {Closed},
         \/ ~dialogue'.open
         \/ dialogue'.id = 0
         \/ dialogue'.id = lastId' /\ lastId < lastId'
         \/ dialogue.open /\ dialogue'.id = dialogue.id /\ dialogue'.host = dialogue.host
               /\ dialogue'.valid = dialogue.valid /\ dialogue'.name = dialogue.name
  PROVE  RequestsKnown' /\ OneRequest'
<1>1. OneRequest' BY DEF PanelInv, OneRequest, SameRequest
<1>2. lastId \in Nat /\ dialogue \in Fields \cup {Closed} BY DEF PanelInv, PanelTyped
<1>3. dialogue'.open => dialogue'.id \in Nat BY DialogueFields, FieldsOf
<1>4. dialogue.open => dialogue.id \in Nat BY <1>2, DialogueFields, FieldsOf
<1>5. ASSUME NEW o \in Requests, Known(dialogue, lastId, o) PROVE Known(dialogue, lastId, o)'
  <2>1. o.id \in Nat BY RequestFields
  <2> QED BY <1>2, <1>3, <1>4, <1>5, <2>1 DEF Known, Agrees
<1>6. dialogue'.open => dialogue'.id <= lastId'
  BY <1>2, <1>3, <1>4 DEF PanelInv, RequestsKnown
<1>7. \A o \in operations : Known(dialogue, lastId, o)'
  BY <1>5 DEF PanelInv, PanelTyped, RequestsKnown
<1>8. sending # NoCall => Known(dialogue', lastId', sending.op)
  BY <1>5, SendFields DEF PanelInv, PanelTyped, RequestsKnown
<1> QED BY <1>1, <1>6, <1>7, <1>8 DEF RequestsKnown

LEMMA FieldsChanged ==
  ASSUME NEW d \in Fields
  PROVE  /\ \A t \in Texts :
              LET e == [d EXCEPT !.text = t] IN e \in Fields /\ e.text = t
         /\ LET e == [d EXCEPT !.valid = Blank, !.id = 0] IN
              /\ e \in Fields /\ e.text = d.text /\ e.valid = Blank /\ e.id = 0
         /\ \A n \in Nat :
              LET e == [d EXCEPT !.name = @ + 1, !.id = n] IN
              /\ e \in Fields /\ e.text = d.text /\ e.valid = d.valid /\ e.id = n
<1>1. ASSUME NEW t \in Texts
      PROVE  LET e == [d EXCEPT !.text = t] IN e \in Fields /\ e.text = t
  BY DEF Fields
<1>2. ASSUME NEW n \in Nat, NEW t \in Texts \cup {Blank}
      PROVE  LET e == [d EXCEPT !.valid = t, !.id = n] IN
             e \in Fields /\ e.text = d.text /\ e.valid = t /\ e.id = n
  BY DEF Fields
<1>3. ASSUME NEW n \in Nat
      PROVE  LET e == [d EXCEPT !.name = @ + 1, !.id = n] IN
             e \in Fields /\ e.text = d.text /\ e.valid = d.valid /\ e.id = n
  <2>1. ASSUME NEW m \in Nat
        PROVE  LET e == [d EXCEPT !.name = m, !.id = n] IN
               e \in Fields /\ e.text = d.text /\ e.valid = d.valid /\ e.id = n
    BY DEF Fields
  <2>2. d.name + 1 \in Nat BY FieldsOf
  <2> QED BY <2>1, <2>2
<1>4. 0 \in Nat /\ Blank \in Texts \cup {Blank} OBVIOUS
<1> QED BY <1>1, <1>2, <1>3, <1>4

LEMMA FieldsValid ==
  ASSUME NEW d \in Fields, NEW n \in Nat, NEW t \in Texts
  PROVE  LET e == [d EXCEPT !.valid = t, !.id = n] IN
         e \in Fields /\ e.text = d.text /\ e.valid = t /\ e.id = n
BY DEF Fields

LEMMA Rechecked ==
  ASSUME NEW d \in Fields, Recheck(d)
  PROVE  /\ dialogue' \in Fields /\ dialogue'.text = d.text
         /\ dialogue'.valid = Blank /\ dialogue'.id = 0
         /\ check' \in Checks \cup {NoCall} /\ (check' # NoCall => check'.text = d.text)
<1>1. /\ dialogue' \in Fields /\ dialogue'.text = d.text
      /\ dialogue'.valid = Blank /\ dialogue'.id = 0
  BY FieldsChanged DEF Recheck
<1>2. CASE d.text = Blank BY <1>1, <1>2 DEF Recheck
<1>3. CASE d.text # Blank
  <2> DEFINE c == [step |-> "timer", host |-> d.host, text |-> d.text]
  <2>1. c \in Checks /\ c.text = d.text BY <1>3, FieldsOf DEF Checks
  <2>2. check' = c BY <1>3 DEF Recheck
  <2> HIDE DEF c
  <2> QED BY <1>1, <2>1, <2>2
<1> QED BY <1>2, <1>3

LEMMA Dropped ==
  ASSUME reading \subseteq Files
  PROVE  /\ FilesDropped \subseteq Files /\ \A r \in FilesDropped : ~r.current
         /\ \A r \in reading : ~r.current => r \in FilesDropped
BY FileFields DEF FilesDropped

\* The table and what it waits for change, and the dialog stays.
LEMMA TableKeeps ==
  ASSUME PanelInv, UNCHANGED <<editVars, remoteVars>>, chosen' \in Hosts, ListOfChosen'
  PROVE  PanelInv'
<1>1. UNCHANGED <<operations, catalogue, dialogue, check, reading, sending, lastId>>
  BY DEF editVars, remoteVars
<1>2. PanelTyped' BY <1>1 DEF PanelInv, PanelTyped
<1>3. OneSource' /\ CheckedIsShown' BY <1>1 DEF PanelInv, OneSource, CheckedIsShown
<1>4. RequestsKnown' BY <1>1 DEF PanelInv, RequestsKnown, Known, Agrees
<1>5. OneRequest' BY <1>1 DEF PanelInv, OneRequest, SameRequest
<1> QED BY <1>2, <1>3, <1>4, <1>5 DEF PanelInv

\* The dialog changes, and the table stays.
LEMMA DialogKeeps ==
  ASSUME PanelInv, UNCHANGED <<chosen, remoteVars, tableVars, sending>>,
         lastId' \in Nat, lastId <= lastId',
         dialogue' \in Fields \cup {Closed}, check' \in Checks \cup {NoCall},
         reading' \subseteq Files, OneSource', CheckedIsShown',
         \/ ~dialogue'.open
         \/ dialogue'.id = 0
         \/ dialogue'.id = lastId' /\ lastId < lastId'
         \/ dialogue.open /\ dialogue'.id = dialogue.id /\ dialogue'.host = dialogue.host
               /\ dialogue'.valid = dialogue.valid /\ dialogue'.name = dialogue.name
  PROVE  PanelInv'
<1>1. UNCHANGED <<chosen, operations, catalogue, table, listCall, sending>>
  BY DEF remoteVars, tableVars
<1>2. PanelTyped' BY <1>1 DEF PanelInv, PanelTyped
<1>3. RequestsKnown' /\ OneRequest' BY <1>1, RequestsStay
<1>4. ListOfChosen' BY <1>1 DEF PanelInv, ListOfChosen, TableOfChosen
<1> QED BY <1>2, <1>3, <1>4 DEF PanelInv

-----------------------------------------------------------------------------
(* The table. *)

LEMMA SelectKeeps == ASSUME PanelInv, NEW h \in Hosts, SelectServer(h) PROVE PanelInv'
<1>1. /\ chosen' = h /\ table' = NoTable /\ listCall' = [step |-> "sent", host |-> h]
      /\ UNCHANGED <<editVars, remoteVars>>
  BY DEF SelectServer, LoadTable
<1>2. ListOfChosen' BY <1>1 DEF ListOfChosen, TableOfChosen
<1> QED BY <1>1, <1>2, TableKeeps

LEMMA ServeListKeeps == ASSUME PanelInv, ServeList_ PROVE PanelInv'
<1>1. /\ listCall.step = "sent" /\ listCall'.host = listCall.host
      /\ UNCHANGED <<chosen, table, editVars, remoteVars>>
  BY DEF ServeList_
<1>2. listCall # NoCall BY <1>1 DEF NoCall
<1>3. chosen \in Hosts BY DEF PanelInv, PanelTyped
<1>4. ListOfChosen' BY <1>1, <1>2 DEF PanelInv, ListOfChosen, TableOfChosen
<1> QED BY <1>1, <1>3, <1>4, TableKeeps

LEMMA ListLostKeeps == ASSUME PanelInv, ListLost PROVE PanelInv'
<1>1. listCall' = NoCall /\ UNCHANGED <<chosen, table, editVars, remoteVars>> BY DEF ListLost
<1>2. chosen \in Hosts BY DEF PanelInv, PanelTyped
<1>3. ListOfChosen' BY <1>1 DEF PanelInv, ListOfChosen, TableOfChosen
<1> QED BY <1>1, <1>2, <1>3, TableKeeps

LEMMA MonitorKeeps ==
  ASSUME PanelInv, MonitorTimer \/ MonitorAnswered \/ MonitorLost
  PROVE  PanelInv'
<1>1. /\ UNCHANGED <<chosen, editVars, remoteVars>>
      /\ \/ UNCHANGED <<table, listCall>>
         \/ table' = NoTable /\ listCall' = [step |-> "sent", host |-> chosen]
  BY DEF MonitorTimer, MonitorAnswered, MonitorLost
<1>2. chosen \in Hosts BY DEF PanelInv, PanelTyped
<1>3. ListOfChosen' BY <1>1 DEF PanelInv, ListOfChosen, TableOfChosen
<1> QED BY <1>1, <1>2, <1>3, TableKeeps

LEMMA ShownKeeps == ASSUME PanelInv, ListShown PROVE PanelInv'
<1>1. /\ listCall.step = "read" /\ listCall' = NoCall
      /\ table' = [host |-> listCall.host, seen |-> listCall.seen]
      /\ UNCHANGED <<chosen, remoteVars, reading, sending, lastId>>
  BY DEF ListShown
<1>2. listCall.host = chosen
  <2>1. listCall # NoCall BY <1>1 DEF NoCall
  <2> QED BY <2>1 DEF PanelInv, ListOfChosen
<1>3. ListOfChosen' BY <1>1, <1>2 DEF ListOfChosen, TableOfChosen
<1>4. chosen \in Hosts /\ lastId \in Nat /\ dialogue \in Fields \cup {Closed}
  BY DEF PanelInv, PanelTyped
<1>5. CASE dialogue.open /\ sending = NoCall
  <2>1. Recheck(dialogue) /\ dialogue \in Fields BY <1>4, <1>5, DialogueFields DEF ListShown
  <2>2. /\ dialogue' \in Fields /\ dialogue'.text = dialogue.text
        /\ dialogue'.valid = Blank /\ dialogue'.id = 0
        /\ check' \in Checks \cup {NoCall} /\ (check' # NoCall => check'.text = dialogue.text)
    BY <2>1, Rechecked
  <2>3. dialogue'.open BY <2>2, FieldsOf
  <2>4. OneSource' /\ CheckedIsShown' BY <1>1, <2>2, <2>3 DEF PanelInv, OneSource, CheckedIsShown
  <2>5. PanelTyped' BY <1>1, <2>2 DEF remoteVars, PanelInv, PanelTyped
  <2>6. UNCHANGED <<operations, sending, lastId>> BY <1>1 DEF remoteVars
  <2>7. RequestsKnown' /\ OneRequest' BY <1>4, <2>2, <2>6, RequestsStay
  <2> QED BY <1>3, <2>4, <2>5, <2>7 DEF PanelInv
<1>6. CASE ~(dialogue.open /\ sending = NoCall)
  <2>1. UNCHANGED <<editVars, remoteVars, chosen>> BY <1>1, <1>6 DEF ListShown, editVars
  <2> QED BY <1>3, <1>4, <2>1, TableKeeps
<1> QED BY <1>5, <1>6
-----------------------------------------------------------------------------
(* The dialog. *)

LEMMA OpenKeeps == ASSUME PanelInv, OpenDialog PROVE PanelInv'
<1> DEFINE d == [open |-> TRUE, host |-> chosen, text |-> Blank, name |-> 0, valid |-> Blank, id |-> 0]
<1>1. /\ ~dialogue.open /\ dialogue' = d /\ check' = NoCall
      /\ UNCHANGED <<chosen, remoteVars, tableVars, reading, sending, lastId>>
  BY DEF OpenDialog
<1>2. chosen \in Hosts /\ lastId \in Nat /\ reading \subseteq Files
  BY DEF PanelInv, PanelTyped
<1>3. d \in Fields /\ d.id = 0 /\ d.valid = Blank BY <1>2 DEF Fields
<1> HIDE DEF d
<1>4. OneSource' BY <1>1, <1>2 DEF PanelInv, OneSource
<1>5. CheckedIsShown' BY <1>1, <1>3 DEF CheckedIsShown
<1> QED BY <1>1, <1>2, <1>3, <1>4, <1>5, DialogKeeps

LEMMA CloseKeeps == ASSUME PanelInv, CloseDialog PROVE PanelInv'
<1>1. /\ dialogue' = Closed /\ check' = NoCall /\ reading' = FilesDropped
      /\ UNCHANGED <<chosen, remoteVars, tableVars, sending, lastId>>
  BY DEF CloseDialog
<1>2. lastId \in Nat /\ reading \subseteq Files BY DEF PanelInv, PanelTyped
<1>3. FilesDropped \subseteq Files /\ \A r \in FilesDropped : ~r.current BY <1>2, Dropped
<1>4. ~dialogue'.open BY <1>1 DEF Closed
<1>5. OneSource' BY <1>1, <1>3 DEF OneSource
<1>6. CheckedIsShown' BY <1>4 DEF CheckedIsShown
<1> QED BY <1>1, <1>2, <1>3, <1>4, <1>5, <1>6, DialogKeeps

\* A text comes into the field, and the one file that may be read is that of "files".
LEMMA TextKeeps ==
  ASSUME PanelInv, dialogue.open, NEW t \in Texts, Recheck([dialogue EXCEPT !.text = t]),
         UNCHANGED <<chosen, remoteVars, tableVars, sending, lastId>>,
         reading' \subseteq Files, \A r, s \in reading' : r.current /\ s.current => r = s
  PROVE  PanelInv'
<1>1. lastId \in Nat /\ dialogue \in Fields
  BY DialogueFields DEF PanelInv, PanelTyped
<1> DEFINE d == [dialogue EXCEPT !.text = t]
<1>2. d \in Fields /\ Recheck(d) BY <1>1, FieldsChanged
<1> HIDE DEF d
<1>3. /\ dialogue' \in Fields /\ dialogue'.text = d.text
      /\ dialogue'.valid = Blank /\ dialogue'.id = 0
      /\ check' \in Checks \cup {NoCall} /\ (check' # NoCall => check'.text = d.text)
  BY <1>2, Rechecked
<1>4. dialogue'.open BY <1>3, FieldsOf
<1>5. OneSource' /\ CheckedIsShown' BY <1>3, <1>4 DEF OneSource, CheckedIsShown
<1> QED BY <1>1, <1>3, <1>5, DialogKeeps

LEMMA TypeKeeps == ASSUME PanelInv, NEW t \in Texts, TypeText(t) PROVE PanelInv'
<1>1. FilesDropped \subseteq Files /\ \A r \in FilesDropped : ~r.current
  BY Dropped DEF PanelInv, PanelTyped
<1>2. reading' = FilesDropped BY DEF TypeText
<1> QED BY <1>1, <1>2, TextKeeps DEF TypeText

LEMMA ReadKeeps == ASSUME PanelInv, NEW r \in reading, FileRead(r) PROVE PanelInv'
<1>1. /\ reading' = reading \ {r} /\ reading \subseteq Files /\ lastId \in Nat
      /\ UNCHANGED <<chosen, remoteVars, tableVars, sending, lastId>>
  BY DEF FileRead, PanelInv, PanelTyped
<1>2. CASE r.current
  <2>1. dialogue.open /\ r.text \in Texts /\ Recheck([dialogue EXCEPT !.text = r.text])
    BY <1>1, <1>2, FileFields DEF FileRead, PanelInv, OneSource
  <2>2. \A a, b \in reading' : a.current /\ b.current => a = b BY <1>1 DEF PanelInv, OneSource
  <2> QED BY <1>1, <2>1, <2>2, TextKeeps
<1>3. CASE ~r.current
  <2>1. UNCHANGED <<dialogue, check>> BY <1>3 DEF FileRead
  <2>2. OneSource' /\ CheckedIsShown' BY <1>1, <2>1 DEF PanelInv, OneSource, CheckedIsShown
  <2>3. dialogue \in Fields \cup {Closed} /\ check \in Checks \cup {NoCall}
    BY DEF PanelInv, PanelTyped
  <2> QED BY <1>1, <2>1, <2>2, <2>3, DialogKeeps
<1> QED BY <1>2, <1>3

LEMMA ChooseKeeps == ASSUME PanelInv, NEW t \in Texts, ChooseFile(t) PROVE PanelInv'
<1> DEFINE f == [current |-> TRUE, text |-> t]
           d == [dialogue EXCEPT !.valid = Blank, !.id = 0]
<1>1. /\ dialogue.open /\ dialogue' = d /\ check' = NoCall /\ reading' = FilesDropped \cup {f}
      /\ UNCHANGED <<chosen, remoteVars, tableVars, sending, lastId>>
  BY DEF ChooseFile
<1>2. lastId \in Nat /\ dialogue \in Fields BY <1>1, DialogueFields DEF PanelInv, PanelTyped
<1>3. d \in Fields /\ d.valid = Blank /\ d.id = 0 BY <1>2, FieldsChanged
<1>4. d.open BY <1>3, FieldsOf
<1>5. f \in Files BY DEF Files
<1> HIDE DEF d, f
<1>6. FilesDropped \subseteq Files /\ \A r \in FilesDropped : ~r.current
  BY Dropped DEF PanelInv, PanelTyped
<1>7. OneSource' /\ CheckedIsShown' BY <1>1, <1>3, <1>4, <1>6 DEF OneSource, CheckedIsShown
<1> QED BY <1>1, <1>2, <1>3, <1>5, <1>6, <1>7, DialogKeeps

LEMMA NameKeeps == ASSUME PanelInv, EditName PROVE PanelInv'
<1> DEFINE d == [dialogue EXCEPT !.name = @ + 1, !.id = lastId + 1]
<1>1. /\ dialogue.open /\ dialogue' = d /\ lastId' = lastId + 1
      /\ UNCHANGED <<chosen, remoteVars, tableVars, check, reading, sending>>
  BY DEF EditName
<1>2. lastId \in Nat /\ lastId + 1 \in Nat /\ dialogue \in Fields
  BY <1>1, DialogueFields DEF PanelInv, PanelTyped
<1>3. d \in Fields /\ d.text = dialogue.text /\ d.valid = dialogue.valid /\ d.id = lastId + 1
  BY <1>2, FieldsChanged
<1>4. d.open BY <1>3, FieldsOf
<1> HIDE DEF d
<1>5. OneSource' BY <1>1, <1>3, <1>4 DEF PanelInv, OneSource
<1>6. CheckedIsShown' BY <1>1, <1>2, <1>3 DEF PanelInv, CheckedIsShown
<1>7. check \in Checks \cup {NoCall} /\ reading \subseteq Files BY DEF PanelInv, PanelTyped
<1>8. lastId < lastId' /\ lastId <= lastId' /\ lastId' \in Nat /\ dialogue'.id = lastId'
  BY <1>1, <1>2, <1>3
<1> QED BY <1>1, <1>3, <1>5, <1>6, <1>7, <1>8, DialogKeeps

LEMMA AnsweredKeeps == ASSUME PanelInv, CheckAnswered PROVE PanelInv'
<1>1. /\ check # NoCall /\ check' = NoCall
      /\ UNCHANGED <<chosen, remoteVars, tableVars, reading, sending>>
  BY DEF CheckAnswered
<1>2. /\ lastId \in Nat /\ lastId + 1 \in Nat /\ check \in Checks /\ reading \subseteq Files
      /\ dialogue.open /\ dialogue \in Fields /\ check.text = dialogue.text
  BY <1>1, DialogueFields DEF PanelInv, PanelTyped, OneSource
<1>3. check.text \in Texts BY <1>2 DEF Checks
<1>4. CASE UNCHANGED <<dialogue, lastId>>
  <2>1. OneSource' /\ CheckedIsShown' BY <1>1, <1>4 DEF PanelInv, OneSource, CheckedIsShown
  <2> QED BY <1>1, <1>2, <1>4, <2>1, DialogKeeps
<1>5. CASE /\ lastId' = lastId + 1
           /\ dialogue' = [dialogue EXCEPT !.valid = check.text, !.id = lastId + 1]
  <2> DEFINE d == [dialogue EXCEPT !.valid = check.text, !.id = lastId + 1]
  <2>0. PICK n \in Nat, t \in Texts : n = lastId + 1 /\ t = check.text BY <1>2, <1>3
  <2>1. d \in Fields /\ d.text = dialogue.text /\ d.valid = check.text /\ d.id = lastId + 1
    <3> DEFINE e == [dialogue EXCEPT !.valid = t, !.id = n]
    <3>1. d = e BY <2>0
    <3>2. e \in Fields /\ e.text = dialogue.text /\ e.valid = t /\ e.id = n
      BY <1>2, FieldsValid
    <3> HIDE DEF d, e
    <3> QED BY <2>0, <3>1, <3>2
  <2>2. d.open BY <2>1, FieldsOf
  <2>3. dialogue' = d BY <1>5
  <2> HIDE DEF d
  <2>4. OneSource' BY <1>1, <2>2, <2>3 DEF PanelInv, OneSource
  <2>5. CheckedIsShown' BY <1>2, <2>1, <2>3 DEF CheckedIsShown
  <2>6. lastId < lastId' /\ lastId <= lastId' /\ lastId' \in Nat /\ dialogue'.id = lastId'
    BY <1>2, <1>5, <2>1, <2>3
  <2> QED BY <1>1, <1>2, <2>1, <2>3, <2>4, <2>5, <2>6, DialogKeeps
<1> QED BY <1>4, <1>5 DEF CheckAnswered
-----------------------------------------------------------------------------
(* The requests. *)

LEMMA DoneKeeps == ASSUME PanelInv, NEW op \in operations, OperationDone(op) PROVE PanelInv'
<1>1. /\ catalogue \in [Hosts -> Nat] /\ operations \subseteq Requests /\ op \in Requests
      /\ op.host \in Hosts
  BY RequestFields DEF PanelInv, PanelTyped
<1>2. /\ catalogue' = [catalogue EXCEPT ![op.host] = @ + 1]
      /\ operations' = (operations \ {op}) \cup {[op EXCEPT !.ended = catalogue'[op.host]]}
      /\ UNCHANGED <<chosen, tableVars, editVars>>
  BY DEF OperationDone
<1>3. catalogue' \in [Hosts -> Nat]
  <2>1. catalogue[op.host] + 1 \in Nat BY <1>1
  <2> QED BY <1>1, <1>2, <2>1
<1>4. PICK n \in Nat : n = catalogue'[op.host] BY <1>1, <1>3
<1> DEFINE new == [op EXCEPT !.ended = n]
<1>5. new \in Requests /\ SameRequest(new, op) BY <1>1, RequestChanged
<1>6. operations' = (operations \ {op}) \cup {new} BY <1>2, <1>4
<1> HIDE DEF new
<1>7. UNCHANGED <<table, listCall, dialogue, check, reading, sending, lastId>>
  BY <1>2 DEF tableVars, editVars
<1>8. PanelTyped' BY <1>1, <1>2, <1>3, <1>5, <1>6, <1>7 DEF PanelInv, PanelTyped
<1>9. RequestsKnown'
  <2>1. Known(dialogue, lastId, new)
    BY <1>5 DEF PanelInv, RequestsKnown, Known, Agrees, SameRequest
  <2>2. \A o \in operations' : Known(dialogue, lastId, o)
    BY <1>6, <2>1 DEF PanelInv, RequestsKnown
  <2> QED BY <1>7, <2>2 DEF PanelInv, RequestsKnown
<1>10. OneRequest'
  <2>1. ASSUME NEW a \in operations', NEW b \in operations', a.id = b.id PROVE a = b
    BY <1>5, <1>6, <2>1 DEF PanelInv, OneRequest, SameRequest
  <2>2. ASSUME sending # NoCall, NEW o \in operations', o.id = sending.op.id
        PROVE  SameRequest(o, sending.op)
    BY <1>5, <1>6, <2>2 DEF PanelInv, OneRequest, SameRequest
  <2> QED BY <1>7, <2>1, <2>2 DEF OneRequest
<1>11. OneSource' /\ CheckedIsShown' BY <1>7 DEF PanelInv, OneSource, CheckedIsShown
<1>12. ListOfChosen' BY <1>2, <1>7 DEF PanelInv, ListOfChosen, TableOfChosen
<1> QED BY <1>8, <1>9, <1>10, <1>11, <1>12 DEF PanelInv

\* A request reaches the server, is made, or is over, while the dialog stays.
LEMMA CallKeeps ==
  ASSUME PanelInv, UNCHANGED <<chosen, catalogue, table, listCall, dialogue, check, reading, lastId>>,
         sending' \in Sends \cup {NoCall}, operations' \subseteq Requests,
         RequestsKnown', OneRequest'
  PROVE  PanelInv'
<1>1. PanelTyped' BY DEF PanelInv, PanelTyped
<1>2. OneSource' /\ CheckedIsShown' BY DEF PanelInv, OneSource, CheckedIsShown
<1>3. ListOfChosen' BY DEF PanelInv, ListOfChosen, TableOfChosen
<1> QED BY <1>1, <1>2, <1>3 DEF PanelInv

LEMMA ServeKeeps == ASSUME PanelInv, ServeSend PROVE PanelInv'
<1>1. /\ sending.step = "sent" /\ sending' = [sending EXCEPT !.step = "done"]
      /\ UNCHANGED <<chosen, catalogue, table, listCall, dialogue, check, reading, lastId>>
      /\ IF \E o \in operations : o.id = sending.op.id
         THEN UNCHANGED operations ELSE operations' = operations \cup {sending.op}
  BY DEF ServeSend, tableVars
<1>2. sending # NoCall BY <1>1 DEF NoCall
<1>3. sending \in Sends /\ sending.op \in Requests BY <1>2, SendFields DEF PanelInv, PanelTyped
<1>4. sending' \in Sends /\ sending'.op = sending.op BY <1>1, <1>3 DEF Sends
<1>5. operations \subseteq Requests BY DEF PanelInv, PanelTyped
<1>6. CASE \E o \in operations : o.id = sending.op.id
  <2>1. operations' = operations BY <1>1, <1>6
  <2>2. RequestsKnown' BY <1>1, <1>2, <1>4, <2>1 DEF PanelInv, RequestsKnown, Known, Agrees
  <2>3. OneRequest' BY <1>2, <1>4, <2>1 DEF PanelInv, OneRequest, SameRequest
  <2> QED BY <1>1, <1>4, <1>5, <2>1, <2>2, <2>3, CallKeeps
<1>7. CASE ~\E o \in operations : o.id = sending.op.id
  <2>1. operations' = operations \cup {sending.op} BY <1>1, <1>7
  <2>2. operations' \subseteq Requests BY <1>3, <1>5, <2>1
  <2>3. RequestsKnown' BY <1>1, <1>2, <1>4, <2>1 DEF PanelInv, RequestsKnown, Known, Agrees
  <2>4. OneRequest' BY <1>2, <1>4, <1>7, <2>1 DEF PanelInv, OneRequest, SameRequest
  <2> QED BY <1>1, <1>4, <2>2, <2>3, <2>4, CallKeeps
<1> QED BY <1>6, <1>7

LEMMA UpdateKeeps == ASSUME PanelInv, SendUpdate PROVE PanelInv'
<1> DEFINE o == [id |-> dialogue.id, host |-> dialogue.host, text |-> dialogue.valid,
                 name |-> dialogue.name, ended |-> 0]
           call == [step |-> "sent", op |-> o]
<1>1. /\ dialogue.open /\ dialogue.valid # Blank /\ sending' = call
      /\ UNCHANGED <<chosen, catalogue, operations, table, listCall, dialogue, check, reading, lastId>>
  BY DEF SendUpdate, remoteVars, tableVars
<1>2. dialogue \in Fields /\ operations \subseteq Requests
  BY <1>1, DialogueFields DEF PanelInv, PanelTyped
<1>3. dialogue.id # 0 BY <1>1 DEF PanelInv, CheckedIsShown
<1>4. /\ o \in Requests /\ o.id = dialogue.id /\ o.host = dialogue.host
      /\ o.text = dialogue.valid /\ o.name = dialogue.name
  BY <1>1, <1>2, FieldsOf DEF Requests
<1> HIDE DEF o
<1>5. call \in Sends /\ call.op = o BY <1>4 DEF Sends
<1> HIDE DEF call
<1>6. RequestsKnown' BY <1>1, <1>3, <1>4, <1>5 DEF PanelInv, RequestsKnown, Known, Agrees
<1>7. OneRequest'
  <2>1. \A r \in operations : r.id = o.id => SameRequest(r, o)
    BY <1>1, <1>4 DEF PanelInv, RequestsKnown, Known, Agrees, SameRequest
  <2> QED BY <1>1, <1>5, <2>1 DEF PanelInv, OneRequest, SameRequest
<1> QED BY <1>1, <1>2, <1>5, <1>6, <1>7, CallKeeps

LEMMA LostKeeps == ASSUME PanelInv, SendLost PROVE PanelInv'
<1>1. /\ sending' = NoCall
      /\ UNCHANGED <<chosen, catalogue, operations, table, listCall, dialogue, check, reading, lastId>>
  BY DEF SendLost, remoteVars, tableVars
<1>2. operations' \subseteq Requests BY <1>1 DEF PanelInv, PanelTyped
<1>3. RequestsKnown' BY <1>1 DEF PanelInv, RequestsKnown, Known, Agrees
<1>4. OneRequest' BY <1>1 DEF PanelInv, OneRequest, SameRequest
<1> QED BY <1>1, <1>2, <1>3, <1>4, CallKeeps

LEMMA SentKeeps == ASSUME PanelInv, SendAnswered PROVE PanelInv'
<1>1. /\ sending' = NoCall /\ dialogue' = Closed /\ check' = NoCall /\ reading' = FilesDropped
      /\ table' = NoTable /\ listCall' = [step |-> "sent", host |-> chosen]
      /\ UNCHANGED <<chosen, catalogue, operations, lastId>>
  BY DEF SendAnswered, LoadTable, remoteVars
<1>2. FilesDropped \subseteq Files /\ \A r \in FilesDropped : ~r.current
  BY Dropped DEF PanelInv, PanelTyped
<1>3. ~dialogue'.open BY <1>1 DEF Closed
<1>4. PanelTyped' BY <1>1, <1>2 DEF PanelInv, PanelTyped
<1>5. OneSource' BY <1>1, <1>2 DEF OneSource
<1>6. CheckedIsShown' BY <1>3 DEF CheckedIsShown
<1>7. RequestsKnown' BY <1>1, <1>3 DEF PanelInv, RequestsKnown, Known, Agrees
<1>8. OneRequest' BY <1>1 DEF PanelInv, OneRequest, SameRequest
<1>9. ListOfChosen' BY <1>1 DEF ListOfChosen, TableOfChosen
<1> QED BY <1>4, <1>5, <1>6, <1>7, <1>8, <1>9 DEF PanelInv
-----------------------------------------------------------------------------
LEMMA PanelInitially == PanelInit => PanelInv
<1> SUFFICES ASSUME PanelInit PROVE PanelInv OBVIOUS
<1>1. chosen \in Hosts BY PanelAssumption DEF PanelInit
<1>2. ~dialogue.open BY DEF PanelInit, Closed
<1>3. PanelTyped BY <1>1 DEF PanelInit, PanelTyped
<1>4. OneSource BY DEF PanelInit, OneSource
<1>5. RequestsKnown BY <1>2 DEF PanelInit, RequestsKnown
<1>6. OneRequest BY DEF PanelInit, OneRequest
<1>7. CheckedIsShown BY <1>2 DEF CheckedIsShown
<1>8. ListOfChosen BY DEF PanelInit, ListOfChosen, TableOfChosen
<1> QED BY <1>3, <1>4, <1>5, <1>6, <1>7, <1>8 DEF PanelInv

LEMMA PanelKeeps == PanelInv /\ [PanelNext]_panelVars => PanelInv'
<1> SUFFICES ASSUME PanelInv, [PanelNext]_panelVars PROVE PanelInv' OBVIOUS
<1>1. ASSUME NEW op \in operations, OperationDone(op) PROVE PanelInv' BY <1>1, DoneKeeps
<1>2. CASE ServeSend BY <1>2, ServeKeeps
<1>3. ASSUME NEW h \in Hosts, SelectServer(h) PROVE PanelInv' BY <1>3, SelectKeeps
<1>4. CASE ServeList_ BY <1>4, ServeListKeeps
<1>5. CASE ListShown BY <1>5, ShownKeeps
<1>6. CASE ListLost BY <1>6, ListLostKeeps
<1>7. CASE MonitorTimer \/ MonitorAnswered \/ MonitorLost BY <1>7, MonitorKeeps
<1>8. CASE OpenDialog BY <1>8, OpenKeeps
<1>9. CASE CloseDialog BY <1>9, CloseKeeps
<1>10. ASSUME NEW t \in Texts, TypeText(t) PROVE PanelInv' BY <1>10, TypeKeeps
<1>11. ASSUME NEW t \in Texts, ChooseFile(t) PROVE PanelInv' BY <1>11, ChooseKeeps
<1>12. ASSUME NEW r \in reading, FileRead(r) PROVE PanelInv' BY <1>12, ReadKeeps
<1>13. CASE EditName BY <1>13, NameKeeps
<1>14. CASE CheckAnswered BY <1>14, AnsweredKeeps
<1>15. CASE SendUpdate BY <1>15, UpdateKeeps
<1>16. CASE SendAnswered BY <1>16, SentKeeps
<1>17. CASE SendLost BY <1>17, LostKeeps
<1>18. CASE UNCHANGED panelVars
  <2>1. UNCHANGED <<chosen, table, listCall, editVars, remoteVars>>
    BY <1>18 DEF panelVars, editVars, remoteVars
  <2>2. chosen \in Hosts BY DEF PanelInv, PanelTyped
  <2>3. ListOfChosen' BY <2>1 DEF PanelInv, ListOfChosen, TableOfChosen
  <2> QED BY <2>1, <2>2, <2>3, TableKeeps
<1> QED BY <1>1, <1>2, <1>3, <1>4, <1>5, <1>6, <1>7, <1>8, <1>9, <1>10, <1>11, <1>12, <1>13,
           <1>14, <1>15, <1>16, <1>17, <1>18 DEF PanelNext

\* What a step may do to the field: a file that was dropped changes nothing, and a text
\* that comes in is unchecked and the last word.
FieldRuled ==
    /\ \A r \in reading \ reading' : ~r.current => dialogue' = dialogue
    /\ dialogue'.open /\ dialogue.open /\ dialogue'.text # dialogue.text
          => dialogue'.valid = Blank /\ Cardinality({r \in reading' : r.current}) = 0

LEMMA NoneCurrent ==
  ASSUME \A r \in reading' : ~r.current
  PROVE  Cardinality({r \in reading' : r.current}) = 0
<1>1. {r \in reading' : r.current} = {} OBVIOUS
<1> QED BY <1>1, FS_EmptySet

LEMMA FieldFollowsUser == PanelInv /\ [PanelNext]_panelVars => FieldRuled
<1> SUFFICES ASSUME PanelInv, [PanelNext]_panelVars PROVE FieldRuled OBVIOUS
<1>1. /\ reading \subseteq Files /\ FilesDropped \subseteq Files /\ \A r \in FilesDropped : ~r.current
      /\ \A r \in reading : ~r.current => r \in FilesDropped
      /\ dialogue.open => dialogue \in Fields
  BY Dropped, DialogueFields DEF PanelInv, PanelTyped
<1>2. CASE UNCHANGED <<dialogue, reading>> BY <1>2 DEF FieldRuled
<1>3. CASE reading' = FilesDropped /\ dialogue' = Closed
  BY <1>1, <1>3 DEF FieldRuled, Closed
<1>4. ASSUME NEW t \in Texts, dialogue.open, Recheck([dialogue EXCEPT !.text = t]),
             \A r \in reading' : ~r.current, \A r \in reading : ~r.current => r \in reading'
      PROVE  FieldRuled
  <2>1. [dialogue EXCEPT !.text = t] \in Fields BY <1>1, <1>4, FieldsChanged
  <2>2. dialogue'.valid = Blank BY <1>4, <2>1, Rechecked
  <2> QED BY <1>4, <2>2, NoneCurrent DEF FieldRuled
<1>5. CASE OpenDialog BY <1>5 DEF OpenDialog, FieldRuled
<1>6. ASSUME NEW t \in Texts, TypeText(t) PROVE FieldRuled
  BY <1>1, <1>4, <1>6 DEF TypeText
<1>7. ASSUME NEW r \in reading, FileRead(r) PROVE FieldRuled
  <2>1. CASE r.current
    <3>1. dialogue.open /\ r.text \in Texts /\ Recheck([dialogue EXCEPT !.text = r.text])
      BY <1>1, <1>7, <2>1, FileFields DEF FileRead, PanelInv, OneSource
    <3>2. reading' = reading \ {r} BY <1>7 DEF FileRead
    <3>3. (\A a \in reading' : ~a.current) /\ \A a \in reading : ~a.current => a \in reading'
      BY <2>1, <3>2 DEF PanelInv, OneSource
    <3> QED BY <1>4, <3>1, <3>3
  <2>2. CASE ~r.current BY <1>7, <2>2 DEF FileRead, FieldRuled
  <2> QED BY <2>1, <2>2
<1>8. \* The other acts leave the text and the files that were dropped.
      ASSUME dialogue'.open /\ dialogue.open => dialogue'.text = dialogue.text,
             \A r \in reading : ~r.current => r \in reading'
      PROVE  FieldRuled
  BY <1>8 DEF FieldRuled
<1>9. ASSUME NEW t \in Texts, ChooseFile(t) PROVE FieldRuled
  <2>1. dialogue.open /\ dialogue' = [dialogue EXCEPT !.valid = Blank, !.id = 0]
    BY <1>9 DEF ChooseFile
  <2>2. dialogue'.text = dialogue.text BY <1>1, <2>1, FieldsChanged
  <2>3. \A r \in reading : ~r.current => r \in reading' BY <1>1, <1>9 DEF ChooseFile
  <2> QED BY <1>8, <2>2, <2>3
<1>10. CASE ListShown
  <2>1. CASE dialogue.open /\ sending = NoCall
    <3>1. Recheck(dialogue) /\ dialogue \in Fields BY <1>1, <1>10, <2>1 DEF ListShown
    <3>2. dialogue'.text = dialogue.text BY <3>1, Rechecked
    <3> QED BY <1>8, <1>10, <3>2 DEF ListShown
  <2>2. CASE ~(dialogue.open /\ sending = NoCall) BY <1>2, <1>10, <2>2 DEF ListShown
  <2> QED BY <2>1, <2>2
<1>11. CASE EditName
  <2>1. /\ dialogue.open /\ dialogue' = [dialogue EXCEPT !.name = @ + 1, !.id = lastId + 1]
        /\ lastId + 1 \in Nat
    BY <1>11 DEF EditName, PanelInv, PanelTyped
  <2>2. dialogue'.text = dialogue.text BY <1>1, <2>1, FieldsChanged
  <2> QED BY <1>8, <1>11, <2>2 DEF EditName
<1>12. CASE CheckAnswered
  <2>1. CASE UNCHANGED dialogue BY <1>2, <1>12, <2>1 DEF CheckAnswered
  <2>2. CASE dialogue' = [dialogue EXCEPT !.valid = check.text, !.id = lastId + 1]
    <3>1. dialogue.open /\ dialogue \in Fields /\ check.text \in Texts /\ lastId + 1 \in Nat
      BY <1>1, <1>12 DEF CheckAnswered, PanelInv, PanelTyped, OneSource, Checks
    <3>2. dialogue'.text = dialogue.text BY <2>2, <3>1 DEF Fields
    <3> QED BY <1>8, <1>12, <3>2 DEF CheckAnswered
  <2> QED BY <1>12, <2>1, <2>2 DEF CheckAnswered
<1>13. \/ UNCHANGED <<dialogue, reading>>
       \/ reading' = FilesDropped /\ dialogue' = Closed
       \/ OpenDialog
       \/ \E t \in Texts : TypeText(t) \/ ChooseFile(t)
       \/ \E r \in reading : FileRead(r)
       \/ ListShown
       \/ EditName
       \/ CheckAnswered
  BY DEF PanelNext, panelVars, editVars, OperationDone, ServeSend, SelectServer, ServeList_, ListLost,
         MonitorTimer, MonitorAnswered, MonitorLost, CloseDialog, SendUpdate, SendAnswered, SendLost
<1> QED BY <1>2, <1>3, <1>5, <1>6, <1>7, <1>9, <1>10, <1>11, <1>12, <1>13

\* The dialog with a certificate: whatever answer, file or reload comes in between, what is
\* sent is what was typed or chosen last and seen checked, under an id of its own.
THEOREM SentAsSeen == PanelSpec => SentAsMeant
<1>1. PanelInv => RequestsTrue
  BY InvNames DEF PanelInv, ListOfChosen, RequestsTrue
<1>2. FieldRuled =>
        /\ \A r \in reading \ reading' : ~r.current => dialogue' = dialogue
        /\ dialogue'.open /\ dialogue.open /\ dialogue'.text # dialogue.text
              => dialogue'.valid = Blank /\ Cardinality({r \in reading' : r.current}) = 0
  BY DEF FieldRuled
<1> QED BY <1>1, <1>2, PanelInitially, PanelKeeps, FieldFollowsUser, PTL
        DEF PanelSpec, SentAsMeant, FieldIsTheUsers, LateFileDropped, TypedTextKept
-----------------------------------------------------------------------------
(* The types. *)

ListCalls == [step : {"sent"}, host : Hosts] \cup
             [step : {"read"}, host : Hosts, seen : Nat, pending : SUBSET Nat]
Left      == [edits : 0..MaxEdits, sends : 0..MaxSends, misses : 0..MaxMisses]
TableTyped ==
    /\ table \in [host : Hosts, seen : Nat] \cup {NoTable}
    /\ listCall \in ListCalls \cup {NoCall}
    /\ monitor.step \in {"none", "timer", "sent"}

\* A name is edited as often as the bound says, and the catalogue counts the
\* operations that have ended, each with its own id.
NameBounded(d) == d.open => d.name + panelLeft.edits <= MaxEdits
EndedAt(h)     == {o \in operations : o.ended # 0 /\ o.host = h}
PanelBounded ==
    /\ panelLeft \in Left /\ lastId <= MaxIds
    /\ NameBounded(dialogue)
    /\ \A o \in operations : o.name <= MaxEdits /\ o.ended <= MaxIds
    /\ sending # NoCall => sending.op.name <= MaxEdits /\ sending.op.ended = 0
    /\ \A h \in Hosts : catalogue[h] = Cardinality(EndedAt(h))

LEMMA PanelLeftFields ==
  ASSUME NEW l \in Left
  PROVE  l.edits \in 0..MaxEdits /\ l.sends \in 0..MaxSends /\ l.misses \in 0..MaxMisses
BY DEF Left

LEMMA Taken ==
  ASSUME panelLeft \in Left, NEW kind \in {"edits", "sends", "misses"}, Take(kind)
  PROVE  /\ panelLeft' \in Left
         /\ panelLeft'.edits = IF kind = "edits" THEN panelLeft.edits - 1 ELSE panelLeft.edits
<1>1. PICK l \in Left : l = panelLeft OBVIOUS
<1>2. l.edits \in 0..MaxEdits /\ l.sends \in 0..MaxSends /\ l.misses \in 0..MaxMisses
  BY PanelLeftFields
<1>3. l[kind] > 0 /\ panelLeft' = [l EXCEPT ![kind] = @ - 1] BY <1>1 DEF Take
<1>4. CASE kind = "edits"
  <2>1. l.edits - 1 \in 0..MaxEdits BY <1>2, <1>3, <1>4, PanelAssumption
  <2>2. PICK n \in 0..MaxEdits : n = l.edits - 1 BY <2>1
  <2>3. panelLeft' = [l EXCEPT !.edits = n] BY <1>3, <1>4, <2>2
  <2> QED BY <1>1, <1>4, <2>2, <2>3 DEF Left
<1>5. CASE kind = "sends"
  <2>1. l.sends - 1 \in 0..MaxSends BY <1>2, <1>3, <1>5, PanelAssumption
  <2>2. PICK n \in 0..MaxSends : n = l.sends - 1 BY <2>1
  <2>3. panelLeft' = [l EXCEPT !.sends = n] BY <1>3, <1>5, <2>2
  <2> QED BY <1>1, <1>5, <2>3 DEF Left
<1>6. CASE kind = "misses"
  <2>1. l.misses - 1 \in 0..MaxMisses BY <1>2, <1>3, <1>6, PanelAssumption
  <2>2. PICK n \in 0..MaxMisses : n = l.misses - 1 BY <2>1
  <2>3. panelLeft' = [l EXCEPT !.misses = n] BY <1>3, <1>6, <2>2
  <2> QED BY <1>1, <1>6, <2>3 DEF Left
<1> QED BY <1>4, <1>5, <1>6

-----------------------------------------------------------------------------
(* The table. *)

LEMMA ListCallFields ==
  ASSUME NEW c \in ListCalls \cup {NoCall}
  PROVE  /\ c.step \in {"none", "sent", "read"}
         /\ c.step # "none" => c.host \in Hosts
         /\ c.step = "read" => c.seen \in Nat /\ c.pending \in SUBSET Nat
<1>1. CASE c \in [step : {"sent"}, host : Hosts] BY <1>1
<1>2. CASE c \in [step : {"read"}, host : Hosts, seen : Nat, pending : SUBSET Nat] BY <1>2
<1>3. CASE c = NoCall BY <1>3 DEF NoCall
<1> QED BY <1>1, <1>2, <1>3 DEF ListCalls

LEMMA CallsMade ==
  /\ \A h \in Hosts : [step |-> "sent", host |-> h] \in ListCalls
  /\ \A h \in Hosts, n \in Nat, S \in SUBSET Nat :
        [step |-> "read", host |-> h, seen |-> n, pending |-> S] \in ListCalls
  /\ NoCall \in ListCalls \cup {NoCall} /\ NoCall.step = "none"
BY DEF ListCalls, NoCall

LEMMA LoadTyped ==
  ASSUME TableTyped, NEW h \in Hosts, LoadTable(h) PROVE TableTyped'
<1>1. table' = NoTable /\ listCall' \in ListCalls BY CallsMade DEF LoadTable
<1>2. monitor'.step \in {"none", "timer", "sent"}
  <2>1. CASE monitor.step = "sent"
    <3>1. monitor' = [monitor EXCEPT !.current = FALSE] BY <2>1 DEF LoadTable
    <3> QED BY <2>1, <3>1
  <2>2. CASE monitor.step # "sent" BY <2>2, CallsMade DEF LoadTable
  <2> QED BY <2>1, <2>2
<1> QED BY <1>1, <1>2 DEF TableTyped

LEMMA TableKept == TableTyped /\ PanelInv /\ [PanelNext]_panelVars => TableTyped'
<1> SUFFICES ASSUME TableTyped, PanelInv, [PanelNext]_panelVars PROVE TableTyped' OBVIOUS
<1>1. ASSUME UNCHANGED tableVars PROVE TableTyped' BY <1>1 DEF tableVars, TableTyped
<1>2. chosen \in Hosts /\ catalogue \in [Hosts -> Nat] /\ operations \subseteq Requests
  BY DEF PanelInv, PanelTyped
<1>3. ASSUME NEW h \in Hosts, SelectServer(h) PROVE TableTyped'
  BY <1>3, LoadTyped DEF SelectServer
<1>4. CASE ServeList_
  <2>1. listCall.host \in Hosts BY <1>4, ListCallFields DEF ServeList_, TableTyped
  <2>2. catalogue[listCall.host] \in Nat BY <1>2, <2>1
  <2> DEFINE S == {op.id : op \in {x \in operations : Active(x) /\ x.host = listCall.host}}
  <2>3. S \in SUBSET Nat BY <1>2, RequestFields
  <2>4. listCall' = [step |-> "read", host |-> listCall.host, seen |-> catalogue[listCall.host],
                     pending |-> S]
    BY <1>4 DEF ServeList_
  <2> HIDE DEF S
  <2>5. listCall' \in ListCalls BY <2>1, <2>2, <2>3, <2>4, CallsMade
  <2> QED BY <1>4, <2>5 DEF ServeList_, TableTyped
<1>5. CASE ListShown
  <2>1. listCall.host \in Hosts /\ listCall.seen \in Nat
    BY <1>5, ListCallFields DEF ListShown, TableTyped
  <2>2. table' \in [host : Hosts, seen : Nat] BY <1>5, <2>1 DEF ListShown
  <2>3. monitor'.step \in {"none", "timer", "sent"} BY <1>5 DEF ListShown, TableTyped
  <2> QED BY <1>5, <2>2, <2>3 DEF ListShown, TableTyped
<1>6. CASE ListLost BY <1>6 DEF ListLost, TableTyped
<1>7. CASE MonitorTimer BY <1>7 DEF MonitorTimer, TableTyped
<1>8. CASE MonitorAnswered
  <2>1. table' \in [host : Hosts, seen : Nat] \cup {NoTable}
        /\ listCall' \in ListCalls \cup {NoCall}
    BY <1>2, <1>8, CallsMade DEF MonitorAnswered, TableTyped
  <2>2. monitor'.step \in {"none", "timer", "sent"} BY <1>8, CallsMade DEF MonitorAnswered
  <2> QED BY <2>1, <2>2 DEF TableTyped
<1>9. CASE MonitorLost BY <1>9, CallsMade DEF MonitorLost, TableTyped
<1>10. CASE SendAnswered BY <1>2, <1>10, LoadTyped DEF SendAnswered
<1>11. ASSUME NEW op \in operations, OperationDone(op) PROVE TableTyped'
  BY <1>1, <1>11 DEF OperationDone
<1>12. ASSUME NEW t \in Texts, TypeText(t) \/ ChooseFile(t) PROVE TableTyped'
  BY <1>1, <1>12 DEF TypeText, ChooseFile
<1>13. ASSUME NEW r \in reading, FileRead(r) PROVE TableTyped' BY <1>1, <1>13 DEF FileRead
<1>14. CASE ServeSend \/ OpenDialog \/ CloseDialog \/ EditName \/ CheckAnswered \/ SendUpdate \/ SendLost
  BY <1>1, <1>14 DEF ServeSend, OpenDialog, CloseDialog, EditName, CheckAnswered, SendUpdate, SendLost
<1>15. CASE UNCHANGED panelVars BY <1>1, <1>15 DEF panelVars, tableVars
<1> QED
  BY <1>3, <1>4, <1>5, <1>6, <1>7, <1>8, <1>9, <1>10, <1>11, <1>12, <1>13, <1>14, <1>15 DEF PanelNext
-----------------------------------------------------------------------------
(* The dialog and the requests. *)

LEMMA NamesStay ==
  ASSUME NEW d \in Fields
  PROVE  /\ \A t \in Texts : ([d EXCEPT !.text = t]).name = d.name
         /\ \A t \in Texts \cup {Blank}, n \in Nat : ([d EXCEPT !.valid = t, !.id = n]).name = d.name
         /\ \A n \in Nat : ([d EXCEPT !.name = @ + 1, !.id = n]).name = d.name + 1
BY DEF Fields

LEMMA TextChanged ==
  ASSUME NEW d \in Fields, NEW t \in Texts
  PROVE  [d EXCEPT !.text = t] \in Fields /\ ([d EXCEPT !.text = t]).name = d.name
BY FieldsChanged, NamesStay

LEMMA RecheckNames ==
  ASSUME NEW d \in Fields, Recheck(d) PROVE dialogue'.name = d.name
BY NamesStay DEF Recheck

LEMMA NamesBounded ==
  ASSUME PanelBounded, panelLeft' \in Left, panelLeft'.edits <= panelLeft.edits,
         dialogue'.open => (dialogue.open /\ dialogue'.name = dialogue.name) \/ dialogue'.name = 0,
         PanelInv
  PROVE  NameBounded(dialogue)'
<1>1. panelLeft.edits \in Nat /\ panelLeft'.edits \in Nat /\ panelLeft'.edits <= MaxEdits
  BY PanelAssumption, PanelLeftFields DEF PanelBounded
<1>2. dialogue.open => dialogue.name \in Nat
  BY DialogueFields, FieldsOf DEF PanelInv, PanelTyped
<1> QED BY <1>1, <1>2, PanelAssumption DEF PanelBounded, NameBounded

LEMMA NamesKept ==
  PanelBounded /\ PanelInv /\ [PanelNext]_panelVars
    => panelLeft' \in Left /\ lastId' <= MaxIds /\ NameBounded(dialogue)'
<1> SUFFICES ASSUME PanelBounded, PanelInv, [PanelNext]_panelVars
             PROVE  panelLeft' \in Left /\ lastId' <= MaxIds /\ NameBounded(dialogue)'
  OBVIOUS
<1> DEFINE Goal == panelLeft' \in Left /\ lastId' <= MaxIds /\ NameBounded(dialogue)'
<1>1. panelLeft \in Left /\ panelLeft.edits \in Nat /\ lastId <= MaxIds /\ lastId \in Nat
  BY PanelLeftFields, PanelAssumption DEF PanelBounded, PanelInv, PanelTyped
<1>2. dialogue \in Fields \cup {Closed} /\ (dialogue.open => dialogue \in Fields)
  BY DialogueFields DEF PanelInv, PanelTyped
<1>3. ASSUME \/ panelLeft' = panelLeft
             \/ Take("edits") \/ Take("sends") \/ Take("misses"),
             lastId' = lastId \/ (lastId' = lastId + 1 /\ lastId < MaxIds),
             dialogue'.open => (dialogue.open /\ dialogue'.name = dialogue.name) \/ dialogue'.name = 0
      PROVE  Goal
  <2>1. panelLeft' \in Left /\ panelLeft'.edits <= panelLeft.edits BY <1>1, <1>3, Taken
  <2>2. lastId' <= MaxIds BY <1>1, <1>3, PanelAssumption
  <2> QED BY <1>3, <2>1, <2>2, NamesBounded
<1> SUFFICES Goal OBVIOUS
<1> HIDE DEF Goal
<1>4. ASSUME UNCHANGED <<dialogue, lastId>>,
             panelLeft' = panelLeft \/ Take("edits") \/ Take("sends") \/ Take("misses")
      PROVE  Goal
  <2>1. dialogue'.open => dialogue.open /\ dialogue'.name = dialogue.name BY <1>4
  <2> QED BY <1>3, <1>4, <2>1
<1>5. ASSUME NEW op \in operations, OperationDone(op) PROVE Goal
  BY <1>4, <1>5 DEF OperationDone, editVars
<1>6. CASE ServeSend \/ SendUpdate \/ SendLost BY <1>4, <1>6 DEF ServeSend, SendUpdate, SendLost
<1>7. ASSUME NEW h \in Hosts, SelectServer(h) PROVE Goal BY <1>4, <1>7 DEF SelectServer, editVars
<1>8. CASE ServeList_ \/ ListLost \/ MonitorTimer \/ MonitorAnswered \/ MonitorLost
  BY <1>4, <1>8 DEF ServeList_, ListLost, MonitorTimer, MonitorAnswered, MonitorLost, editVars
<1>9. CASE ListShown
  <2>1. UNCHANGED <<lastId, panelLeft>> BY <1>9 DEF ListShown
  <2>2. CASE dialogue.open /\ sending = NoCall
    <3>1. dialogue'.name = dialogue.name BY <1>2, <1>9, <2>2, RecheckNames DEF ListShown
    <3> QED BY <1>3, <2>1, <2>2, <3>1
  <2>3. CASE ~(dialogue.open /\ sending = NoCall) BY <1>4, <1>9, <2>1, <2>3 DEF ListShown
  <2> QED BY <2>2, <2>3
<1>10. CASE OpenDialog
  <2>1. dialogue'.name = 0 /\ UNCHANGED <<lastId, panelLeft>> BY <1>10 DEF OpenDialog
  <2> QED BY <1>3, <2>1
<1>11. CASE CloseDialog \/ SendAnswered
  <2>1. ~dialogue'.open BY <1>11 DEF CloseDialog, SendAnswered, Closed
  <2> QED BY <1>3, <1>11, <2>1 DEF CloseDialog, SendAnswered
<1>12. ASSUME NEW t \in Texts, TypeText(t) PROVE Goal
  <2>1. dialogue \in Fields BY <1>2, <1>12 DEF TypeText
  <2>2. PICK d \in Fields : d = [dialogue EXCEPT !.text = t] /\ d.name = dialogue.name
    BY <2>1, TextChanged
  <2>3. dialogue'.name = dialogue.name BY <1>12, <2>2, RecheckNames DEF TypeText
  <2> QED BY <1>3, <1>12, <2>3 DEF TypeText
<1>13. ASSUME NEW t \in Texts, ChooseFile(t) PROVE Goal
  <2>1. dialogue'.name = dialogue.name BY <1>2, <1>13, NamesStay DEF ChooseFile
  <2> QED BY <1>3, <1>13, <2>1 DEF ChooseFile
<1>14. ASSUME NEW r \in reading, FileRead(r) PROVE Goal
  <2>1. CASE r.current
    <3>1. dialogue.open /\ r.text \in Texts
      BY <2>1, FileFields DEF PanelInv, PanelTyped, OneSource
    <3>2. PICK d \in Fields : d = [dialogue EXCEPT !.text = r.text] /\ d.name = dialogue.name
      BY <1>2, <3>1, TextChanged
    <3>3. dialogue'.name = dialogue.name BY <1>14, <2>1, <3>2, RecheckNames DEF FileRead
    <3> QED BY <1>3, <1>14, <3>1, <3>3 DEF FileRead
  <2>2. CASE ~r.current BY <1>4, <1>14, <2>2 DEF FileRead
  <2> QED BY <2>1, <2>2
<1>15. CASE EditName
  <2>1. dialogue \in Fields /\ dialogue.name \in Nat BY <1>2, <1>15, FieldsOf DEF EditName
  <2>2. dialogue'.name = dialogue.name + 1 BY <1>1, <1>15, <2>1, NamesStay DEF EditName
  <2>3. panelLeft' \in Left /\ panelLeft'.edits = panelLeft.edits - 1
    BY <1>1, <1>15, Taken DEF EditName
  <2>4. dialogue.name + panelLeft.edits <= MaxEdits BY <1>15 DEF EditName, PanelBounded, NameBounded
  <2>5. dialogue'.name + panelLeft'.edits <= MaxEdits BY <1>1, <2>1, <2>2, <2>3, <2>4
  <2>6. lastId' <= MaxIds BY <1>1, <1>15, PanelAssumption DEF EditName
  <2> QED BY <2>3, <2>5, <2>6 DEF Goal, NameBounded
<1>16. CASE CheckAnswered
  <2>1. dialogue.open BY <1>16 DEF CheckAnswered, PanelInv, OneSource
  <2>2. CASE check.text \in Valid /\ lastId < MaxIds /\ lastId' = lastId + 1 /\ UNCHANGED panelLeft
             /\ dialogue' = [dialogue EXCEPT !.valid = check.text, !.id = lastId + 1]
    <3>1. check.text \in Texts /\ lastId + 1 \in Nat BY <1>1, <2>2, PanelAssumption
    <3>2. dialogue'.name = dialogue.name BY <1>2, <2>1, <2>2, <3>1, NamesStay
    <3> QED BY <1>3, <2>1, <2>2, <3>2
  <2>3. CASE UNCHANGED <<dialogue, lastId>> /\ (panelLeft' = panelLeft \/ Take("misses"))
    BY <1>4, <2>3
  <2> QED BY <1>16, <2>2, <2>3 DEF CheckAnswered
<1>17. CASE UNCHANGED panelVars BY <1>4, <1>17 DEF panelVars
<1> QED
  BY <1>5, <1>6, <1>7, <1>8, <1>9, <1>10, <1>11, <1>12, <1>13, <1>14, <1>15, <1>16, <1>17
  DEF PanelNext
-----------------------------------------------------------------------------
(* The operations, each with an id of its own. *)

LEMMA FewOperations ==
  ASSUME NEW ops, \A o \in ops : o.id \in 1..MaxIds, \A a, b \in ops : a.id = b.id => a = b
  PROVE  /\ IsFiniteSet(ops)
         /\ \A S \in SUBSET ops : IsFiniteSet(S) /\ Cardinality(S) \in 0..MaxIds
<1> DEFINE f == [o \in ops |-> o.id]
<1>1. f \in Injection(ops, 1..MaxIds) BY DEF Injection, IsInjective
<1>2. IsFiniteSet(1..MaxIds) /\ Cardinality(1..MaxIds) = MaxIds
  BY FS_Interval, PanelAssumption
<1> HIDE DEF f
<1>3. IsFiniteSet(ops) /\ Cardinality(ops) <= MaxIds BY <1>1, <1>2, FS_Injection
<1>4. ASSUME NEW S \in SUBSET ops PROVE IsFiniteSet(S) /\ Cardinality(S) \in 0..MaxIds
  <2>1. IsFiniteSet(S) /\ Cardinality(S) <= Cardinality(ops) BY <1>3, FS_Subset
  <2>2. Cardinality(S) \in Nat /\ Cardinality(ops) \in Nat BY <1>3, <2>1, FS_CardinalityType
  <2> QED BY <1>3, <2>1, <2>2, PanelAssumption
<1> QED BY <1>3, <1>4

LEMMA IdsBounded ==
  ASSUME PanelInv, lastId <= MaxIds
  PROVE  /\ \A o \in operations : o.id \in 1..MaxIds
         /\ \A a, b \in operations : a.id = b.id => a = b
         /\ sending # NoCall => sending.op.id \in 1..MaxIds
         /\ dialogue.open => dialogue.id \in 0..MaxIds
         /\ lastId \in 0..MaxIds
<1>1. lastId \in Nat /\ operations \subseteq Requests BY DEF PanelInv, PanelTyped
<1>2. ASSUME NEW o \in Requests, Known(dialogue, lastId, o) PROVE o.id \in 1..MaxIds
  BY <1>1, <1>2, RequestFields, PanelAssumption DEF Known
<1>3. sending # NoCall => sending.op \in Requests BY SendFields DEF PanelInv, PanelTyped
<1>4. dialogue.open => dialogue.id \in Nat BY DialogueFields, FieldsOf DEF PanelInv, PanelTyped
<1> QED BY <1>1, <1>2, <1>3, <1>4, PanelAssumption DEF PanelInv, RequestsKnown, OneRequest

LEMMA DoneBounded ==
  ASSUME PanelBounded, PanelInv, PanelInv', NEW op \in operations, OperationDone(op)
  PROVE  /\ \A o \in operations' : o.name <= MaxEdits /\ o.ended <= MaxIds
         /\ \A h \in Hosts : catalogue'[h] = Cardinality(EndedAt(h)')
<1>1. /\ catalogue \in [Hosts -> Nat] /\ operations \subseteq Requests
      /\ op \in Requests /\ op.host \in Hosts /\ op.ended = 0
  BY RequestFields DEF PanelInv, PanelTyped, OperationDone, Active
<1>2. /\ catalogue' = [catalogue EXCEPT ![op.host] = @ + 1] /\ UNCHANGED lastId
      /\ operations' = (operations \ {op}) \cup {[op EXCEPT !.ended = catalogue'[op.host]]}
  BY DEF OperationDone, editVars
<1>3. PICK n \in Nat : n = catalogue[op.host] + 1 BY <1>1
<1>4. catalogue'[op.host] = n BY <1>1, <1>2, <1>3
<1> DEFINE new == [op EXCEPT !.ended = n]
<1>5. /\ new.id = op.id /\ new.host = op.host /\ new.name = op.name /\ new.ended = n
      /\ operations' = (operations \ {op}) \cup {new}
  BY <1>1, <1>2, <1>4 DEF Requests
<1> HIDE DEF new
<1>6. new \notin operations BY <1>1, <1>3, <1>5 DEF PanelInv, OneRequest
<1>7. /\ \A o \in operations' : o.id \in 1..MaxIds
      /\ \A a, b \in operations' : a.id = b.id => a = b
  <2>1. lastId' <= MaxIds /\ lastId' \in Nat BY <1>2 DEF PanelBounded, PanelInv, PanelTyped
  <2>2. operations' \subseteq Requests BY DEF PanelInv, PanelTyped
  <2>3. \A o \in operations' : o.id # 0 /\ o.id <= lastId' BY DEF PanelInv, RequestsKnown, Known
  <2>4. \A o \in operations' : o.id \in 1..MaxIds
    BY <2>1, <2>2, <2>3, RequestFields, PanelAssumption
  <2> QED BY <2>4 DEF PanelInv, OneRequest
<1>8. \A S \in SUBSET operations' : IsFiniteSet(S) /\ Cardinality(S) \in 0..MaxIds
  BY <1>7, FewOperations
<1>9. \A S \in SUBSET operations : IsFiniteSet(S)
  BY IdsBounded, FewOperations DEF PanelBounded
<1>10. ASSUME NEW h \in Hosts, h # op.host PROVE catalogue'[h] = Cardinality(EndedAt(h)')
  <2>1. EndedAt(h)' = EndedAt(h) BY <1>1, <1>5, <1>10 DEF EndedAt
  <2> QED BY <1>1, <1>2, <1>10, <2>1 DEF PanelBounded
<1>11. n = Cardinality(EndedAt(op.host)')
  <2> DEFINE E == EndedAt(op.host)
  <2>1. EndedAt(op.host)' = E \cup {new} BY <1>1, <1>3, <1>5 DEF EndedAt
  <2>2. new \notin E /\ IsFiniteSet(E) BY <1>6, <1>9 DEF EndedAt
  <2>3. Cardinality(E) = catalogue[op.host] BY <1>1 DEF PanelBounded
  <2> HIDE DEF E
  <2>4. Cardinality(E \cup {new}) = Cardinality(E) + 1 BY <2>2, FS_AddElement
  <2> QED BY <1>3, <2>1, <2>3, <2>4
<1>12. n <= MaxIds
  <2>1. EndedAt(op.host)' \subseteq operations' BY <1>5 DEF EndedAt
  <2> QED BY <1>8, <1>11, <2>1, PanelAssumption
<1>13. \A o \in operations' : o.name <= MaxEdits /\ o.ended <= MaxIds
  BY <1>5, <1>12 DEF PanelBounded
<1> QED BY <1>1, <1>4, <1>10, <1>11, <1>13

LEMMA ServeBounded ==
  ASSUME PanelBounded, PanelInv, PanelInv', ServeSend
  PROVE  /\ \A o \in operations' : o.name <= MaxEdits /\ o.ended <= MaxIds
         /\ sending'.op = sending.op
         /\ \A h \in Hosts : catalogue'[h] = Cardinality(EndedAt(h)')
<1>1. sending # NoCall BY DEF ServeSend, NoCall
<1>2. sending \in Sends BY <1>1, SendFields DEF PanelInv, PanelTyped
<1>3. sending'.op = sending.op BY <1>2 DEF ServeSend, Sends
<1>4. sending.op.name <= MaxEdits /\ sending.op.ended = 0 BY <1>1 DEF PanelBounded
<1>5. UNCHANGED catalogue /\ (operations' = operations \/ operations' = operations \cup {sending.op})
  BY DEF ServeSend
<1>6. \A h \in Hosts : EndedAt(h)' = EndedAt(h) BY <1>4, <1>5 DEF EndedAt
<1> QED BY <1>3, <1>4, <1>5, <1>6, PanelAssumption DEF PanelBounded

LEMMA RequestsBounded ==
  PanelBounded /\ PanelInv /\ PanelInv' /\ [PanelNext]_panelVars
    => /\ \A o \in operations' : o.name <= MaxEdits /\ o.ended <= MaxIds
       /\ sending' # NoCall => sending'.op.name <= MaxEdits /\ sending'.op.ended = 0
       /\ \A h \in Hosts : catalogue'[h] = Cardinality(EndedAt(h)')
<1> SUFFICES ASSUME PanelBounded, PanelInv, PanelInv', [PanelNext]_panelVars
             PROVE  /\ \A o \in operations' : o.name <= MaxEdits /\ o.ended <= MaxIds
                    /\ sending' # NoCall => sending'.op.name <= MaxEdits /\ sending'.op.ended = 0
                    /\ \A h \in Hosts : catalogue'[h] = Cardinality(EndedAt(h)')
  OBVIOUS
<1> DEFINE Sent == sending # NoCall => sending.op.name <= MaxEdits /\ sending.op.ended = 0
           Goal == /\ \A o \in operations' : o.name <= MaxEdits /\ o.ended <= MaxIds
                   /\ Sent'
                   /\ \A h \in Hosts : catalogue'[h] = Cardinality(EndedAt(h)')
<1> SUFFICES Goal OBVIOUS
<1>1. ASSUME UNCHANGED <<catalogue, operations>>, Sent' PROVE Goal
  BY <1>1 DEF PanelBounded, EndedAt
<1>2. ASSUME UNCHANGED remoteVars, sending' = sending \/ sending' = NoCall PROVE Goal
  <2>1. UNCHANGED <<catalogue, operations>> BY <1>2 DEF remoteVars
  <2>2. Sent' BY <1>2 DEF PanelBounded
  <2> QED BY <1>1, <2>1, <2>2
<1>3. ASSUME NEW op \in operations, OperationDone(op) PROVE Goal
  <2>1. UNCHANGED sending BY <1>3 DEF OperationDone, editVars
  <2>2. Sent' BY <2>1 DEF PanelBounded
  <2> QED BY <1>3, <2>2, DoneBounded
<1>4. CASE ServeSend
  <2>1. sending # NoCall BY <1>4 DEF ServeSend, NoCall
  <2> QED BY <1>4, <2>1, ServeBounded DEF PanelBounded
<1>5. CASE SendUpdate
  <2>1. dialogue.name \in Nat /\ panelLeft.edits \in Nat
    BY <1>5, DialogueFields, FieldsOf, PanelLeftFields
    DEF SendUpdate, PanelInv, PanelTyped, PanelBounded
  <2>2. dialogue.name <= MaxEdits
    BY <1>5, <2>1, PanelAssumption DEF SendUpdate, PanelBounded, NameBounded
  <2>3. Sent' BY <1>5, <2>2 DEF SendUpdate
  <2> QED BY <1>1, <1>5, <2>3 DEF SendUpdate, remoteVars
<1> HIDE DEF Goal, Sent
<1>6. ASSUME NEW h \in Hosts, SelectServer(h) PROVE Goal BY <1>2, <1>6 DEF SelectServer, editVars
<1>7. CASE ServeList_ \/ ListShown \/ ListLost \/ MonitorTimer \/ MonitorAnswered \/ MonitorLost
  BY <1>2, <1>7 DEF ServeList_, ListShown, ListLost, MonitorTimer, MonitorAnswered, MonitorLost, editVars
<1>8. CASE OpenDialog \/ CloseDialog \/ EditName \/ CheckAnswered \/ SendAnswered \/ SendLost
  BY <1>2, <1>8 DEF OpenDialog, CloseDialog, EditName, CheckAnswered, SendAnswered, SendLost
<1>9. ASSUME NEW t \in Texts, TypeText(t) \/ ChooseFile(t) PROVE Goal
  BY <1>2, <1>9 DEF TypeText, ChooseFile
<1>10. ASSUME NEW r \in reading, FileRead(r) PROVE Goal BY <1>2, <1>10 DEF FileRead
<1>11. CASE UNCHANGED panelVars
  <2>1. UNCHANGED remoteVars /\ UNCHANGED sending BY <1>11 DEF panelVars, remoteVars
  <2> QED BY <1>2, <2>1
<1> QED
  BY <1>3, <1>4, <1>5, <1>6, <1>7, <1>8, <1>9, <1>10, <1>11 DEF PanelNext

-----------------------------------------------------------------------------
LEMMA BoundsInitially == PanelInit => TableTyped /\ PanelBounded
<1> SUFFICES ASSUME PanelInit PROVE TableTyped /\ PanelBounded OBVIOUS
<1>1. chosen \in Hosts BY PanelAssumption DEF PanelInit
<1>2. TableTyped BY <1>1, CallsMade DEF PanelInit, TableTyped
<1>3. panelLeft \in Left BY PanelAssumption DEF PanelInit, Left
<1>4. ~dialogue.open /\ lastId = 0 BY DEF PanelInit, Closed
<1>5. \A h \in Hosts : catalogue[h] = Cardinality(EndedAt(h))
  <2>1. \A h \in Hosts : EndedAt(h) = {} BY DEF PanelInit, EndedAt
  <2> QED BY <2>1, FS_EmptySet DEF PanelInit
<1>6. operations = {} /\ sending = NoCall BY DEF PanelInit
<1> QED BY <1>2, <1>3, <1>4, <1>5, <1>6, PanelAssumption DEF PanelBounded, NameBounded

LEMMA BoundsKept == PanelBounded /\ PanelInv /\ PanelInv' /\ [PanelNext]_panelVars => PanelBounded'
<1> SUFFICES ASSUME PanelBounded, PanelInv, PanelInv', [PanelNext]_panelVars PROVE PanelBounded'
  OBVIOUS
<1>1. panelLeft' \in Left /\ lastId' <= MaxIds /\ NameBounded(dialogue)' BY NamesKept
<1> QED BY <1>1, RequestsBounded DEF PanelBounded

LEMMA BoundsTypes == PanelInv /\ TableTyped /\ PanelBounded => PanelTypeOK
<1> SUFFICES ASSUME PanelInv, TableTyped, PanelBounded PROVE PanelTypeOK OBVIOUS
<1>1. /\ PanelTyped /\ panelLeft \in Left /\ lastId <= MaxIds
      /\ operations \subseteq Requests /\ dialogue \in Fields \cup {Closed}
  BY DEF PanelInv, PanelTyped, PanelBounded
<1>2. operations \subseteq Operations
  <2> SUFFICES ASSUME NEW o \in operations PROVE o \in Operations OBVIOUS
  <2>1. o \in Requests /\ o.id \in 1..MaxIds /\ o.name <= MaxEdits /\ o.ended <= MaxIds
    BY <1>1, IdsBounded DEF PanelBounded
  <2>2. o.name \in 0..MaxEdits /\ o.ended \in 0..MaxIds BY <2>1, RequestFields, PanelAssumption
  <2> QED BY <2>1, <2>2 DEF Requests, Operations, OperationIds
<1>3. dialogue \in Dialogues \cup {Closed}
  <2>1. CASE dialogue \in Fields
    <3>1. dialogue.open /\ dialogue.name \in Nat BY <2>1, FieldsOf
    <3>2. dialogue.id \in 0..MaxIds BY <1>1, <3>1, IdsBounded
    <3>3. dialogue.name \in 0..MaxEdits
      BY <1>1, <3>1, PanelLeftFields, PanelAssumption DEF PanelBounded, NameBounded
    <3> QED BY <2>1, <3>2, <3>3 DEF Fields, Dialogues
  <2>2. CASE dialogue = Closed BY <2>2
  <2> QED BY <1>1, <2>1, <2>2
<1>4. listCall.step \in {"none", "sent", "read"} BY ListCallFields DEF TableTyped
<1>5. check.step \in {"none", "timer"} BY DEF PanelInv, PanelTyped, Checks, NoCall
<1>6. sending.step \in {"none", "sent", "done"}
  BY SendFields, CallsMade DEF PanelInv, PanelTyped
<1>7. lastId \in 0..MaxIds BY <1>1, IdsBounded
<1> QED BY <1>1, <1>2, <1>3, <1>4, <1>5, <1>6, <1>7 DEF PanelTypeOK, PanelTyped, TableTyped, Files, Left

\* The ids of the requests, the edits of a name and what the catalogue counts stay in their
\* bounds, and the calls under way are of the kinds the page knows.
THEOREM PanelTypeCorrect == PanelSpec => []PanelTypeOK
<1> DEFINE Whole == PanelInv /\ TableTyped /\ PanelBounded
<1>1. PanelInit => Whole BY PanelInitially, BoundsInitially
<1>2. Whole /\ [PanelNext]_panelVars => Whole' BY PanelKeeps, TableKept, BoundsKept
<1>3. Whole => PanelTypeOK BY BoundsTypes
<1> QED BY <1>1, <1>2, <1>3, PTL DEF PanelSpec
-----------------------------------------------------------------------------
(* The maintenance panel of an HA cluster. *)

Reads == [step : {"sent", "served"}, cluster : Clusters, current : BOOLEAN, rev : Nat]

MaintenanceTyped ==
    /\ revision \in [Clusters -> Nat] /\ confirmed \in [Clusters -> Nat]
    /\ listing \in Reads \cup {Idle} /\ posting \in Reads \cup {Idle} /\ older \in Reads \cup {Idle}
    /\ asked \subseteq [cluster : Clusters, current : BOOLEAN]
    /\ context \in Clusters \cup {NoCluster} /\ opened \in BOOLEAN
    /\ opened => context \in Clusters

\* What is current was asked for by the panel as it is.
CurrentIsHere ==
    /\ listing # Idle /\ listing.current => listing.cluster = context
    /\ older # Idle /\ older.current => older.cluster = context
    /\ \A r \in asked : r.current => r.cluster = context

\* No answer tells of a future, and no read counts that was begun before one.
AnswersKnown ==
    /\ \A k \in Clusters : confirmed[k] <= revision[k]
    /\ posting # Idle /\ posting.step = "served" => posting.rev <= revision[posting.cluster]
    /\ listing # Idle /\ listing.current =>
          /\ posting = Idle
          /\ listing.step = "served" => confirmed[listing.cluster] <= listing.rev

MaintenanceInv == /\ MaintenanceTyped /\ CurrentIsHere /\ AnswersKnown
                  /\ OpenPanelRefreshes /\ PanelOfOneCluster
-----------------------------------------------------------------------------
LEMMA ReadFields ==
  ASSUME NEW r \in Reads
  PROVE  /\ r.step \in {"sent", "served"} /\ r.cluster \in Clusters /\ r.current \in BOOLEAN
         /\ r.rev \in Nat /\ r # Idle
BY DEF Reads, Idle

LEMMA CallRead ==
  ASSUME NEW k \in Clusters
  PROVE  /\ Call(k) \in Reads /\ Call(k).step = "sent" /\ Call(k).cluster = k /\ Call(k).current
BY DEF Call, Reads

LEMMA StaleRead ==
  ASSUME NEW r \in Reads \cup {Idle}
  PROVE  /\ Stale(r) \in Reads \cup {Idle}
         /\ Stale(r) = Idle <=> r = Idle
         /\ Stale(r) # Idle => /\ ~Stale(r).current
                               /\ Stale(r).step = r.step /\ Stale(r).cluster = r.cluster
                               /\ Stale(r).rev = r.rev
<1>1. CASE r = Idle BY <1>1 DEF Stale
<1>2. CASE r \in Reads
  <2> DEFINE s == [r EXCEPT !.current = FALSE]
  <2>1. s \in Reads /\ ~s.current /\ s.step = r.step /\ s.cluster = r.cluster /\ s.rev = r.rev
    BY <1>2 DEF Reads
  <2>2. Stale(r) = s BY <1>2, ReadFields DEF Stale
  <2> HIDE DEF s
  <2> QED BY <1>2, <2>1, <2>2, ReadFields
<1> QED BY <1>1, <1>2

\* The effect of a refresh: a read of this panel, or the one that is under way.
LEMMA Refreshed ==
  ASSUME NEW open \in BOOLEAN, NEW key \in Clusters \cup {NoCluster},
         NEW listed, listed \in Reads \cup {Idle},
         NEW posted, Refresh(open, key, listed, posted), open => key \in Clusters
  PROVE  /\ listing' \in Reads \cup {Idle}
         /\ \/ listing' = listed
            \/ /\ listing' = Call(key) /\ listing' \in Reads /\ listing'.step = "sent"
               /\ listing'.cluster = key /\ posted = Idle
         /\ open /\ posted = Idle => listing' # Idle
<1>1. CASE open /\ posted = Idle /\ listed = Idle
  BY <1>1, CallRead, ReadFields DEF Refresh
<1>2. CASE ~(open /\ posted = Idle /\ listed = Idle)
  BY <1>2 DEF Refresh
<1> QED BY <1>1, <1>2
-----------------------------------------------------------------------------
(* The server. *)

\* The server goes on, and its answers with it.
LEMMA PlansServerKeeps ==
  ASSUME MaintenanceInv, UNCHANGED <<opened, context, timer, plans, confirmed, asked, nodes, older, history>>,
         revision' \in [Clusters -> Nat], \A k \in Clusters : revision[k] <= revision'[k],
         \/ UNCHANGED listing
         \/ /\ listing \in Reads /\ listing' \in Reads /\ listing'.cluster = listing.cluster
            /\ listing'.current = listing.current /\ listing'.rev = revision[listing.cluster],
         \/ UNCHANGED posting
         \/ /\ posting \in Reads /\ posting' \in Reads /\ posting'.cluster = posting.cluster
            /\ posting'.rev = revision'[posting.cluster]
  PROVE  MaintenanceInv'
<1>1. /\ revision \in [Clusters -> Nat] /\ confirmed \in [Clusters -> Nat]
      /\ listing \in Reads \cup {Idle} /\ posting \in Reads \cup {Idle}
  BY DEF MaintenanceInv, MaintenanceTyped
<1>2. MaintenanceTyped' BY <1>1 DEF MaintenanceInv, MaintenanceTyped
<1>3. (listing' = Idle <=> listing = Idle) /\ (posting' = Idle <=> posting = Idle)
  BY <1>1, ReadFields
<1>4. CurrentIsHere' BY <1>1, <1>3 DEF MaintenanceInv, CurrentIsHere
<1>5. \A k \in Clusters : confirmed[k] <= revision'[k]
  BY <1>1 DEF MaintenanceInv, AnswersKnown
<1>6. ASSUME posting' # Idle, posting'.step = "served"
      PROVE  posting'.rev <= revision'[posting'.cluster]
  <2>1. posting \in Reads BY <1>1, <1>3, <1>6
  <2>2. posting.cluster \in Clusters /\ posting.rev \in Nat BY <2>1, ReadFields
  <2>3. CASE UNCHANGED posting
    BY <1>1, <1>6, <2>2, <2>3 DEF MaintenanceInv, AnswersKnown
  <2>4. CASE posting'.cluster = posting.cluster /\ posting'.rev = revision'[posting.cluster]
    BY <2>2, <2>4
  <2> QED BY <2>3, <2>4
<1>7. ASSUME listing' # Idle, listing'.current
      PROVE  /\ posting' = Idle
             /\ listing'.step = "served" => confirmed[listing'.cluster] <= listing'.rev
  <2>1. listing \in Reads /\ listing.cluster \in Clusters /\ listing.current
    BY <1>1, <1>3, <1>7, ReadFields
  <2>2. posting' = Idle BY <1>3, <2>1, ReadFields DEF MaintenanceInv, AnswersKnown
  <2>3. CASE UNCHANGED listing BY <1>3, <1>7, <2>2, <2>3 DEF MaintenanceInv, AnswersKnown
  <2>4. CASE listing'.cluster = listing.cluster /\ listing'.rev = revision[listing.cluster]
    BY <2>1, <2>2, <2>4 DEF MaintenanceInv, AnswersKnown
  <2> QED BY <2>3, <2>4
<1>8. AnswersKnown' BY <1>5, <1>6, <1>7 DEF AnswersKnown
<1>9. OpenPanelRefreshes' /\ PanelOfOneCluster'
  BY <1>3 DEF MaintenanceInv, OpenPanelRefreshes, PanelOfOneCluster
<1> QED BY <1>2, <1>4, <1>8, <1>9 DEF MaintenanceInv

LEMMA ChangeKeeps == ASSUME MaintenanceInv, NEW k \in Clusters, PlansChange(k) PROVE MaintenanceInv'
<1>1. revision \in [Clusters -> Nat] BY DEF MaintenanceInv, MaintenanceTyped
<1>2. /\ revision' = [revision EXCEPT ![k] = @ + 1]
      /\ UNCHANGED <<listing, posting, opened, context, timer, plans, confirmed, asked, nodes, older, history>>
  BY DEF PlansChange, formVars, olderVars
<1>3. revision' \in [Clusters -> Nat] /\ \A j \in Clusters : revision[j] <= revision'[j]
  BY <1>1, <1>2
<1> QED BY <1>2, <1>3, PlansServerKeeps

LEMMA ServePlansKeeps == ASSUME MaintenanceInv, ServeList PROVE MaintenanceInv'
<1>1. /\ listing.step = "sent" /\ listing' = Served(listing)
      /\ UNCHANGED <<revision, posting, opened, context, timer, plans, confirmed, asked, nodes, older, history>>
  BY DEF ServeList, formVars, olderVars
<1>2. listing \in Reads /\ revision \in [Clusters -> Nat]
  BY <1>1 DEF MaintenanceInv, MaintenanceTyped, Idle
<1>3. PICK n \in Nat : n = revision[listing.cluster] BY <1>2, ReadFields
<1>4. listing' = [listing EXCEPT !.step = "served", !.rev = n] BY <1>1, <1>3 DEF Served
<1>5. /\ listing' \in Reads /\ listing'.cluster = listing.cluster
      /\ listing'.current = listing.current /\ listing'.rev = n
  BY <1>2, <1>4 DEF Reads
<1>6. \A j \in Clusters : revision[j] <= revision'[j] BY <1>1, <1>2
<1> QED BY <1>1, <1>2, <1>3, <1>5, <1>6, PlansServerKeeps

LEMMA ServeRequestKeeps == ASSUME MaintenanceInv, ServeRequest PROVE MaintenanceInv'
<1>1. /\ posting.step = "sent" /\ revision' = [revision EXCEPT ![posting.cluster] = @ + 1]
      /\ posting' = [posting EXCEPT !.step = "served", !.rev = revision'[posting.cluster]]
      /\ UNCHANGED <<listing, opened, context, timer, plans, confirmed, asked, nodes, older, history>>
  BY DEF ServeRequest, formVars, olderVars
<1>2. posting \in Reads /\ revision \in [Clusters -> Nat]
  BY <1>1 DEF MaintenanceInv, MaintenanceTyped, Idle
<1>3. PICK k \in Clusters : k = posting.cluster BY <1>2, ReadFields
<1>4. revision' \in [Clusters -> Nat] /\ \A j \in Clusters : revision[j] <= revision'[j]
  BY <1>1, <1>2, <1>3
<1>5. PICK n \in Nat : n = revision'[posting.cluster] BY <1>3, <1>4
<1>6. posting' = [posting EXCEPT !.step = "served", !.rev = n] BY <1>1, <1>5
<1>7. posting' \in Reads /\ posting'.cluster = posting.cluster /\ posting'.rev = n
  BY <1>2, <1>6 DEF Reads
<1> QED BY <1>1, <1>2, <1>4, <1>5, <1>7, PlansServerKeeps

-----------------------------------------------------------------------------
(* The list is read. *)

\* The end of a read and what follows it at once.
LEMMA ListEnds ==
  ASSUME MaintenanceInv, AfterList(listing.current),
         UNCHANGED <<revision, opened, context, posting, confirmed, older, asked, nodes>>,
         PanelOfOneCluster'
  PROVE  MaintenanceInv'
<1>1. /\ listing' = Idle \/ (listing' = Call(context) /\ opened /\ posting = Idle)
      /\ opened => listing' # Idle \/ timer' \/ posting # Idle
  <2>1. opened => Call(context) # Idle
    BY CallRead, ReadFields DEF MaintenanceInv, MaintenanceTyped
  <2> QED BY <2>1 DEF AfterList
<1>2. \/ listing' = Idle
      \/ /\ listing' \in Reads /\ listing'.step = "sent" /\ listing'.cluster = context /\ posting = Idle
  BY <1>1, CallRead DEF MaintenanceInv, MaintenanceTyped
<1>3. MaintenanceTyped' BY <1>2 DEF MaintenanceInv, MaintenanceTyped
<1>4. CurrentIsHere' BY <1>2 DEF MaintenanceInv, CurrentIsHere
<1>5. AnswersKnown' BY <1>2 DEF MaintenanceInv, AnswersKnown
<1>6. OpenPanelRefreshes' BY <1>1 DEF OpenPanelRefreshes
<1> QED BY <1>3, <1>4, <1>5, <1>6 DEF MaintenanceInv

LEMMA ListArrivesKeeps == ASSUME MaintenanceInv, ListArrives PROVE MaintenanceInv'
<1>1. /\ listing.step = "served" /\ AfterList(listing.current)
      /\ UNCHANGED <<revision, opened, context, posting, confirmed, older, asked, nodes>>
      /\ \/ /\ listing.current
            /\ plans' = [cluster |-> listing.cluster, rev |-> listing.rev]
            /\ history' = history \cup {listing.cluster}
         \/ UNCHANGED <<plans, history>>
  BY DEF ListArrives, formVars
<1>2. listing # Idle BY <1>1 DEF Idle
<1>3. PanelOfOneCluster' BY <1>1, <1>2 DEF MaintenanceInv, CurrentIsHere, PanelOfOneCluster
<1> QED BY <1>1, <1>3, ListEnds

LEMMA ListFailsKeeps == ASSUME MaintenanceInv, ListFails PROVE MaintenanceInv'
<1>1. /\ AfterList(listing.current)
      /\ UNCHANGED <<revision, opened, context, posting, plans, history, confirmed, older, asked, nodes>>
  BY DEF ListFails, formVars, olderVars
<1>2. PanelOfOneCluster' BY <1>1 DEF MaintenanceInv, PanelOfOneCluster
<1> QED BY <1>1, <1>2, ListEnds

\* The list is asked for, when the timer fires, the tab is shown or a request is over.
LEMMA RefreshKeeps ==
  ASSUME MaintenanceInv, NEW request, request \in {posting, Idle},
         Refresh(opened, context, listing, request), posting' = request,
         UNCHANGED <<revision, opened, context, plans, older, history, asked, nodes>>,
         \/ UNCHANGED confirmed
         \/ /\ posting \in Reads /\ posting.step = "served"
            /\ confirmed' = [confirmed EXCEPT ![posting.cluster] = posting.rev]
  PROVE  MaintenanceInv'
<1>1. /\ listing \in Reads \cup {Idle} /\ posting \in Reads \cup {Idle}
      /\ opened \in BOOLEAN /\ context \in Clusters \cup {NoCluster} /\ (opened => context \in Clusters)
      /\ revision \in [Clusters -> Nat] /\ confirmed \in [Clusters -> Nat]
  BY DEF MaintenanceInv, MaintenanceTyped
<1>2. /\ listing' \in Reads \cup {Idle}
      /\ \/ listing' = listing
         \/ /\ listing' \in Reads /\ listing'.step = "sent"
            /\ listing'.cluster = context /\ request = Idle
      /\ opened /\ request = Idle => listing' # Idle
  BY <1>1, Refreshed
<1>3. confirmed' \in [Clusters -> Nat] /\ \A k \in Clusters : confirmed'[k] <= revision[k]
  <2>1. \A k \in Clusters : confirmed[k] <= revision[k] BY DEF MaintenanceInv, AnswersKnown
  <2>2. CASE UNCHANGED confirmed BY <1>1, <2>1, <2>2
  <2>3. CASE /\ posting \in Reads /\ posting.step = "served"
             /\ confirmed' = [confirmed EXCEPT ![posting.cluster] = posting.rev]
    <3>1. posting.rev \in Nat /\ posting.cluster \in Clusters BY <2>3, ReadFields
    <3>2. posting.rev <= revision[posting.cluster]
      BY <2>3, ReadFields DEF MaintenanceInv, AnswersKnown
    <3> QED BY <1>1, <2>1, <2>3, <3>1, <3>2
  <2> QED BY <2>2, <2>3
<1>4. MaintenanceTyped' BY <1>1, <1>2, <1>3 DEF MaintenanceInv, MaintenanceTyped
<1>5. CurrentIsHere' BY <1>2 DEF MaintenanceInv, CurrentIsHere
<1>6. AnswersKnown'
  <2>1. posting' # Idle => posting' = posting OBVIOUS
  <2>2. listing' = listing /\ listing # Idle /\ listing.current => confirmed' = confirmed /\ posting = Idle
    BY ReadFields DEF MaintenanceInv, AnswersKnown
  <2> QED BY <1>2, <1>3, <2>1, <2>2 DEF MaintenanceInv, AnswersKnown
<1>7. OpenPanelRefreshes' BY <1>2 DEF OpenPanelRefreshes
<1>8. PanelOfOneCluster' BY DEF MaintenanceInv, PanelOfOneCluster
<1> QED BY <1>4, <1>5, <1>6, <1>7, <1>8 DEF MaintenanceInv

LEMMA AskedAgainKeeps == ASSUME MaintenanceInv, TimerFires_ \/ TabShown PROVE MaintenanceInv'
<1>1. /\ Refresh(opened, context, listing, posting)
      /\ UNCHANGED <<revision, opened, context, posting, plans, confirmed, older, history, asked, nodes>>
  BY DEF TimerFires_, TabShown, formVars, olderVars
<1> QED BY <1>1, RefreshKeeps

LEMMA RequestEndsKeeps ==
  ASSUME MaintenanceInv, RequestAnswered \/ RequestFails
  PROVE  MaintenanceInv'
<1>1. /\ Refresh(opened, context, listing, Idle) /\ posting' = Idle
      /\ UNCHANGED <<revision, opened, context, plans, older, history, asked, nodes>>
  BY DEF RequestAnswered, RequestFails, RequestEnds, formVars, olderVars
<1>2. CASE RequestAnswered
  <2>1. posting.step = "served" /\ confirmed' = [confirmed EXCEPT ![posting.cluster] = posting.rev]
    BY <1>2 DEF RequestAnswered
  <2>2. posting \in Reads BY <2>1 DEF MaintenanceInv, MaintenanceTyped, Idle
  <2> QED BY <1>1, <2>1, <2>2, RefreshKeeps
<1>3. CASE RequestFails BY <1>1, <1>3, RefreshKeeps DEF RequestFails
<1> QED BY <1>2, <1>3
-----------------------------------------------------------------------------
(* The panel, its form, and the requests. *)

LEMMA NodesDropped ==
  ASSUME asked \subseteq [cluster : Clusters, current : BOOLEAN]
  PROVE  /\ StaleNodes \subseteq [cluster : Clusters, current : BOOLEAN]
         /\ \A r \in StaleNodes : ~r.current
BY DEF StaleNodes

LEMMA OpenPanelKeeps == ASSUME MaintenanceInv, NEW k \in Clusters, OpenPanel(k) PROVE MaintenanceInv'
<1> DEFINE old == Stale(listing)
           here == [cluster |-> k, current |-> TRUE]
<1>1. /\ opened' = TRUE /\ context' = k /\ posting' = Stale(posting) /\ older' = Stale(older)
      /\ asked' = StaleNodes \cup {here} /\ nodes' = NoCluster
      /\ Refresh(TRUE, k, old, posting) /\ UNCHANGED <<revision, confirmed>>
      /\ IF context # k THEN plans' = NoPlans /\ history' = {} ELSE UNCHANGED <<plans, history>>
  BY DEF OpenPanel
<1>2. /\ listing \in Reads \cup {Idle} /\ posting \in Reads \cup {Idle} /\ older \in Reads \cup {Idle}
      /\ asked \subseteq [cluster : Clusters, current : BOOLEAN]
      /\ revision \in [Clusters -> Nat] /\ confirmed \in [Clusters -> Nat]
  BY DEF MaintenanceInv, MaintenanceTyped
<1>3. old \in Reads \cup {Idle} /\ (old # Idle => ~old.current) BY <1>2, StaleRead
<1>4. /\ posting' \in Reads \cup {Idle} /\ (posting' = Idle <=> posting = Idle)
      /\ posting # Idle => /\ posting'.step = posting.step /\ posting'.cluster = posting.cluster
                           /\ posting'.rev = posting.rev
  BY <1>1, <1>2, StaleRead
<1>5. older' \in Reads \cup {Idle} /\ (older' # Idle => ~older'.current)
  BY <1>1, <1>2, StaleRead
<1> HIDE DEF old
<1>6. /\ listing' \in Reads \cup {Idle}
      /\ \/ listing' = old
         \/ listing' \in Reads /\ listing'.step = "sent" /\ listing'.cluster = k /\ posting = Idle
      /\ posting = Idle => listing' # Idle
  <2>1. PICK open \in BOOLEAN : open OBVIOUS
  <2>2. Refresh(open, k, old, posting) BY <1>1, <2>1 DEF Refresh
  <2>3. PICK request : request = posting OBVIOUS
  <2>4. Refresh(open, k, old, request) BY <2>2, <2>3
  <2>5. /\ listing' \in Reads \cup {Idle}
        /\ \/ listing' = old
           \/ /\ listing' = Call(k) /\ listing' \in Reads /\ listing'.step = "sent"
              /\ listing'.cluster = k /\ request = Idle
        /\ open /\ request = Idle => listing' # Idle
    BY <1>3, <2>4, Refreshed
  <2> QED BY <2>1, <2>3, <2>5
<1>7. here \in [cluster : Clusters, current : BOOLEAN] /\ here.cluster = k OBVIOUS
<1> HIDE DEF here
<1>8. asked' \subseteq [cluster : Clusters, current : BOOLEAN] /\ \A r \in asked' : r.current => r.cluster = k
  BY <1>1, <1>2, <1>7, NodesDropped
<1>9. MaintenanceTyped' BY <1>1, <1>2, <1>4, <1>5, <1>6, <1>8 DEF MaintenanceTyped
<1>10. CurrentIsHere' BY <1>1, <1>3, <1>5, <1>6, <1>8 DEF CurrentIsHere
<1>11. AnswersKnown' BY <1>1, <1>3, <1>4, <1>6 DEF MaintenanceInv, AnswersKnown
<1>12. OpenPanelRefreshes' BY <1>4, <1>6 DEF OpenPanelRefreshes
<1>13. PanelOfOneCluster' BY <1>1 DEF MaintenanceInv, PanelOfOneCluster, NoPlans
<1> QED BY <1>9, <1>10, <1>11, <1>12, <1>13 DEF MaintenanceInv

LEMMA ClosePanelKeeps == ASSUME MaintenanceInv, ClosePanel PROVE MaintenanceInv'
<1>1. /\ opened' = FALSE
      /\ listing' = Stale(listing) /\ posting' = Stale(posting) /\ older' = Stale(older)
      /\ asked' = StaleNodes /\ UNCHANGED <<revision, context, plans, confirmed, history, nodes>>
  BY DEF ClosePanel
<1>2. /\ listing \in Reads \cup {Idle} /\ posting \in Reads \cup {Idle} /\ older \in Reads \cup {Idle}
      /\ asked \subseteq [cluster : Clusters, current : BOOLEAN]
  BY DEF MaintenanceInv, MaintenanceTyped
<1>3. /\ listing' \in Reads \cup {Idle} /\ older' \in Reads \cup {Idle}
      /\ (listing' # Idle => ~listing'.current) /\ (older' # Idle => ~older'.current)
  BY <1>1, <1>2, StaleRead
<1>4. /\ posting' \in Reads \cup {Idle} /\ (posting' = Idle <=> posting = Idle)
      /\ posting # Idle => /\ posting'.step = posting.step /\ posting'.cluster = posting.cluster
                           /\ posting'.rev = posting.rev
  BY <1>1, <1>2, StaleRead
<1>5. asked' \subseteq [cluster : Clusters, current : BOOLEAN] /\ \A r \in asked' : ~r.current
  BY <1>1, <1>2, NodesDropped
<1>6. MaintenanceTyped' BY <1>1, <1>3, <1>4, <1>5 DEF MaintenanceInv, MaintenanceTyped
<1>7. CurrentIsHere' BY <1>3, <1>5 DEF CurrentIsHere
<1>8. AnswersKnown' BY <1>1, <1>3, <1>4 DEF MaintenanceInv, AnswersKnown
<1>9. OpenPanelRefreshes' /\ PanelOfOneCluster'
  BY <1>1 DEF MaintenanceInv, OpenPanelRefreshes, PanelOfOneCluster
<1> QED BY <1>6, <1>7, <1>8, <1>9 DEF MaintenanceInv

\* The form and the older plans: nothing of the list or of a request is touched.
LEMMA AsideKeeps ==
  ASSUME MaintenanceInv,
         UNCHANGED <<revision, opened, context, listing, timer, posting, plans, confirmed>>,
         asked' \subseteq asked, older' \in Reads \cup {Idle},
         older' # Idle /\ older'.current => older'.cluster = context,
         nodes' \in {context, NoCluster}, history' \subseteq {context}
  PROVE  MaintenanceInv'
<1>1. MaintenanceTyped' BY DEF MaintenanceInv, MaintenanceTyped
<1>2. CurrentIsHere' BY DEF MaintenanceInv, CurrentIsHere
<1>3. AnswersKnown' /\ OpenPanelRefreshes' BY DEF MaintenanceInv, AnswersKnown, OpenPanelRefreshes
<1>4. PanelOfOneCluster' BY DEF MaintenanceInv, PanelOfOneCluster
<1> QED BY <1>1, <1>2, <1>3, <1>4 DEF MaintenanceInv

LEMMA MembersKeep ==
  ASSUME MaintenanceInv, NEW r \in asked, MembersArrive(r) \/ MembersFail(r)
  PROVE  MaintenanceInv'
<1>1. /\ asked' = asked \ {r} /\ (nodes' = nodes \/ (r.current /\ nodes' = r.cluster))
      /\ UNCHANGED <<revision, opened, context, listing, timer, posting, plans, confirmed, older, history>>
  BY DEF MembersArrive, MembersFail, olderVars
<1>2. nodes' \in {context, NoCluster} /\ history' \subseteq {context}
  BY <1>1 DEF MaintenanceInv, PanelOfOneCluster, CurrentIsHere
<1>3. older' \in Reads \cup {Idle} /\ (older' # Idle /\ older'.current => older'.cluster = context)
  BY <1>1 DEF MaintenanceInv, MaintenanceTyped, CurrentIsHere
<1> QED BY <1>1, <1>2, <1>3, AsideKeeps

LEMMA OlderKeep == ASSUME MaintenanceInv, AskOlder \/ OlderArrive PROVE MaintenanceInv'
<1>1. /\ UNCHANGED <<revision, opened, context, listing, timer, posting, plans, confirmed, asked, nodes>>
      /\ nodes \in {context, NoCluster} /\ history \subseteq {context}
  BY DEF AskOlder, OlderArrive, formVars, MaintenanceInv, PanelOfOneCluster
<1>2. CASE AskOlder
  <2>1. older' = Call(context) /\ context \in Clusters /\ history' = history
    BY <1>2 DEF AskOlder, MaintenanceInv, MaintenanceTyped
  <2>2. older' \in Reads /\ older'.cluster = context BY <2>1, CallRead
  <2> QED BY <1>1, <2>1, <2>2, AsideKeeps
<1>3. CASE OlderArrive
  <2>1. older # Idle /\ older' = Idle
        /\ history' = IF older.current /\ opened THEN history \cup {older.cluster} ELSE history
    BY <1>3 DEF OlderArrive
  <2>2. history' \subseteq {context} BY <1>1, <2>1 DEF MaintenanceInv, CurrentIsHere
  <2> QED BY <1>1, <2>1, <2>2, AsideKeeps
<1> QED BY <1>2, <1>3

LEMMA SendKeeps == ASSUME MaintenanceInv, SendRequest PROVE MaintenanceInv'
<1>1. /\ opened /\ posting' = Call(context)
      /\ listing' = Stale(listing) /\ older' = Stale(older)
      /\ UNCHANGED <<revision, opened, context, plans, confirmed, history, asked, nodes>>
  BY DEF SendRequest, formVars
<1>2. /\ listing \in Reads \cup {Idle} /\ older \in Reads \cup {Idle} /\ context \in Clusters
  BY <1>1 DEF MaintenanceInv, MaintenanceTyped
<1>3. /\ listing' \in Reads \cup {Idle} /\ older' \in Reads \cup {Idle}
      /\ (listing' # Idle => ~listing'.current) /\ (older' # Idle => ~older'.current)
  BY <1>1, <1>2, StaleRead
<1>4. posting' \in Reads /\ posting'.step = "sent" /\ posting' # Idle
  BY <1>1, <1>2, CallRead, ReadFields
<1>5. MaintenanceTyped' BY <1>1, <1>3, <1>4 DEF MaintenanceInv, MaintenanceTyped
<1>6. CurrentIsHere' BY <1>1, <1>3 DEF MaintenanceInv, CurrentIsHere
<1>7. AnswersKnown' BY <1>1, <1>3, <1>4 DEF MaintenanceInv, AnswersKnown
<1>8. OpenPanelRefreshes' /\ PanelOfOneCluster'
  BY <1>1, <1>4 DEF MaintenanceInv, OpenPanelRefreshes, PanelOfOneCluster
<1> QED BY <1>5, <1>6, <1>7, <1>8 DEF MaintenanceInv
-----------------------------------------------------------------------------
LEMMA MaintenanceInitially == MaintenanceInit => MaintenanceInv
<1> SUFFICES ASSUME MaintenanceInit PROVE MaintenanceInv OBVIOUS
<1>1. MaintenanceTyped BY DEF MaintenanceInit, MaintenanceTyped
<1>2. CurrentIsHere BY DEF MaintenanceInit, CurrentIsHere
<1>3. AnswersKnown BY DEF MaintenanceInit, AnswersKnown
<1>4. OpenPanelRefreshes BY DEF MaintenanceInit, OpenPanelRefreshes
<1>5. PanelOfOneCluster BY DEF MaintenanceInit, PanelOfOneCluster, NoPlans
<1> QED BY <1>1, <1>2, <1>3, <1>4, <1>5 DEF MaintenanceInv

LEMMA MaintenanceKeeps == MaintenanceInv /\ [MaintenanceNext]_maintenanceVars => MaintenanceInv'
<1> SUFFICES ASSUME MaintenanceInv, [MaintenanceNext]_maintenanceVars PROVE MaintenanceInv' OBVIOUS
<1>1. ASSUME NEW k \in Clusters, PlansChange(k) PROVE MaintenanceInv' BY <1>1, ChangeKeeps
<1>2. CASE ServeList BY <1>2, ServePlansKeeps
<1>3. CASE ServeRequest BY <1>3, ServeRequestKeeps
<1>4. CASE ListArrives BY <1>4, ListArrivesKeeps
<1>5. CASE ListFails BY <1>5, ListFailsKeeps
<1>6. CASE TimerFires_ \/ TabShown BY <1>6, AskedAgainKeeps
<1>7. ASSUME NEW k \in Clusters, OpenPanel(k) PROVE MaintenanceInv' BY <1>7, OpenPanelKeeps
<1>8. CASE ClosePanel BY <1>8, ClosePanelKeeps
<1>9. ASSUME NEW r \in asked, MembersArrive(r) \/ MembersFail(r) PROVE MaintenanceInv'
  BY <1>9, MembersKeep
<1>10. CASE SendRequest BY <1>10, SendKeeps
<1>11. CASE RequestAnswered \/ RequestFails BY <1>11, RequestEndsKeeps
<1>12. CASE AskOlder \/ OlderArrive BY <1>12, OlderKeep
<1>13. CASE UNCHANGED maintenanceVars
  BY <1>13 DEF maintenanceVars, MaintenanceInv, MaintenanceTyped, CurrentIsHere, AnswersKnown,
               OpenPanelRefreshes, PanelOfOneCluster
<1> QED BY <1>1, <1>2, <1>3, <1>4, <1>5, <1>6, <1>7, <1>8, <1>9, <1>10, <1>11, <1>12, <1>13
        DEF MaintenanceNext

\* What a step may do to the plans shown: nothing an answer has told of before is undone.
PlansRuled ==
    plans' # plans /\ plans'.cluster # NoCluster => plans'.rev >= confirmed'[plans'.cluster]

LEMMA PlansFollowAnswers == MaintenanceInv /\ [MaintenanceNext]_maintenanceVars => PlansRuled
<1> SUFFICES ASSUME MaintenanceInv, [MaintenanceNext]_maintenanceVars PROVE PlansRuled OBVIOUS
<1>1. CASE UNCHANGED plans BY <1>1 DEF PlansRuled
<1>2. CASE plans' = NoPlans BY <1>2 DEF PlansRuled, NoPlans
<1>3. CASE ListArrives /\ plans' # plans
  <2>1. /\ listing.step = "served" /\ listing.current /\ UNCHANGED confirmed
        /\ plans' = [cluster |-> listing.cluster, rev |-> listing.rev]
    BY <1>3 DEF ListArrives
  <2>2. listing # Idle BY <2>1 DEF Idle
  <2>3. listing.cluster \in Clusters /\ listing.rev \in Nat /\ confirmed \in [Clusters -> Nat]
    BY <2>2, ReadFields DEF MaintenanceInv, MaintenanceTyped
  <2>4. confirmed[listing.cluster] <= listing.rev BY <2>1, <2>2 DEF MaintenanceInv, AnswersKnown
  <2>5. confirmed[listing.cluster] \in Nat BY <2>3
  <2> QED BY <2>1, <2>3, <2>4, <2>5 DEF PlansRuled
<1>4. UNCHANGED plans \/ plans' = NoPlans \/ ListArrives
  BY DEF MaintenanceNext, maintenanceVars, PlansChange, ServeList, ServeRequest, ListFails, TimerFires_,
         TabShown, OpenPanel, ClosePanel, MembersArrive, MembersFail, SendRequest, RequestAnswered,
         RequestFails, RequestEnds, AskOlder, OlderArrive
<1> QED BY <1>1, <1>2, <1>3, <1>4

\* The maintenance panel: an open panel always has its next read, shows nothing of another
\* cluster, and never undoes what an answer has told; what is left of PlansFollowServer is
\* that it catches up.
THEOREM PanelTrue == MaintenanceSpec => PanelKept /\ AnswerNotUndone
<1>1. MaintenanceInv' => (OpenPanelRefreshes /\ PanelOfOneCluster)' BY DEF MaintenanceInv
<1>2. PlansRuled =>
        (plans' # plans /\ plans'.cluster # NoCluster => plans'.rev >= confirmed'[plans'.cluster])
  BY DEF PlansRuled
<1> QED BY <1>1, <1>2, MaintenanceInitially, MaintenanceKeeps, PlansFollowAnswers, PTL
        DEF MaintenanceSpec, PanelKept, AnswerNotUndone
-----------------------------------------------------------------------------
(* The types. *)

PlansShown   == [cluster : Clusters, rev : 0..MaxRevision]
Members == [cluster : Clusters, current : BOOLEAN]
PanelTypes == MaintenanceTypeOK /\ (opened => context \in Clusters)

LEMMA CallTyped ==
  ASSUME NEW r \in Calls
  PROVE  /\ r.step \in {"sent", "served"} /\ r.cluster \in Clusters /\ r.current \in BOOLEAN
         /\ r.rev \in 0..MaxRevision /\ r # Idle
         /\ Stale(r) \in Calls
         /\ [cluster |-> r.cluster, rev |-> r.rev] \in PlansShown
         /\ \A v \in 0..MaxRevision : [r EXCEPT !.step = "served", !.rev = v] \in Calls
<1>1. /\ r.step \in {"sent", "served"} /\ r.cluster \in Clusters /\ r.current \in BOOLEAN
      /\ r.rev \in 0..MaxRevision
  BY DEF Calls
<1>2. r # Idle BY <1>1 DEF Idle
<1>3. Stale(r) \in Calls BY <1>2 DEF Stale, Calls
<1>4. [cluster |-> r.cluster, rev |-> r.rev] \in PlansShown BY <1>1 DEF PlansShown
<1>5. \A v \in 0..MaxRevision : [r EXCEPT !.step = "served", !.rev = v] \in Calls BY DEF Calls
<1> QED BY <1>1, <1>2, <1>3, <1>4, <1>5

LEMMA CallsTyped ==
  /\ \A k \in Clusters : Call(k) \in Calls
  /\ Stale(Idle) = Idle /\ Idle.step = "idle"
BY MaintenanceAssumption DEF Call, Calls, Stale, Idle

LEMMA CallOrIdle ==
  ASSUME NEW r \in Calls \cup {Idle}
  PROVE  /\ Stale(r) \in Calls \cup {Idle}
         /\ r # Idle => r \in Calls
         /\ r.step \in {"sent", "served"} => r \in Calls
<1>1. CASE r \in Calls BY <1>1, CallTyped
<1>2. CASE r = Idle BY <1>2, CallsTyped
<1> QED BY <1>1, <1>2

LEMMA RefreshTyped ==
  ASSUME NEW open \in BOOLEAN, NEW key, open => key \in Clusters, refreshAgain \in BOOLEAN,
         NEW read \in Calls \cup {Idle}, NEW request, Refresh(open, key, read, request)
  PROVE  timer' \in BOOLEAN /\ refreshAgain' \in BOOLEAN /\ listing' \in Calls \cup {Idle}
<1>1. timer' \in BOOLEAN /\ refreshAgain' \in BOOLEAN BY DEF Refresh
<1>2. listing' \in Calls \cup {Idle}
  <2>1. CASE open /\ request = Idle /\ read = Idle BY <2>1, CallsTyped DEF Refresh
  <2>2. CASE ~(open /\ request = Idle /\ read = Idle) BY <2>2 DEF Refresh
  <2> QED BY <2>1, <2>2
<1> QED BY <1>1, <1>2

LEMMA AfterTyped ==
  ASSUME PanelTypes, NEW current, AfterList(current)
  PROVE  timer' \in BOOLEAN /\ refreshAgain' \in BOOLEAN /\ listing' \in Calls \cup {Idle}
BY CallsTyped DEF PanelTypes, MaintenanceTypeOK, AfterList

LEMMA LeftTyped ==
  ASSUME PanelTypes
  PROVE  /\ Act => actsLeft' \in 0..MaxActs
         /\ Error => errorsLeft' \in 0..MaxErrors
BY MaintenanceAssumption DEF PanelTypes, MaintenanceTypeOK, Act, Error

LEMMA MembersTyped ==
  ASSUME PanelTypes
  PROVE  /\ StaleNodes \subseteq Members
         /\ \A k \in Clusters : [cluster |-> k, current |-> TRUE] \in Members
BY DEF PanelTypes, MaintenanceTypeOK, StaleNodes, Members

LEMMA TypesInitially == MaintenanceInit => PanelTypes
<1> SUFFICES ASSUME MaintenanceInit PROVE PanelTypes OBVIOUS
<1>1. actsLeft \in 0..MaxActs /\ errorsLeft \in 0..MaxErrors /\ 0 \in 0..MaxRevision
  BY MaintenanceAssumption DEF MaintenanceInit
<1> QED BY <1>1 DEF MaintenanceInit, PanelTypes, MaintenanceTypeOK

LEMMA TypesKept == PanelTypes /\ [MaintenanceNext]_maintenanceVars => PanelTypes'
<1> SUFFICES ASSUME PanelTypes, [MaintenanceNext]_maintenanceVars PROVE PanelTypes' OBVIOUS
<1> USE DEF PanelTypes
<1>1. /\ listing \in Calls \cup {Idle} /\ posting \in Calls \cup {Idle} /\ older \in Calls \cup {Idle}
      /\ revision \in [Clusters -> 0..MaxRevision] /\ MaxRevision \in Nat
      /\ context \in Clusters \cup {NoCluster}
      /\ opened \in BOOLEAN /\ refreshAgain \in BOOLEAN
  BY MaintenanceAssumption DEF MaintenanceTypeOK
<1>2. ASSUME NEW k \in Clusters, PlansChange(k) PROVE PanelTypes'
  <2>1. revision' \in [Clusters -> 0..MaxRevision] BY <1>1, <1>2 DEF PlansChange
  <2> QED BY <1>2, <2>1 DEF PlansChange, MaintenanceTypeOK, formVars, olderVars
<1>3. CASE ServeList
  <2>1. listing \in Calls BY <1>1, <1>3, CallOrIdle DEF ServeList
  <2>2. revision[listing.cluster] \in 0..MaxRevision BY <1>1, <2>1, CallTyped
  <2>3. listing' \in Calls BY <1>3, <2>1, <2>2, CallTyped DEF ServeList, Served
  <2> QED BY <1>3, <2>3 DEF ServeList, MaintenanceTypeOK, formVars, olderVars
<1>4. CASE ServeRequest
  <2>1. posting \in Calls BY <1>1, <1>4, CallOrIdle DEF ServeRequest
  <2>2. posting.cluster \in Clusters BY <2>1, CallTyped
  <2>3. revision' \in [Clusters -> 0..MaxRevision] BY <1>1, <1>4, <2>2 DEF ServeRequest
  <2>4. PICK v \in 0..MaxRevision : v = revision'[posting.cluster] BY <2>2, <2>3
  <2>5. posting' \in Calls BY <1>4, <2>1, <2>4, CallTyped DEF ServeRequest
  <2> QED BY <1>4, <2>3, <2>5 DEF ServeRequest, MaintenanceTypeOK, formVars, olderVars
<1>5. CASE ListArrives
  <2>1. timer' \in BOOLEAN /\ refreshAgain' \in BOOLEAN /\ listing' \in Calls \cup {Idle}
    BY <1>5, AfterTyped DEF ListArrives
  <2>2. listing \in Calls BY <1>1, <1>5, CallOrIdle DEF ListArrives
  <2>3. plans' \in PlansShown \cup {NoPlans} /\ history' \subseteq Clusters
    BY <1>5, <2>2, CallTyped DEF ListArrives, MaintenanceTypeOK, PlansShown
  <2> QED BY <1>5, <2>1, <2>3 DEF ListArrives, MaintenanceTypeOK, formVars, PlansShown
<1>6. CASE ListFails
  <2>1. timer' \in BOOLEAN /\ refreshAgain' \in BOOLEAN /\ listing' \in Calls \cup {Idle}
    BY <1>6, AfterTyped DEF ListFails
  <2> QED BY <1>6, <2>1, LeftTyped DEF ListFails, MaintenanceTypeOK, formVars, olderVars
<1>7. CASE TimerFires_ \/ TabShown
  <2>1. timer' \in BOOLEAN /\ refreshAgain' \in BOOLEAN /\ listing' \in Calls \cup {Idle}
    BY <1>1, <1>7, RefreshTyped DEF TimerFires_, TabShown
  <2> QED BY <1>7, <2>1, LeftTyped DEF TimerFires_, TabShown, MaintenanceTypeOK, formVars, olderVars
<1>8. ASSUME NEW k \in Clusters, OpenPanel(k) PROVE PanelTypes'
  <2>1. Stale(listing) \in Calls \cup {Idle} BY <1>1, CallOrIdle
  <2>2. Refresh(TRUE, k, Stale(listing), posting) BY <1>8 DEF OpenPanel
  <2>3. timer' \in BOOLEAN /\ refreshAgain' \in BOOLEAN /\ listing' \in Calls \cup {Idle}
    <3>1. PICK r \in Calls \cup {Idle} : r = Stale(listing) BY <2>1
    <3> QED BY <1>1, <2>2, <3>1, RefreshTyped
  <2>4. posting' \in Calls \cup {Idle} /\ older' \in Calls \cup {Idle}
    BY <1>1, <1>8, CallOrIdle DEF OpenPanel
  <2>5. asked' \subseteq Members BY <1>8, MembersTyped DEF OpenPanel
  <2>6. plans' \in PlansShown \cup {NoPlans} /\ history' \subseteq Clusters
    BY <1>8 DEF OpenPanel, MaintenanceTypeOK, PlansShown
  <2> QED
    BY <1>8, <2>3, <2>4, <2>5, <2>6, LeftTyped DEF OpenPanel, MaintenanceTypeOK, PlansShown, Members
<1>9. CASE ClosePanel
  <2>1. listing' \in Calls \cup {Idle} /\ posting' \in Calls \cup {Idle} /\ older' \in Calls \cup {Idle}
    BY <1>1, <1>9, CallOrIdle DEF ClosePanel
  <2>2. asked' \subseteq Members BY <1>9, MembersTyped DEF ClosePanel
  <2> QED BY <1>9, <2>1, <2>2, LeftTyped DEF ClosePanel, MaintenanceTypeOK, Members
<1>10. ASSUME NEW r \in asked, MembersArrive(r) \/ MembersFail(r) PROVE PanelTypes'
  <2>1. r.cluster \in Clusters BY DEF MaintenanceTypeOK
  <2> QED
    BY <1>10, <2>1, LeftTyped DEF MembersArrive, MembersFail, MaintenanceTypeOK, olderVars
<1>11. CASE SendRequest
  <2>1. listing' \in Calls \cup {Idle} /\ older' \in Calls \cup {Idle} /\ posting' \in Calls
    BY <1>1, <1>11, CallOrIdle, CallsTyped DEF SendRequest
  <2> QED BY <1>11, <2>1, LeftTyped DEF SendRequest, MaintenanceTypeOK, formVars
<1>12. CASE RequestAnswered \/ RequestFails
  <2>1. RequestEnds BY <1>12 DEF RequestAnswered, RequestFails
  <2>2. timer' \in BOOLEAN /\ refreshAgain' \in BOOLEAN /\ listing' \in Calls \cup {Idle}
    BY <1>1, <2>1, RefreshTyped DEF RequestEnds
  <2>3. confirmed' \in [Clusters -> 0..MaxRevision]
    <3>1. CASE RequestAnswered
      <4>1. posting \in Calls BY <1>1, <3>1, CallOrIdle DEF RequestAnswered
      <4> QED BY <3>1, <4>1, CallTyped DEF RequestAnswered, MaintenanceTypeOK
    <3>2. CASE RequestFails BY <3>2 DEF RequestFails, MaintenanceTypeOK
    <3> QED BY <1>12, <3>1, <3>2
  <2>4. errorsLeft' \in 0..MaxErrors
    BY <1>12, LeftTyped DEF RequestAnswered, RequestFails, MaintenanceTypeOK
  <2> QED BY <2>1, <2>2, <2>3, <2>4 DEF RequestEnds, MaintenanceTypeOK, formVars, olderVars
<1>13. CASE AskOlder
  <2>1. older' \in Calls BY <1>1, <1>13, CallsTyped DEF AskOlder
  <2> QED BY <1>13, <2>1, LeftTyped DEF AskOlder, MaintenanceTypeOK, formVars
<1>14. CASE OlderArrive
  <2>1. older \in Calls BY <1>1, <1>14, CallOrIdle DEF OlderArrive
  <2>2. history' \subseteq Clusters BY <1>14, <2>1, CallTyped DEF OlderArrive, MaintenanceTypeOK
  <2> QED BY <1>14, <2>2 DEF OlderArrive, MaintenanceTypeOK, formVars
<1>15. CASE UNCHANGED maintenanceVars
  BY <1>15 DEF maintenanceVars, MaintenanceTypeOK, formVars, olderVars
<1> QED
  BY <1>2, <1>3, <1>4, <1>5, <1>6, <1>7, <1>8, <1>9, <1>10, <1>11, <1>12, <1>13, <1>14, <1>15
  DEF MaintenanceNext

\* The panel, its reads and its requests keep their types.
THEOREM MaintenanceTypeCorrect == MaintenanceSpec => []MaintenanceTypeOK
<1>1. PanelTypes => MaintenanceTypeOK BY DEF PanelTypes
<1> QED BY <1>1, TypesInitially, TypesKept, PTL DEF MaintenanceSpec
-----------------------------------------------------------------------------
(* The page of the Change Center. *)

Versions   == [op : Nat, active : BOOLEAN, scheduled : BOOLEAN]
Lists      == [Changes -> Versions]
LoadsSent  == [step : {"sent"}, generation : Nat]
LoadsRead  == [step : {"read"}, generation : Nat, data : Lists]
PostsKnown == [id : Nat, change : Changes, kind : Kinds,
               step : {"sent", "accepted", "done"}, data : Versions]

CenterTyped ==
    /\ record \in Lists /\ seen \in Lists
    /\ load \in LoadsSent \cup LoadsRead \cup {NoLoad}
    /\ generation \in Nat /\ poll \in BOOLEAN
    /\ posts \subseteq PostsKnown /\ announced \subseteq Changes \X Nat
    /\ centerLeft \in [posts : Nat, lost : Nat]

\* Whatever the page has or will get was true of the server at some time.
FollowsList(old, new) == \A c \in Changes : Rank(old[c]) <= Rank(new[c])
FromServer ==
    /\ FollowsList(seen, record)
    /\ \A p \in posts : p.step = "accepted" => Rank(p.data) <= Rank(record[p.change])
    /\ load.step = "read" => FollowsList(load.data, record)
    /\ EndsReportedTruly

\* A list that still counts was read after all that is shown.
ListsCount ==
    /\ load # NoLoad => load.generation <= generation
    /\ load.step = "read" /\ load.generation = generation => FollowsList(seen, load.data)

CenterInv == CenterTyped /\ PollsWhileActive /\ FromServer /\ ListsCount
-----------------------------------------------------------------------------
LEMMA RankNat ==
  ASSUME NEW r \in Versions
  PROVE  /\ Rank(r) \in Nat /\ r.op \in Nat /\ r.active \in BOOLEAN /\ r.scheduled \in BOOLEAN
         /\ r.active => Rank(r) = 2 * r.op
         /\ ~r.active => Rank(r) = 2 * r.op + 1
<1>1. r.op \in Nat /\ r.active \in BOOLEAN /\ r.scheduled \in BOOLEAN BY DEF Versions
<1>2. CASE r.active BY <1>1, <1>2 DEF Rank
<1>3. CASE ~r.active BY <1>1, <1>3 DEF Rank
<1> QED BY <1>1, <1>2, <1>3

LEMMA PostFields ==
  ASSUME NEW p \in PostsKnown
  PROVE  p.change \in Changes /\ p.kind \in Kinds /\ p.data \in Versions
BY DEF PostsKnown

LEMMA LoadFields ==
  ASSUME load \in LoadsSent \cup LoadsRead \cup {NoLoad}
  PROVE  /\ load # NoLoad => load.generation \in Nat
         /\ load.step = "read" <=> load \in LoadsRead
         /\ load \in LoadsRead => load.data \in Lists /\ load # NoLoad
<1>1. CASE load \in LoadsSent BY <1>1 DEF LoadsSent, LoadsRead, NoLoad
<1>2. CASE load \in LoadsRead BY <1>2 DEF LoadsSent, LoadsRead, NoLoad
<1>3. CASE load = NoLoad BY <1>3 DEF LoadsSent, LoadsRead, NoLoad
<1> QED BY <1>1, <1>2, <1>3

\* An operation is queued, or ends: the record goes on.
LEMMA RecordGoesOn ==
  ASSUME NEW r \in Versions
  PROVE  /\ ~r.active => LET q == [r EXCEPT !.op = @ + 1, !.active = TRUE] IN
               q \in Versions /\ Rank(r) <= Rank(q)
         /\ r.active => LET q == [r EXCEPT !.active = FALSE] IN
               q \in Versions /\ Rank(r) <= Rank(q)
         /\ \A b \in BOOLEAN : LET q == [r EXCEPT !.scheduled = b] IN
               q \in Versions /\ Rank(q) = Rank(r)
<1>1. r.op \in Nat /\ r.op + 1 \in Nat BY RankNat
<1>2. ASSUME ~r.active, NEW n \in Nat, n = r.op + 1
      PROVE  LET q == [r EXCEPT !.op = n, !.active = TRUE] IN q \in Versions /\ Rank(r) <= Rank(q)
  <2> DEFINE q == [r EXCEPT !.op = n, !.active = TRUE]
  <2>1. q \in Versions /\ q.op = n /\ q.active BY DEF Versions
  <2> HIDE DEF q
  <2>2. Rank(q) = 2 * n /\ Rank(r) = 2 * r.op + 1 BY <1>2, <2>1, RankNat
  <2>3. Rank(r) <= Rank(q) BY <1>1, <1>2, <2>2
  <2> QED BY <2>1, <2>3 DEF q
<1>3. ASSUME r.active
      PROVE  LET q == [r EXCEPT !.active = FALSE] IN q \in Versions /\ Rank(r) <= Rank(q)
  <2> DEFINE q == [r EXCEPT !.active = FALSE]
  <2>1. q \in Versions /\ q.op = r.op /\ ~q.active BY DEF Versions
  <2> HIDE DEF q
  <2>2. Rank(q) = 2 * r.op + 1 /\ Rank(r) = 2 * r.op BY <1>3, <2>1, RankNat
  <2>3. Rank(r) <= Rank(q) BY <1>1, <2>2
  <2> QED BY <2>1, <2>3 DEF q
<1>4. ASSUME NEW b \in BOOLEAN
      PROVE  LET q == [r EXCEPT !.scheduled = b] IN q \in Versions /\ Rank(q) = Rank(r)
  BY DEF Versions, Rank
<1> QED BY <1>1, <1>2, <1>3, <1>4

LEMMA RanksOf ==
  ASSUME CenterInv
  PROVE  /\ \A c \in Changes : record[c] \in Versions /\ Rank(record[c]) \in Nat
         /\ \A c \in Changes : seen[c] \in Versions /\ Rank(seen[c]) \in Nat
         /\ \A p \in posts : p \in PostsKnown /\ p.change \in Changes /\ Rank(p.data) \in Nat
         /\ load.step = "read" =>
               load \in LoadsRead /\ \A c \in Changes : load.data[c] \in Versions /\ Rank(load.data[c]) \in Nat
         /\ \A a \in announced : a[1] \in Changes /\ a[2] \in Nat
<1>1. \A c \in Changes : record[c] \in Versions /\ Rank(record[c]) \in Nat
  BY RankNat DEF CenterInv, CenterTyped, Lists
<1>2. \A c \in Changes : seen[c] \in Versions /\ Rank(seen[c]) \in Nat
  BY RankNat DEF CenterInv, CenterTyped, Lists
<1>3. \A p \in posts : p \in PostsKnown /\ p.change \in Changes /\ Rank(p.data) \in Nat
  BY PostFields, RankNat DEF CenterInv, CenterTyped
<1>4. load.step = "read" =>
        load \in LoadsRead /\ \A c \in Changes : load.data[c] \in Versions /\ Rank(load.data[c]) \in Nat
  BY LoadFields, RankNat DEF CenterInv, CenterTyped, Lists
<1>5. \A a \in announced : a[1] \in Changes /\ a[2] \in Nat BY DEF CenterInv, CenterTyped
<1> QED BY <1>1, <1>2, <1>3, <1>4, <1>5

-----------------------------------------------------------------------------
(* The server. *)

\* The record of a change goes on, perhaps by a request that is then answered.
LEMMA ServerKeeps ==
  ASSUME CenterInv, NEW c \in Changes, NEW v \in Versions, Rank(record[c]) <= Rank(v),
         record' = [record EXCEPT ![c] = v], posts' \subseteq PostsKnown,
         \A p \in posts' : p.step = "accepted" => p \in posts \/ (p.change = c /\ p.data = v),
         Counted(posts') # {} <=> Counted(posts) # {},
         UNCHANGED <<seen, load, generation, poll, announced, centerLeft>>
  PROVE  CenterInv'
<1>1. record \in Lists BY DEF CenterInv, CenterTyped
<1>2. record' \in Lists /\ record'[c] = v /\ \A d \in Changes : d # c => record'[d] = record[d]
  BY <1>1 DEF Lists
<1>3. Rank(v) \in Nat BY RankNat
<1>4. \A d \in Changes : Rank(record[d]) <= Rank(record'[d]) /\ Rank(record'[d]) \in Nat
  BY <1>2, <1>3, RanksOf
<1>5. CenterTyped' BY <1>2 DEF CenterInv, CenterTyped
<1>6. PollsWhileActive' BY DEF CenterInv, PollsWhileActive, PollingNeeded
<1>7. FromServer'
  <2>1. \A d \in Changes : Rank(seen[d]) <= Rank(record'[d])
    BY <1>4, RanksOf DEF CenterInv, FromServer, FollowsList
  <2>2. \A p \in posts' : p.step = "accepted" => Rank(p.data) <= Rank(record'[p.change])
    <3> SUFFICES ASSUME NEW p \in posts', p.step = "accepted"
                 PROVE  Rank(p.data) <= Rank(record'[p.change])
      OBVIOUS
    <3>1. CASE p \in posts
      <4>1. Rank(p.data) <= Rank(record[p.change]) BY <3>1 DEF CenterInv, FromServer
      <4> QED BY <1>4, <3>1, <4>1, RanksOf
    <3>2. CASE p.change = c /\ p.data = v BY <1>2, <1>3, <3>2
    <3> QED BY <3>1, <3>2
  <2>3. load.step = "read" => \A d \in Changes : Rank(load.data[d]) <= Rank(record'[d])
    BY <1>4, RanksOf DEF CenterInv, FromServer, FollowsList
  <2>4. \A a \in announced : Rank(record'[a[1]]) > 2 * a[2]
    BY <1>4, RanksOf DEF CenterInv, FromServer, EndsReportedTruly
  <2>5. FollowsList(seen, record') BY <2>1 DEF FollowsList
  <2>6. load.step = "read" => FollowsList(load.data, record') BY <2>3 DEF FollowsList
  <2> QED BY <2>2, <2>4, <2>5, <2>6 DEF FromServer, EndsReportedTruly
<1>8. ListsCount' BY DEF CenterInv, ListsCount
<1> QED BY <1>5, <1>6, <1>7, <1>8 DEF CenterInv

LEMMA QueuedRecord ==
  ASSUME CenterInv, NEW c \in Changes, CanQueue(c)
  PROVE  /\ Queued(c) \in Versions /\ Rank(record[c]) <= Rank(Queued(c))
         /\ LET q == [Queued(c) EXCEPT !.scheduled = FALSE] IN
               q \in Versions /\ Rank(record[c]) <= Rank(q)
<1>1. record[c] \in Versions BY RanksOf
<1>2. Queued(c) \in Versions /\ Rank(record[c]) <= Rank(Queued(c))
  BY <1>1, RecordGoesOn DEF CanQueue, Queued
<1>3. PICK r \in Versions : r = Queued(c) BY <1>2
<1>4. LET q == [r EXCEPT !.scheduled = FALSE] IN q \in Versions /\ Rank(q) = Rank(r)
  BY RecordGoesOn
<1> QED BY <1>2, <1>3, <1>4

LEMMA OthersKeep ==
  ASSUME CenterInv, NEW c \in Changes, OtherUserQueues(c) \/ ScheduleStarts(c) \/ OperationEnds(c)
  PROVE  CenterInv'
<1>1. /\ UNCHANGED <<seen, load, generation, poll, posts, announced, centerLeft>>
      /\ posts \subseteq PostsKnown
  BY DEF OtherUserQueues, ScheduleStarts, OperationEnds, CenterInv, CenterTyped
<1>2. \E v \in Versions : Rank(record[c]) <= Rank(v) /\ record' = [record EXCEPT ![c] = v]
  <2>1. CASE OtherUserQueues(c) BY <2>1, QueuedRecord DEF OtherUserQueues
  <2>2. CASE ScheduleStarts(c) BY <2>2, QueuedRecord DEF ScheduleStarts
  <2>3. CASE OperationEnds(c)
    <3>1. record[c] \in Versions /\ record[c].active
          /\ record' = [record EXCEPT ![c] = [record[c] EXCEPT !.active = FALSE]]
      BY <2>3, RanksOf DEF OperationEnds
    <3> QED BY <3>1, RecordGoesOn
  <2> QED BY <2>1, <2>2, <2>3
<1>3. Counted(posts') = Counted(posts) BY <1>1
<1> QED BY <1>1, <1>2, <1>3, ServerKeeps

LEMMA ServePostKeeps == ASSUME CenterInv, NEW p \in posts, ServePost(p) PROVE CenterInv'
<1>1. p \in PostsKnown /\ p.change \in Changes /\ record[p.change] \in Versions /\ posts \subseteq PostsKnown
  BY RanksOf DEF CenterInv, CenterTyped
<1>2. UNCHANGED <<seen, load, generation, poll, announced, centerLeft>> BY DEF ServePost
<1>3. PICK c \in Changes : c = p.change BY <1>1
<1>4. \* The request p is replaced by its answer, of the same kind.
      ASSUME NEW q \in PostsKnown, q.kind = p.kind, posts' = (posts \ {p}) \cup {q}
      PROVE  posts' \subseteq PostsKnown /\ (Counted(posts') # {} <=> Counted(posts) # {})
  BY <1>1, <1>4 DEF Counted
<1>5. CASE /\ CanQueue(p.change) /\ record' = [record EXCEPT ![p.change] = Queued(p.change)]
           /\ posts' = (posts \ {p}) \cup {[p EXCEPT !.step = "accepted", !.data = Queued(p.change)]}
  <2>1. PICK v \in Versions : v = Queued(c) /\ Rank(record[c]) <= Rank(v)
    BY <1>3, <1>5, QueuedRecord
  <2> DEFINE q == [p EXCEPT !.step = "accepted", !.data = v]
  <2>2. q \in PostsKnown /\ q.kind = p.kind /\ q.change = p.change /\ q.data = v
    BY <1>1 DEF PostsKnown
  <2>3. posts' = (posts \ {p}) \cup {q} /\ record' = [record EXCEPT ![c] = v]
    BY <1>3, <1>5, <2>1
  <2> HIDE DEF q
  <2>4. \A r \in posts' : r.step = "accepted" => r \in posts \/ (r.change = c /\ r.data = v)
    BY <1>3, <2>2, <2>3
  <2>5. posts' \subseteq PostsKnown /\ (Counted(posts') # {} <=> Counted(posts) # {})
    BY <1>4, <2>2, <2>3
  <2>6. Rank(record[c]) <= Rank(v) /\ record' = [record EXCEPT ![c] = v] BY <2>1, <2>3
  <2>7. /\ posts' \subseteq PostsKnown
        /\ \A r \in posts' : r.step = "accepted" => r \in posts \/ (r.change = c /\ r.data = v)
    BY <2>4, <2>5
  <2>8. Counted(posts') # {} <=> Counted(posts) # {} BY <2>5
  <2> QED BY <1>2, <2>6, <2>7, <2>8, ServerKeeps
<1>6. CASE /\ record' = [record EXCEPT ![p.change].scheduled = p.kind = "schedule"]
           /\ posts' = (posts \ {p}) \cup {[p EXCEPT !.step = "done"]}
  <2>1. PICK b \in BOOLEAN : b = (p.kind = "schedule") OBVIOUS
  <2>2. PICK v \in Versions : v = [record[c] EXCEPT !.scheduled = b] /\ Rank(v) = Rank(record[c])
    BY <1>1, <1>3, RecordGoesOn
  <2>3. Rank(record[c]) <= Rank(v) BY <2>2, RankNat
  <2>4. record' = [record EXCEPT ![c] = v] BY <1>3, <1>6, <2>1, <2>2
  <2> DEFINE q == [p EXCEPT !.step = "done"]
  <2>5. q \in PostsKnown /\ q.kind = p.kind /\ q.step = "done" BY <1>1 DEF PostsKnown
  <2>6. posts' = (posts \ {p}) \cup {q} BY <1>6
  <2> HIDE DEF q
  <2>7. \A r \in posts' : r.step = "accepted" => r \in posts BY <2>5, <2>6
  <2>8. posts' \subseteq PostsKnown /\ (Counted(posts') # {} <=> Counted(posts) # {})
    BY <1>4, <2>5, <2>6
  <2> QED BY <1>2, <2>3, <2>4, <2>7, <2>8, ServerKeeps
<1> QED BY <1>5, <1>6 DEF ServePost
-----------------------------------------------------------------------------
(* The loads. *)

\* A load that is sent knows nothing yet, and counts.
LEMMA LoadSent ==
  ASSUME NEW g \in Nat, load \in LoadsSent \cup LoadsRead \cup {NoLoad}, LoadIfIdle(g)
  PROVE  /\ load' \in LoadsSent \cup LoadsRead \cup {NoLoad} /\ load' # NoLoad
         /\ \/ load' = load
            \/ load'.step = "sent" /\ load'.generation = g
<1>1. CASE load = NoLoad
  <2> DEFINE n == [step |-> "sent", generation |-> g]
  <2>1. n \in LoadsSent /\ n # NoLoad /\ n.step = "sent" /\ n.generation = g
    BY DEF LoadsSent, NoLoad
  <2>2. load' = n BY <1>1 DEF LoadIfIdle
  <2> HIDE DEF n
  <2> QED BY <2>1, <2>2
<1>2. CASE load # NoLoad BY <1>2 DEF LoadIfIdle
<1> QED BY <1>1, <1>2

\* The load and the posts change; the table, the records and the reports stay.
LEMMA LoadKeeps ==
  ASSUME CenterInv, UNCHANGED <<record, seen, generation, announced>>,
         load' \in LoadsSent \cup LoadsRead \cup {NoLoad},
         \/ load' = load \/ load' = NoLoad
         \/ load'.step = "sent" /\ load'.generation = generation
         \/ load'.step = "read" /\ load'.data = record /\ load'.generation = load.generation /\ load # NoLoad,
         posts' \subseteq PostsKnown, \A p \in posts' : p.step = "accepted" => p \in posts,
         poll' \in BOOLEAN, PollsWhileActive', centerLeft' \in [posts : Nat, lost : Nat]
  PROVE  CenterInv'
<1>1. CenterTyped' BY DEF CenterInv, CenterTyped
<1>2. load \in LoadsSent \cup LoadsRead \cup {NoLoad} /\ generation \in Nat BY DEF CenterInv, CenterTyped
<1>3. NoLoad.step # "read" BY DEF NoLoad
<1>4. FromServer'
  <2>1. load'.step = "read" => FollowsList(load'.data, record)
    BY <1>3, RanksOf DEF CenterInv, FromServer, FollowsList
  <2> QED BY <2>1 DEF CenterInv, FromServer, EndsReportedTruly, FollowsList
<1>5. ListsCount'
  <2>1. load' # NoLoad => load'.generation <= generation BY <1>2 DEF CenterInv, ListsCount
  <2>2. load'.step = "read" /\ load'.generation = generation => FollowsList(seen, load'.data)
    BY <1>3 DEF CenterInv, ListsCount, FromServer
  <2> QED BY <2>1, <2>2 DEF ListsCount, FollowsList
<1> QED BY <1>1, <1>4, <1>5 DEF CenterInv

LEMMA SpentLeft ==
  ASSUME centerLeft \in [posts : Nat, lost : Nat], Use("posts") \/ Use("lost")
  PROVE  centerLeft' \in [posts : Nat, lost : Nat]
<1>1. CASE Use("posts")
  <2>1. centerLeft.posts > 0 /\ centerLeft' = [centerLeft EXCEPT !.posts = @ - 1] BY <1>1 DEF Use
  <2> QED BY <2>1
<1>2. CASE Use("lost")
  <2>1. centerLeft.lost > 0 /\ centerLeft' = [centerLeft EXCEPT !.lost = @ - 1] BY <1>2 DEF Use
  <2> QED BY <2>1
<1> QED BY <1>1, <1>2

LEMMA LoadsKeep ==
  ASSUME CenterInv, IntervalFires \/ ServeLoad \/ LoadFails
  PROVE  CenterInv'
<1>1. /\ UNCHANGED <<record, seen, generation, announced, posts, poll>>
      /\ UNCHANGED centerLeft \/ Use("lost")
      /\ load \in LoadsSent \cup LoadsRead \cup {NoLoad} /\ generation \in Nat
      /\ record \in Lists /\ posts \subseteq PostsKnown /\ poll \in BOOLEAN
      /\ centerLeft \in [posts : Nat, lost : Nat]
  BY DEF IntervalFires, ServeLoad, LoadFails, CenterInv, CenterTyped
<1>2. centerLeft' \in [posts : Nat, lost : Nat] BY <1>1, SpentLeft
<1>3. PollsWhileActive' BY <1>1 DEF CenterInv, PollsWhileActive
<1>4. CASE IntervalFires
  <2>1. LoadIfIdle(generation) BY <1>4 DEF IntervalFires
  <2> QED BY <1>1, <1>2, <1>3, <2>1, LoadSent, LoadKeeps
<1>5. CASE ServeLoad
  <2> DEFINE n == [step |-> "read", generation |-> load.generation, data |-> record]
  <2>1. load.step = "sent" /\ load' = n BY <1>5 DEF ServeLoad
  <2>2. load # NoLoad /\ load.generation \in Nat BY <1>1, <2>1, LoadFields DEF NoLoad
  <2>3. n \in LoadsRead /\ n.step = "read" /\ n.data = record /\ n.generation = load.generation
    BY <1>1, <2>2 DEF LoadsRead
  <2> HIDE DEF n
  <2> QED BY <1>1, <1>2, <1>3, <2>1, <2>2, <2>3, LoadKeeps
<1>6. CASE LoadFails
  <2>1. load' = NoLoad BY <1>6 DEF LoadFails
  <2> QED BY <1>1, <1>2, <1>3, <2>1, LoadKeeps
<1> QED BY <1>4, <1>5, <1>6

LEMMA ArrivesKeeps == ASSUME CenterInv, LoadArrives PROVE CenterInv'
<1>1. /\ load.step = "read" /\ load' = NoLoad
      /\ UNCHANGED <<record, generation, posts, centerLeft>>
  BY DEF LoadArrives
<1>2. /\ posts \subseteq PostsKnown /\ poll \in BOOLEAN /\ centerLeft \in [posts : Nat, lost : Nat]
      /\ announced \subseteq Changes \X Nat /\ generation \in Nat
  BY DEF CenterInv, CenterTyped
<1>3. CASE load.generation # generation
  <2>1. UNCHANGED <<seen, poll, announced>> BY <1>3 DEF LoadArrives
  <2>2. PollsWhileActive' BY <1>1, <2>1 DEF CenterInv, PollsWhileActive
  <2> QED BY <1>1, <1>2, <2>1, <2>2, LoadKeeps
<1>4. CASE load.generation = generation
  <2> DEFINE ended == {d \in Changes : seen[d].active /\ ~load.data[d].active}
             told == {<<c, load.data[c].op>> : c \in ended}
  <2>1. /\ seen' = load.data /\ announced' = announced \cup told
        /\ poll' = PollingNeeded(load.data, posts)
    BY <1>4 DEF LoadArrives
  <2>2. /\ load \in LoadsRead /\ load.data \in Lists
        /\ \A c \in Changes : load.data[c] \in Versions /\ Rank(load.data[c]) \in Nat
    BY <1>1, LoadFields, RanksOf DEF CenterInv, CenterTyped
  <2>3. FollowsList(load.data, record) BY <1>1 DEF CenterInv, FromServer
  <2>4. \A a \in told : a[1] \in Changes /\ a[2] \in Nat /\ Rank(record[a[1]]) > 2 * a[2]
    <3> SUFFICES ASSUME NEW c \in ended
                 PROVE  load.data[c].op \in Nat /\ Rank(record[c]) > 2 * load.data[c].op
      OBVIOUS
    <3>1. c \in Changes /\ ~load.data[c].active /\ load.data[c] \in Versions BY <2>2
    <3>2. load.data[c].op \in Nat /\ Rank(load.data[c]) = 2 * load.data[c].op + 1
      BY <3>1, RankNat
    <3>3. Rank(load.data[c]) <= Rank(record[c]) BY <2>3, <3>1 DEF FollowsList
    <3>4. Rank(record[c]) \in Nat BY <3>1, RanksOf
    <3> QED BY <3>2, <3>3, <3>4
  <2>5. told \subseteq Changes \X Nat BY <2>4
  <2> HIDE DEF told
  <2>6. CenterTyped'
    <3>1. poll' \in BOOLEAN BY <2>1 DEF PollingNeeded
    <3> QED BY <1>1, <1>2, <2>1, <2>2, <2>5, <3>1 DEF CenterInv, CenterTyped
  <2>7. PollsWhileActive' BY <1>1, <2>1, Zenon DEF PollsWhileActive
  <2>8. FromServer'
    <3>1. NoLoad.step # "read" BY DEF NoLoad
    <3>2. \A a \in announced' : Rank(record[a[1]]) > 2 * a[2]
      BY <2>1, <2>4 DEF CenterInv, FromServer, EndsReportedTruly
    <3> QED BY <1>1, <2>1, <2>3, <3>1, <3>2 DEF CenterInv, FromServer, EndsReportedTruly
  <2>9. ListsCount' BY <1>1 DEF ListsCount, NoLoad
  <2> QED BY <2>6, <2>7, <2>8, <2>9 DEF CenterInv
<1> QED BY <1>3, <1>4

-----------------------------------------------------------------------------
(* The requests of the user. *)

LEMMA SendPostKeeps ==
  ASSUME CenterInv, NEW c \in Changes, NEW kind \in Kinds, SendPost(c, kind)
  PROVE  CenterInv'
<1> DEFINE p == [id |-> centerLeft.posts, change |-> c, kind |-> kind, step |-> "sent", data |-> NoAnswer]
<1>1. /\ Use("posts") /\ posts' = posts \cup {p} /\ poll' = (poll \/ kind # "schedule")
      /\ UNCHANGED <<record, seen, load, generation, announced>>
  BY DEF SendPost
<1>2. /\ posts \subseteq PostsKnown /\ poll \in BOOLEAN /\ centerLeft \in [posts : Nat, lost : Nat]
      /\ load \in LoadsSent \cup LoadsRead \cup {NoLoad}
  BY DEF CenterInv, CenterTyped
<1>3. p \in PostsKnown /\ p.kind = kind /\ p.step = "sent"
  BY <1>2 DEF PostsKnown, NoAnswer, Versions
<1> HIDE DEF p
<1>4. centerLeft' \in [posts : Nat, lost : Nat] BY <1>1, <1>2, SpentLeft
<1>5. posts' \subseteq PostsKnown /\ \A q \in posts' : q.step = "accepted" => q \in posts
  BY <1>1, <1>2, <1>3
<1>6. PollsWhileActive'
  <2>1. CASE kind = "schedule"
    <3>1. Counted(posts') = Counted(posts) BY <1>1, <1>3, <2>1 DEF Counted
    <3>2. poll' <=> poll BY <1>1, <2>1
    <3> QED BY <1>1, <3>1, <3>2 DEF CenterInv, PollsWhileActive, PollingNeeded
  <2>2. CASE kind # "schedule"
    <3>1. p \in Counted(posts') BY <1>1, <1>3, <2>2 DEF Counted
    <3> QED BY <1>1, <2>2, <3>1 DEF PollsWhileActive, PollingNeeded
  <2> QED BY <2>1, <2>2
<1>7. poll' \in BOOLEAN BY <1>1, <1>2
<1> QED BY <1>1, <1>2, <1>4, <1>5, <1>6, <1>7, LoadKeeps

\* A request that is over without a new record to show.
LEMMA PostOverKeeps ==
  ASSUME CenterInv, NEW p \in posts, PostDone(p) \/ PostFails(p)
  PROVE  CenterInv'
<1>1. /\ posts' = posts \ {p} /\ UNCHANGED <<record, seen, generation, announced>>
      /\ poll' = IF p.kind = "schedule" THEN poll ELSE PollingNeeded(seen, posts')
      /\ LoadIfIdle(generation) \/ UNCHANGED load
      /\ UNCHANGED centerLeft \/ Use("lost")
  BY DEF PostDone, PostFails
<1>2. /\ posts \subseteq PostsKnown /\ poll \in BOOLEAN /\ centerLeft \in [posts : Nat, lost : Nat]
      /\ load \in LoadsSent \cup LoadsRead \cup {NoLoad} /\ generation \in Nat
  BY DEF CenterInv, CenterTyped
<1>3. centerLeft' \in [posts : Nat, lost : Nat] BY <1>1, <1>2, SpentLeft
<1>4. /\ load' \in LoadsSent \cup LoadsRead \cup {NoLoad}
      /\ load' = load \/ (load'.step = "sent" /\ load'.generation = generation)
  BY <1>1, <1>2, LoadSent
<1>5. PollsWhileActive' /\ poll' \in BOOLEAN
  <2>1. CASE p.kind = "schedule"
    <3>1. Counted(posts') = Counted(posts) BY <1>1, <2>1 DEF Counted
    <3>2. poll' = poll /\ seen' = seen BY <1>1, <2>1
    <3>3. PollingNeeded(seen, posts') <=> PollingNeeded(seen, posts)
      BY <3>1, Zenon DEF PollingNeeded
    <3>4. (poll <=> PollingNeeded(seen, posts)) /\ poll \in BOOLEAN
      BY <1>2 DEF CenterInv, PollsWhileActive
    <3>5. PollingNeeded(seen', posts') <=> PollingNeeded(seen, posts) BY <3>2, <3>3
    <3>6. poll' \in BOOLEAN BY <3>2, <3>4
    <3>7. poll' <=> PollingNeeded(seen', posts') BY <3>2, <3>4, <3>5
    <3> QED BY <3>6, <3>7 DEF PollsWhileActive
  <2>2. CASE p.kind # "schedule"
    <3>1. poll' = PollingNeeded(seen, posts') BY <1>1, <2>2
    <3>2. PollingNeeded(seen, posts') \in BOOLEAN BY DEF PollingNeeded
    <3>3. seen' = seen BY <1>1
    <3> QED BY <3>1, <3>2, <3>3 DEF PollsWhileActive
  <2> QED BY <2>1, <2>2
<1> QED BY <1>1, <1>2, <1>3, <1>4, <1>5, LoadKeeps

LEMMA AcceptedKeeps == ASSUME CenterInv, NEW p \in posts, PostAccepted(p) PROVE CenterInv'
<1>1. /\ p.step = "accepted" /\ generation' = generation + 1
      /\ seen' = [seen EXCEPT ![p.change] = p.data] /\ posts' = posts \ {p}
      /\ poll' = PollingNeeded(seen', posts') /\ LoadIfIdle(generation')
      /\ UNCHANGED <<record, announced, centerLeft>>
  BY DEF PostAccepted
<1>2. /\ p \in PostsKnown /\ seen \in Lists /\ generation \in Nat
      /\ load \in LoadsSent \cup LoadsRead \cup {NoLoad}
  BY DEF CenterInv, CenterTyped
<1>3. p.data \in Versions /\ p.change \in Changes BY <1>2, PostFields
<1>4. generation' \in Nat /\ generation < generation' BY <1>1, <1>2
<1>5. /\ load' \in LoadsSent \cup LoadsRead \cup {NoLoad} /\ load' # NoLoad
      /\ load' = load \/ (load'.step = "sent" /\ load'.generation = generation')
  BY <1>1, <1>2, <1>4, LoadSent
<1>6. /\ seen' \in Lists /\ seen'[p.change] = p.data
      /\ \A d \in Changes : d # p.change => seen'[d] = seen[d]
  BY <1>1, <1>2, <1>3 DEF Lists
<1>7. CenterTyped'
  <2>1. poll' \in BOOLEAN BY <1>1 DEF PollingNeeded
  <2> QED BY <1>1, <1>4, <1>5, <1>6, <2>1 DEF CenterInv, CenterTyped
<1>8. PollsWhileActive' BY <1>1, Zenon DEF PollsWhileActive
<1>9. FromServer'
  <2>1. Rank(p.data) <= Rank(record[p.change]) BY <1>1 DEF CenterInv, FromServer
  <2>2. FollowsList(seen', record) BY <1>6, <2>1 DEF CenterInv, FromServer, FollowsList
  <2>3. load'.step = "read" => FollowsList(load'.data, record) BY <1>5 DEF CenterInv, FromServer
  <2> QED BY <1>1, <2>2, <2>3 DEF CenterInv, FromServer, EndsReportedTruly
<1>10. ListsCount'
  <2>1. load # NoLoad => load.generation <= generation /\ load.generation \in Nat
    BY <1>2, LoadFields DEF CenterInv, ListsCount
  <2>2. load' = load => load'.generation < generation' BY <1>2, <1>4, <1>5, <2>1
  <2>3. load'.generation <= generation' /\ ~(load'.step = "read" /\ load'.generation = generation')
    BY <1>4, <1>5, <2>1, <2>2
  <2> QED BY <2>3 DEF ListsCount
<1> QED BY <1>7, <1>8, <1>9, <1>10 DEF CenterInv
-----------------------------------------------------------------------------
LEMMA CenterInitially == CenterInit => CenterInv
<1> SUFFICES ASSUME CenterInit PROVE CenterInv OBVIOUS
<1>1. NoAnswer \in Versions /\ ~NoAnswer.active /\ ~NoAnswer.scheduled BY DEF NoAnswer, Versions
<1>2. record \in Lists /\ seen = record BY <1>1 DEF CenterInit, Lists
<1>3. CenterTyped BY <1>2, CenterAssumption DEF CenterInit, CenterTyped
<1>4. PollsWhileActive
  <2>1. \A c \in Changes : ~seen[c].active /\ ~seen[c].scheduled BY <1>1 DEF CenterInit
  <2> QED BY <2>1 DEF CenterInit, PollsWhileActive, PollingNeeded, Counted
<1>5. FromServer
  <2>1. \A c \in Changes : Rank(record[c]) \in Nat BY <1>2, RankNat DEF Lists
  <2>2. \A c \in Changes : seen[c] = record[c] BY <1>2
  <2>3. \A c \in Changes : Rank(seen[c]) = Rank(record[c]) BY <2>2
  <2>4. ASSUME NEW c \in Changes PROVE Rank(seen[c]) <= Rank(record[c])
    <3> DEFINE old == Rank(seen[c])
               new == Rank(record[c])
    <3>1. new \in Nat /\ old = new BY <2>1, <2>3
    <3> HIDE DEF old, new
    <3>2. old <= new BY <3>1
    <3> QED BY <3>2 DEF old, new
  <2>5. FollowsList(seen, record) BY <2>4 DEF FollowsList
  <2> QED BY <2>5 DEF CenterInit, FromServer, EndsReportedTruly, NoLoad
<1>6. ListsCount BY DEF CenterInit, ListsCount, NoLoad
<1> QED BY <1>3, <1>4, <1>5, <1>6 DEF CenterInv

LEMMA CenterKeeps == CenterInv /\ [CenterNext]_centerVars => CenterInv'
<1> SUFFICES ASSUME CenterInv, [CenterNext]_centerVars PROVE CenterInv' OBVIOUS
<1>1. ASSUME NEW c \in Changes, OtherUserQueues(c) \/ ScheduleStarts(c) \/ OperationEnds(c)
      PROVE  CenterInv'
  BY <1>1, OthersKeep
<1>2. ASSUME NEW p \in posts, ServePost(p) PROVE CenterInv' BY <1>2, ServePostKeeps
<1>3. CASE IntervalFires \/ ServeLoad \/ LoadFails BY <1>3, LoadsKeep
<1>4. CASE LoadArrives BY <1>4, ArrivesKeeps
<1>5. ASSUME NEW c \in Changes, NEW kind \in Kinds, SendPost(c, kind) PROVE CenterInv'
  BY <1>5, SendPostKeeps
<1>6. ASSUME NEW p \in posts, PostAccepted(p) PROVE CenterInv' BY <1>6, AcceptedKeeps
<1>7. ASSUME NEW p \in posts, PostDone(p) \/ PostFails(p) PROVE CenterInv' BY <1>7, PostOverKeeps
<1>8. CASE UNCHANGED centerVars
  BY <1>8 DEF centerVars, CenterInv, CenterTyped, PollsWhileActive, FromServer, ListsCount,
              EndsReportedTruly, FollowsList
<1> QED BY <1>1, <1>2, <1>3, <1>4, <1>5, <1>6, <1>7, <1>8 DEF CenterNext

\* What a step may do to the table: a list does not take a change back.
TableRuled ==
    load' = NoLoad /\ seen' # seen => \A c \in Changes : Rank(seen'[c]) >= Rank(seen[c])

LEMMA TableFollowsLists == CenterInv /\ [CenterNext]_centerVars => TableRuled
<1> SUFFICES ASSUME CenterInv, [CenterNext]_centerVars PROVE TableRuled OBVIOUS
<1>1. CASE UNCHANGED seen BY <1>1 DEF TableRuled
<1>2. CASE LoadArrives /\ seen' # seen
  <2>1. load.step = "read" /\ load.generation = generation /\ seen' = load.data
    BY <1>2 DEF LoadArrives
  <2>2. FollowsList(seen, load.data) BY <2>1 DEF CenterInv, ListsCount
  <2>3. \A c \in Changes : Rank(seen[c]) <= Rank(load.data[c])
        /\ Rank(seen[c]) \in Nat /\ Rank(load.data[c]) \in Nat
    BY <2>1, <2>2, RanksOf DEF FollowsList
  <2> QED BY <2>1, <2>3 DEF TableRuled
<1>3. ASSUME NEW p \in posts, PostAccepted(p) PROVE TableRuled
  <2>1. generation' \in Nat /\ LoadIfIdle(generation')
    BY <1>3 DEF PostAccepted, CenterInv, CenterTyped
  <2>2. load' # NoLoad BY <2>1, LoadSent DEF CenterInv, CenterTyped
  <2> QED BY <2>2 DEF TableRuled
<1>4. UNCHANGED seen \/ LoadArrives \/ \E p \in posts : PostAccepted(p)
  BY DEF CenterNext, centerVars, OtherUserQueues, ScheduleStarts, OperationEnds, ServePost,
         IntervalFires, ServeLoad, LoadFails, SendPost, PostDone, PostFails
<1> QED BY <1>1, <1>2, <1>3, <1>4

\* The page of the Change Center: it polls exactly while it waits or shows work, a list that
\* comes late takes nothing back, and the end it reports is the end of that operation; what is
\* left of ViewFollowsNewest is that the view settles and every end is reported.
THEOREM ViewTrue == CenterSpec => []PollsWhileActive /\ ListNeverGoesBack /\ []EndsReportedTruly
<1>1. CenterInv => PollsWhileActive /\ EndsReportedTruly BY DEF CenterInv, FromServer
<1>2. TableRuled =>
        (load' = NoLoad /\ seen' # seen => \A c \in Changes : Rank(seen'[c]) >= Rank(seen[c]))
  BY DEF TableRuled
<1> QED BY <1>1, <1>2, CenterInitially, CenterKeeps, TableFollowsLists, PTL
        DEF CenterSpec, ListNeverGoesBack

-----------------------------------------------------------------------------
(* The types. *)

\* The records a change really has: an operation under way has been queued.
Begun      == {r \in ChangeRecords : r.active => r.op # 0}
BegunLists == [Changes -> Begun]
LoadsBegun == [step : {"sent"}, generation : 0..MaxPosts]
              \cup [step : {"read"}, generation : 0..MaxPosts, data : BegunLists]
PostsBegun == [id : 1..MaxPosts, change : Changes, kind : Kinds,
               step : {"sent", "accepted", "done"}, data : Begun]
CenterLeft == [posts : 0..MaxPosts, lost : 0..MaxLostCalls]

\* Each request moves the generation on once at most.
PostsCount == generation + Cardinality(posts) + centerLeft.posts <= MaxPosts
CenterBounded ==
    /\ record \in BegunLists /\ seen \in BegunLists
    /\ load \in LoadsBegun \cup {NoLoad}
    /\ posts \subseteq PostsBegun /\ IsFiniteSet(posts)
    /\ announced \subseteq Changes \X (1..MaxOps)
    /\ centerLeft \in CenterLeft
    /\ PostsCount

LEMMA BegunFields ==
  ASSUME NEW r \in Begun
  PROVE  /\ r.op \in 0..MaxOps /\ r.active \in BOOLEAN /\ r.scheduled \in BOOLEAN
         /\ r.active => r.op # 0
         /\ [r EXCEPT !.active = FALSE] \in Begun
         /\ \A b \in BOOLEAN : [r EXCEPT !.scheduled = b] \in Begun
         /\ \A n \in 1..MaxOps : [r EXCEPT !.op = n, !.active = TRUE] \in Begun
<1>1. r \in ChangeRecords /\ (r.active => r.op # 0) BY DEF Begun
<1>2. r.op \in 0..MaxOps /\ r.active \in BOOLEAN /\ r.scheduled \in BOOLEAN
  BY <1>1 DEF ChangeRecords
<1>3. [r EXCEPT !.active = FALSE] \in Begun BY <1>1 DEF Begun, ChangeRecords
<1>4. ASSUME NEW b \in BOOLEAN PROVE [r EXCEPT !.scheduled = b] \in Begun
  BY <1>1 DEF Begun, ChangeRecords
<1>5. ASSUME NEW n \in 1..MaxOps PROVE [r EXCEPT !.op = n, !.active = TRUE] \in Begun
  <2> DEFINE q == [r EXCEPT !.op = n, !.active = TRUE]
  <2>1. n \in 0..MaxOps /\ n # 0 BY CenterAssumption
  <2>2. q \in ChangeRecords /\ q.op = n BY <1>1, <2>1 DEF ChangeRecords
  <2> QED BY <2>1, <2>2 DEF Begun
<1> QED BY <1>1, <1>2, <1>3, <1>4, <1>5

LEMMA NoAnswerBegun == NoAnswer \in Begun
<1>1. 0 \in 0..MaxOps BY CenterAssumption
<1> QED BY <1>1 DEF NoAnswer, Begun, ChangeRecords

LEMMA PostBegunFields ==
  ASSUME NEW p \in PostsBegun
  PROVE  /\ p.change \in Changes /\ p.data \in Begun /\ p.kind \in Kinds
         /\ [p EXCEPT !.step = "done"] \in PostsBegun
         /\ \A r \in Begun : [p EXCEPT !.step = "accepted", !.data = r] \in PostsBegun
BY DEF PostsBegun

LEMMA LoadBegunFields ==
  ASSUME NEW l \in LoadsBegun \cup {NoLoad}
  PROVE  /\ l # NoLoad => l.generation \in 0..MaxPosts
         /\ l.step \in {"sent", "read"} => l # NoLoad
         /\ l.step = "read" => l.data \in BegunLists
<1>1. CASE l \in [step : {"sent"}, generation : 0..MaxPosts] BY <1>1 DEF NoLoad
<1>2. CASE l \in [step : {"read"}, generation : 0..MaxPosts, data : BegunLists]
  BY <1>2 DEF NoLoad
<1>3. CASE l = NoLoad BY <1>3 DEF NoLoad
<1> QED BY <1>1, <1>2, <1>3 DEF LoadsBegun

LEMMA LoadsMade ==
  ASSUME NEW g \in 0..MaxPosts
  PROVE  /\ [step |-> "sent", generation |-> g] \in LoadsBegun
         /\ \A d \in BegunLists : [step |-> "read", generation |-> g, data |-> d] \in LoadsBegun
BY DEF LoadsBegun

LEMMA CenterLeftFields ==
  ASSUME NEW l \in CenterLeft PROVE l.posts \in 0..MaxPosts /\ l.lost \in 0..MaxLostCalls
BY DEF CenterLeft

LEMMA CenterUsed ==
  ASSUME centerLeft \in CenterLeft, NEW kind \in {"posts", "lost"}, Use(kind)
  PROVE  /\ centerLeft' \in CenterLeft
         /\ centerLeft'.posts = IF kind = "posts" THEN centerLeft.posts - 1 ELSE centerLeft.posts
<1>1. PICK l \in CenterLeft : l = centerLeft OBVIOUS
<1>2. l.posts \in 0..MaxPosts /\ l.lost \in 0..MaxLostCalls BY CenterLeftFields
<1>3. l[kind] > 0 /\ centerLeft' = [l EXCEPT ![kind] = @ - 1] BY <1>1 DEF Use
<1>4. CASE kind = "posts"
  <2>1. l.posts - 1 \in 0..MaxPosts BY <1>2, <1>3, <1>4, CenterAssumption
  <2>2. PICK n \in 0..MaxPosts : n = l.posts - 1 BY <2>1
  <2>3. centerLeft' = [l EXCEPT !.posts = n] BY <1>3, <1>4, <2>2
  <2> QED BY <1>1, <1>4, <2>2, <2>3 DEF CenterLeft
<1>5. CASE kind = "lost"
  <2>1. l.lost - 1 \in 0..MaxLostCalls BY <1>2, <1>3, <1>5, CenterAssumption
  <2>2. PICK n \in 0..MaxLostCalls : n = l.lost - 1 BY <2>1
  <2>3. centerLeft' = [l EXCEPT !.lost = n] BY <1>3, <1>5, <2>2
  <2> QED BY <1>1, <1>5, <2>3 DEF CenterLeft
<1> QED BY <1>4, <1>5

LEMMA OneMore ==
  ASSUME NEW S, NEW x, IsFiniteSet(S)
  PROVE  /\ IsFiniteSet(S \cup {x}) /\ Cardinality(S \cup {x}) <= Cardinality(S) + 1
         /\ Cardinality(S) \in Nat /\ Cardinality(S \cup {x}) \in Nat
<1>1. Cardinality(S) \in Nat BY FS_CardinalityType
<1>2. IsFiniteSet(S \cup {x}) BY FS_AddElement
<1>3. Cardinality(S \cup {x}) = IF x \in S THEN Cardinality(S) ELSE Cardinality(S) + 1
  BY FS_AddElement
<1> QED BY <1>1, <1>2, <1>3

\* A request is answered and gone: the generation may move on by one.
LEMMA PostOver ==
  ASSUME CenterBounded, CenterInv, NEW p \in posts, posts' = posts \ {p},
         generation' = generation \/ generation' = generation + 1,
         centerLeft' \in CenterLeft, centerLeft'.posts = centerLeft.posts
  PROVE  /\ posts' \subseteq PostsBegun /\ IsFiniteSet(posts') /\ PostsCount'
         /\ generation' \in 0..MaxPosts
<1>1. IsFiniteSet(posts') /\ Cardinality(posts') = Cardinality(posts) - 1
  BY FS_RemoveElement DEF CenterBounded
<1>2. Cardinality(posts) \in Nat /\ Cardinality(posts') \in Nat
  BY <1>1, FS_CardinalityType DEF CenterBounded
<1>3. generation \in Nat /\ centerLeft.posts \in Nat
  BY CenterLeftFields DEF CenterBounded, CenterInv, CenterTyped
<1> QED BY <1>1, <1>2, <1>3, CenterAssumption DEF CenterBounded, PostsCount

LEMMA GenerationBounded == ASSUME CenterBounded, CenterInv PROVE generation \in 0..MaxPosts
<1>1. Cardinality(posts) \in Nat BY FS_CardinalityType DEF CenterBounded
<1>2. generation \in Nat /\ centerLeft.posts \in Nat
  BY CenterLeftFields DEF CenterBounded, CenterInv, CenterTyped
<1> QED BY <1>1, <1>2, CenterAssumption DEF CenterBounded, PostsCount

-----------------------------------------------------------------------------
LEMMA RecordsKept ==
  ASSUME CenterBounded, NEW c \in Changes, NEW r \in Begun, record' = [record EXCEPT ![c] = r],
         UNCHANGED <<seen, load, generation, announced, centerLeft>>,
         posts' \subseteq PostsBegun, IsFiniteSet(posts'), Cardinality(posts') <= Cardinality(posts),
         generation \in Nat
  PROVE  CenterBounded'
<1>1. record' \in BegunLists BY DEF CenterBounded, BegunLists
<1>2. Cardinality(posts') \in Nat /\ Cardinality(posts) \in Nat
  BY FS_CardinalityType DEF CenterBounded
<1>3. centerLeft.posts \in Nat BY CenterLeftFields DEF CenterBounded
<1>4. PostsCount' BY <1>2, <1>3, CenterAssumption DEF CenterBounded, PostsCount
<1> QED BY <1>1, <1>4 DEF CenterBounded

LEMMA QueuedBegun ==
  ASSUME CenterBounded, NEW c \in Changes
  PROVE  record[c] \in Begun /\ (CanQueue(c) => Queued(c) \in Begun)
<1>1. record[c] \in Begun BY DEF CenterBounded, BegunLists
<1>2. ASSUME CanQueue(c) PROVE Queued(c) \in Begun
  <2> PICK r \in Begun : r = record[c] BY <1>1
  <2>1. record[c].op + 1 \in 1..MaxOps
    <3>1. r.op \in 0..MaxOps BY BegunFields
    <3> QED BY <1>2, <3>1, CenterAssumption DEF CanQueue
  <2>2. PICK n \in 1..MaxOps : n = record[c].op + 1 BY <2>1
  <2>3. Queued(c) = [record[c] EXCEPT !.op = n, !.active = TRUE] BY <2>2 DEF Queued
  <2> QED BY <1>1, <2>3, BegunFields
<1> QED BY <1>1, <1>2

LEMMA ServePostBounded ==
  ASSUME CenterBounded, CenterInv, NEW p \in posts, ServePost(p) PROVE CenterBounded'
<1>1. p \in PostsBegun /\ p.change \in Changes BY PostBegunFields DEF CenterBounded
<1>2. record[p.change] \in Begun BY <1>1, QueuedBegun
<1>3. PICK r \in Begun, q \in PostsBegun :
         record' = [record EXCEPT ![p.change] = r] /\ posts' = (posts \ {p}) \cup {q}
  <2>1. CASE /\ CanQueue(p.change)
             /\ record' = [record EXCEPT ![p.change] = Queued(p.change)]
             /\ posts' = (posts \ {p}) \cup
                  {[p EXCEPT !.step = "accepted", !.data = Queued(p.change)]}
    BY <1>1, <2>1, QueuedBegun, PostBegunFields
  <2>2. CASE /\ record' = [record EXCEPT ![p.change].scheduled = p.kind = "schedule"]
             /\ posts' = (posts \ {p}) \cup {[p EXCEPT !.step = "done"]}
    <3>1. PICK b \in BOOLEAN : b = (p.kind = "schedule") OBVIOUS
    <3>2. record' = [record EXCEPT ![p.change] = [record[p.change] EXCEPT !.scheduled = b]]
      BY <2>2, <3>1
    <3>3. [record[p.change] EXCEPT !.scheduled = b] \in Begun BY <1>2, BegunFields
    <3> QED BY <1>1, <2>2, <3>2, <3>3, PostBegunFields
  <2> QED BY <2>1, <2>2 DEF ServePost
<1>4. IsFiniteSet(posts') /\ Cardinality(posts') <= Cardinality(posts)
  <2> DEFINE S == posts \ {p}
  <2>1. IsFiniteSet(S) /\ Cardinality(S) = Cardinality(posts) - 1
    BY FS_RemoveElement DEF CenterBounded
  <2>2. posts' = S \cup {q} BY <1>3
  <2> HIDE DEF S
  <2>3. /\ IsFiniteSet(posts') /\ Cardinality(posts') <= Cardinality(S) + 1
        /\ Cardinality(posts') \in Nat /\ Cardinality(S) \in Nat
    BY <2>1, <2>2, OneMore
  <2>4. Cardinality(posts) \in Nat BY FS_CardinalityType DEF CenterBounded
  <2> QED BY <2>1, <2>3, <2>4
<1>5. posts' \subseteq PostsBegun BY <1>3 DEF CenterBounded
<1>6. UNCHANGED <<seen, load, generation, announced, centerLeft>> BY DEF ServePost
<1>7. generation \in Nat BY DEF CenterInv, CenterTyped
<1> QED BY <1>1, <1>3, <1>4, <1>5, <1>6, <1>7, RecordsKept

LEMMA ServerBounded ==
  ASSUME CenterBounded, CenterInv, NEW c \in Changes,
         OtherUserQueues(c) \/ ScheduleStarts(c) \/ OperationEnds(c)
  PROVE  CenterBounded'
<1>1. record[c] \in Begun BY QueuedBegun
<1>2. PICK r \in Begun : record' = [record EXCEPT ![c] = r]
  <2>1. CASE OtherUserQueues(c) BY <2>1, QueuedBegun DEF OtherUserQueues
  <2>2. CASE ScheduleStarts(c)
    <3>1. Queued(c) \in Begun BY <2>2, QueuedBegun DEF ScheduleStarts
    <3>2. [Queued(c) EXCEPT !.scheduled = FALSE] \in Begun BY <3>1, BegunFields
    <3> QED BY <2>2, <3>2 DEF ScheduleStarts
  <2>3. CASE OperationEnds(c)
    <3>1. record' = [record EXCEPT ![c] = [record[c] EXCEPT !.active = FALSE]]
      BY <2>3 DEF OperationEnds
    <3> QED BY <1>1, <3>1, BegunFields
  <2> QED BY <2>1, <2>2, <2>3
<1>3. UNCHANGED <<seen, load, generation, posts, announced, centerLeft>>
  BY DEF OtherUserQueues, ScheduleStarts, OperationEnds
<1>4. Cardinality(posts) \in Nat /\ generation \in Nat
  BY FS_CardinalityType DEF CenterBounded, CenterInv, CenterTyped
<1>5. posts' \subseteq PostsBegun /\ IsFiniteSet(posts') /\ Cardinality(posts') <= Cardinality(posts)
  BY <1>3, <1>4 DEF CenterBounded
<1> QED BY <1>2, <1>3, <1>4, <1>5, RecordsKept

-----------------------------------------------------------------------------
LEMMA ArrivesBounded == ASSUME CenterBounded, CenterInv, LoadArrives PROVE CenterBounded'
<1>1. UNCHANGED <<record, generation, posts, centerLeft>> /\ load' = NoLoad BY DEF LoadArrives
<1>2. load.data \in BegunLists BY LoadBegunFields DEF LoadArrives, CenterBounded
<1>3. seen' \in BegunLists BY <1>2 DEF LoadArrives, CenterBounded
<1>4. announced' \subseteq Changes \X (1..MaxOps)
  <2>1. CASE load.generation # generation BY <2>1 DEF LoadArrives, CenterBounded
  <2>2. CASE load.generation = generation
    <3>1. ASSUME NEW c \in Changes, seen[c].active, ~load.data[c].active
          PROVE  load.data[c].op \in 1..MaxOps
      <4>1. seen[c] \in Begun /\ load.data[c] \in Begun
        BY <1>2 DEF CenterBounded, BegunLists
      <4>2. Rank(seen[c]) <= Rank(load.data[c])
        BY <2>2 DEF LoadArrives, CenterInv, ListsCount, FollowsList
      <4>3. PICK r \in Begun, q \in Begun : r = seen[c] /\ q = load.data[c] BY <4>1
      <4>4. /\ r.op \in 0..MaxOps /\ q.op \in 0..MaxOps /\ r.op # 0
            /\ r.active = TRUE /\ q.active = FALSE
        BY <3>1, <4>3, BegunFields
      <4>5. Rank(r) = 2 * r.op /\ Rank(q) = 2 * q.op + 1 BY <4>4, CenterAssumption DEF Rank
      <4>6. 2 * r.op <= 2 * q.op + 1 BY <4>2, <4>3, <4>5
      <4> QED BY <4>3, <4>4, <4>6, CenterAssumption
    <3>2. announced' = announced \cup
             {<<c, load.data[c].op>> : c \in {d \in Changes : seen[d].active /\ ~load.data[d].active}}
      BY <2>2 DEF LoadArrives
    <3> QED BY <3>1, <3>2 DEF CenterBounded
  <2> QED BY <2>1, <2>2
<1> QED BY <1>1, <1>3, <1>4 DEF CenterBounded, PostsCount

LEMMA SendBounded ==
  ASSUME CenterBounded, CenterInv, NEW c \in Changes, NEW kind \in Kinds, SendPost(c, kind)
  PROVE  CenterBounded'
<1> DEFINE p == [id |-> centerLeft.posts, change |-> c, kind |-> kind,
                 step |-> "sent", data |-> NoAnswer]
<1>1. /\ posts' = posts \cup {p} /\ Use("posts")
      /\ UNCHANGED <<record, seen, load, generation, announced>>
  BY DEF SendPost
<1>2. centerLeft.posts \in 1..MaxPosts
  BY <1>1, CenterLeftFields, CenterAssumption DEF CenterBounded, Use
<1>3. p \in PostsBegun BY <1>2, NoAnswerBegun DEF PostsBegun
<1> HIDE DEF p
<1>4. centerLeft' \in CenterLeft /\ centerLeft'.posts = centerLeft.posts - 1
  BY <1>1, CenterUsed DEF CenterBounded
<1>5. IsFiniteSet(posts') /\ Cardinality(posts') <= Cardinality(posts) + 1
  BY <1>1, OneMore DEF CenterBounded
<1>6. Cardinality(posts) \in Nat /\ Cardinality(posts') \in Nat /\ generation \in Nat
  BY <1>5, FS_CardinalityType DEF CenterBounded, CenterInv, CenterTyped
<1>7. PostsCount'
  BY <1>1, <1>2, <1>4, <1>5, <1>6, CenterAssumption DEF CenterBounded, PostsCount
<1> QED BY <1>1, <1>3, <1>4, <1>5, <1>7 DEF CenterBounded

LEMMA LoadIfIdleBounded ==
  ASSUME load \in LoadsBegun \cup {NoLoad}, NEW g \in 0..MaxPosts, LoadIfIdle(g)
  PROVE  load' \in LoadsBegun \cup {NoLoad}
BY LoadsMade DEF LoadIfIdle

LEMMA AnsweredBounded ==
  ASSUME CenterBounded, CenterInv, NEW p \in posts, PostAccepted(p) \/ PostDone(p) \/ PostFails(p)
  PROVE  CenterBounded'
<1>1. p \in PostsBegun /\ p.change \in Changes /\ p.data \in Begun
  BY PostBegunFields DEF CenterBounded
<1>2. centerLeft' \in CenterLeft /\ centerLeft'.posts = centerLeft.posts
  BY CenterUsed DEF CenterBounded, PostAccepted, PostDone, PostFails
<1>3. posts' = posts \ {p} /\ (generation' = generation \/ generation' = generation + 1)
  BY DEF PostAccepted, PostDone, PostFails
<1>4. /\ posts' \subseteq PostsBegun /\ IsFiniteSet(posts') /\ PostsCount'
      /\ generation' \in 0..MaxPosts
  BY <1>2, <1>3, PostOver
<1>5. load' \in LoadsBegun \cup {NoLoad}
  <2>1. generation \in 0..MaxPosts BY GenerationBounded
  <2>2. CASE UNCHANGED load BY <2>2 DEF CenterBounded
  <2>3. CASE LoadIfIdle(generation) BY <2>1, <2>3, LoadIfIdleBounded DEF CenterBounded
  <2>4. CASE LoadIfIdle(generation')
    <3>1. PICK g \in 0..MaxPosts : g = generation' BY <1>4
    <3> QED BY <2>4, <3>1, LoadIfIdleBounded DEF CenterBounded
  <2> QED BY <2>2, <2>3, <2>4 DEF PostAccepted, PostDone, PostFails
<1>6. seen' \in BegunLists
  <2>1. CASE PostAccepted(p) BY <1>1, <2>1 DEF PostAccepted, CenterBounded, BegunLists
  <2>2. CASE PostDone(p) \/ PostFails(p) BY <2>2 DEF PostDone, PostFails, CenterBounded
  <2> QED BY <2>1, <2>2
<1>7. UNCHANGED <<record, announced>> BY DEF PostAccepted, PostDone, PostFails
<1> QED BY <1>2, <1>4, <1>5, <1>6, <1>7 DEF CenterBounded

-----------------------------------------------------------------------------
LEMMA CenterBoundedInitially == CenterInit => CenterBounded
<1> SUFFICES ASSUME CenterInit PROVE CenterBounded OBVIOUS
<1>1. record \in BegunLists /\ seen \in BegunLists BY NoAnswerBegun DEF CenterInit, BegunLists
<1>2. centerLeft \in CenterLeft BY CenterAssumption DEF CenterInit, CenterLeft
<1>3. PostsCount BY FS_EmptySet, CenterAssumption DEF CenterInit, PostsCount
<1> QED BY <1>1, <1>2, <1>3, FS_EmptySet DEF CenterInit, CenterBounded

LEMMA CenterBoundedKept == CenterBounded /\ CenterInv /\ [CenterNext]_centerVars => CenterBounded'
<1> SUFFICES ASSUME CenterBounded, CenterInv, [CenterNext]_centerVars PROVE CenterBounded' OBVIOUS
<1>1. ASSUME NEW c \in Changes, OtherUserQueues(c) \/ ScheduleStarts(c) \/ OperationEnds(c)
      PROVE  CenterBounded'
  BY <1>1, ServerBounded
<1>2. ASSUME NEW p \in posts, ServePost(p) PROVE CenterBounded' BY <1>2, ServePostBounded
<1>3. CASE IntervalFires
  <2>1. generation \in 0..MaxPosts BY GenerationBounded
  <2>2. load' \in LoadsBegun \cup {NoLoad}
    BY <1>3, <2>1, LoadIfIdleBounded DEF IntervalFires, CenterBounded
  <2> QED BY <1>3, <2>2 DEF IntervalFires, CenterBounded, PostsCount
<1>4. CASE ServeLoad
  <2>1. load.generation \in 0..MaxPosts BY <1>4, LoadBegunFields DEF ServeLoad, CenterBounded
  <2>2. load' \in LoadsBegun BY <1>4, <2>1, LoadsMade DEF ServeLoad, CenterBounded
  <2> QED BY <1>4, <2>2 DEF ServeLoad, CenterBounded, PostsCount
<1>5. CASE LoadArrives BY <1>5, ArrivesBounded
<1>6. CASE LoadFails
  <2>1. centerLeft' \in CenterLeft /\ centerLeft'.posts = centerLeft.posts
    BY <1>6, CenterUsed DEF LoadFails, CenterBounded
  <2> QED BY <1>6, <2>1 DEF LoadFails, CenterBounded, PostsCount
<1>7. ASSUME NEW c \in Changes, NEW kind \in Kinds, SendPost(c, kind) PROVE CenterBounded'
  BY <1>7, SendBounded
<1>8. ASSUME NEW p \in posts, PostAccepted(p) \/ PostDone(p) \/ PostFails(p) PROVE CenterBounded'
  BY <1>8, AnsweredBounded
<1>9. CASE UNCHANGED centerVars BY <1>9 DEF centerVars, CenterBounded, PostsCount
<1> QED BY <1>1, <1>2, <1>3, <1>4, <1>5, <1>6, <1>7, <1>8, <1>9 DEF CenterNext

LEMMA CenterTypes == CenterBounded /\ CenterInv => CenterTypeOK
<1> SUFFICES ASSUME CenterBounded, CenterInv PROVE CenterTypeOK OBVIOUS
<1>1. Begun \subseteq ChangeRecords BY DEF Begun
<1>2. BegunLists \subseteq Data BY <1>1 DEF BegunLists, Data
<1>3. LoadsBegun \subseteq Loads BY <1>2 DEF LoadsBegun, Loads
<1>4. PostsBegun \subseteq Posts BY <1>1 DEF PostsBegun, Posts
<1>5. poll \in BOOLEAN BY DEF CenterInv, CenterTyped
<1> QED BY <1>2, <1>3, <1>4, <1>5, GenerationBounded DEF CenterBounded, CenterTypeOK, CenterLeft

\* The operations, the generation and the requests stay in their bounds: the generation moves on
\* once for a request, and the operation whose end is reported is one that was queued.
THEOREM CenterTypeCorrect == CenterSpec => []CenterTypeOK
<1> DEFINE Whole == CenterInv /\ CenterBounded
<1>1. CenterInit => Whole BY CenterInitially, CenterBoundedInitially
<1>2. Whole /\ [CenterNext]_centerVars => Whole' BY CenterKeeps, CenterBoundedKept
<1>3. Whole => CenterTypeOK BY CenterTypes
<1> QED BY <1>1, <1>2, <1>3, PTL DEF CenterSpec


(* The log viewer. *)

\* The files hold the records in the order they were written; a record that is not on disk
\* any more does not come back.
LogFiles == [id : FileIds, first : Nat \ {0}, last : Nat]
FilesInOrder ==
    /\ written \in Nat /\ rotations \in 0..MaxRotations
    /\ files \in Seq(LogFiles) /\ Last >= 1 /\ files[Last].last = written
    /\ \A i \in 1..Last : files[i].first <= files[i].last + 1 /\ files[i].id <= rotations + 1
    /\ \A i, j \in 1..Last :
          i < j => files[i].id < files[j].id /\ files[i].last < files[j].first

\* What cursor c says of a file: all up to record "hi" was read.  Either the file is as it was
\* left, or nothing in it was there then.
LeftAt(p, f, hi) ==
    /\ p.offset <= Size(f)
    /\ p.anchor = IF p.offset = 0 THEN 0 ELSE f.first + p.offset - 1
    /\ \A k \in f.first..f.last : k > hi <=> k >= f.first + p.offset
Emptied(p, f, hi) == hi < f.first /\ (p.offset = 0 \/ p.anchor < f.first)
ReadUpTo(c, f, hi) ==
    IF f.id \notin c.known THEN hi < f.first
    ELSE LET p == c.at[f.id] IN
         p.offset \in Nat /\ p.anchor \in Nat /\ (LeftAt(p, f, hi) \/ Emptied(p, f, hi))
CursorTrue(c, hi) == /\ \A id \in c.known : id \in 1..rotations + 1
                     /\ \A i \in 1..Last : ReadUpTo(c, files[i], hi)

\* Records that rise, up to "hi", and skip nothing that is on disk.
Stretch(s, hi) ==
    /\ s \in Seq(Nat)
    /\ \A i \in 1..Len(s) : s[i] <= hi
    /\ \A i, j \in 1..Len(s) : i < j => s[i] < s[j]
    /\ \A k \in OnDisk : Len(s) > 0 /\ s[1] <= k /\ k <= hi => \E i \in 1..Len(s) : s[i] = k

\* An answer that goes on where the rows end.
AnswerTrue(a, hi, to) ==
    /\ ~a.rejected
    /\ a.cursor # NoCursor => a.cursor.query = query /\ CursorTrue(a.cursor, to)
    /\ Stretch(a.entries, to)
    /\ cursor # NoCursor =>
          /\ hi <= to
          /\ \A i \in 1..Len(a.entries) : a.entries[i] > hi
          /\ \A k \in OnDisk : hi < k /\ k <= to => \E i \in 1..Len(a.entries) : a.entries[i] = k

LogRows    == [query : Queries, record : Nat]
Numbers(t) == [i \in 1..Len(t) |-> t[i].record]
ShownUpTo(hi) ==
    /\ Stretch(Numbers(rows), hi)
    /\ cursor # NoCursor => CursorTrue(cursor, hi)
    /\ \A r \in requests : r.current /\ r.answered => \E to \in 0..written : AnswerTrue(r.answer, hi, to)

\* One request counts, and it asks for what goes on from the page as it is.
OnePoll ==
    /\ \A r, s \in requests : r.current /\ s.current => r = s
    /\ pollTimer => form = query /\ \A r \in requests : ~r.current
    /\ \A r \in requests : r.current => r.query = query /\ form = query /\ r.cursor = cursor
RowsOfQuery ==
    /\ form \in Queries /\ query \in Queries /\ rows \in Seq(LogRows)
    /\ \A i, j \in 1..Len(rows) : rows[i].query = rows[j].query
    /\ cursor # NoCursor => /\ cursor.query = query /\ form = query
                            /\ \A i \in 1..Len(rows) : rows[i].query = query

LogInv == FilesInOrder /\ OnePoll /\ RowsOfQuery /\ \E hi \in 0..written : ShownUpTo(hi)

-----------------------------------------------------------------------------
(* Numbers in order. *)

LEMMA BelowGrows ==
  ASSUME NEW S \in SUBSET Nat, IsFiniteSet(S), NEW x \in S, NEW y \in S, x < y
  PROVE  /\ Cardinality({z \in S : z < x}) < Cardinality({z \in S : z < y})
         /\ Cardinality({z \in S : z > y}) < Cardinality({z \in S : z > x})
<1> DEFINE A == {z \in S : z < x}
           B == {z \in S : z < y}
           C == {z \in S : z > y}
           D == {z \in S : z > x}
<1>0. x \in Nat /\ y \in Nat /\ \A z \in S : z \in Nat OBVIOUS
<1>1. /\ A \in SUBSET B /\ x \in B /\ x \notin A
      /\ C \in SUBSET D /\ y \in D /\ y \notin C
  <2>1. \A z \in S : (z < x => z < y) /\ (z > y => z > x) BY <1>0
  <2>2. ~(x < x) /\ ~(y > y) /\ y > x BY <1>0
  <2> QED BY <2>1, <2>2
<1>2. B \in SUBSET S /\ D \in SUBSET S OBVIOUS
<1>3. IsFiniteSet(B) /\ IsFiniteSet(D) BY <1>2, FS_Subset
<1>4. /\ Cardinality(A) <= Cardinality(B) /\ Cardinality(A) # Cardinality(B)
      /\ IsFiniteSet(A)
  BY <1>1, <1>3, FS_Subset
<1>5. /\ Cardinality(C) <= Cardinality(D) /\ Cardinality(C) # Cardinality(D)
      /\ IsFiniteSet(C)
  BY <1>1, <1>3, FS_Subset
<1>6. /\ Cardinality(A) \in Nat /\ Cardinality(B) \in Nat
      /\ Cardinality(C) \in Nat /\ Cardinality(D) \in Nat
  BY <1>3, <1>4, <1>5, FS_CardinalityType
<1> HIDE DEF A, B, C, D
<1>7. Cardinality(A) < Cardinality(B) /\ Cardinality(C) < Cardinality(D) BY <1>4, <1>5, <1>6
<1> QED BY <1>7 DEF A, B, C, D

\* A finite set of numbers is listed from the least to the greatest.
LEMMA ListedInOrder ==
  ASSUME NEW S \in SUBSET Nat, IsFiniteSet(S)
  PROVE  /\ InOrder(S) \in Seq(S) /\ Len(InOrder(S)) = Cardinality(S)
         /\ \A i \in 1..Len(InOrder(S)) : InOrder(S)[i] \in S
         /\ \A i, j \in 1..Len(InOrder(S)) : i < j => InOrder(S)[i] < InOrder(S)[j]
         /\ \A x \in S : \E i \in 1..Len(InOrder(S)) : InOrder(S)[i] = x
<1> DEFINE rank == [x \in S |-> Cardinality({y \in S : y < x})]
           n == Cardinality(S)
           s == InOrder(S)
<1>1. n \in Nat BY FS_CardinalityType
<1>2. ASSUME NEW x \in S PROVE rank[x] \in 0..(n - 1)
  <2>1. /\ {y \in S : y < x} \in SUBSET S
        /\ {y \in S : y < x} # S
    OBVIOUS
  <2>2. /\ IsFiniteSet({y \in S : y < x})
        /\ Cardinality({y \in S : y < x}) <= n
        /\ Cardinality({y \in S : y < x}) # n
    BY <2>1, FS_Subset
  <2>3. Cardinality({y \in S : y < x}) \in Nat BY <2>2, FS_CardinalityType
  <2>4. rank[x] \in Nat /\ rank[x] <= n /\ rank[x] # n BY <2>2, <2>3
  <2> HIDE DEF rank, n
  <2> QED BY <1>1, <2>4
<1>3. ASSUME NEW x \in S, NEW y \in S, x < y PROVE rank[x] < rank[y]
  BY <1>3, BelowGrows
<1>4. rank \in [S -> 0..(n - 1)]
  BY <1>2
<1>5. rank \in Injection(S, 0..(n - 1))
  <2>1. ASSUME NEW x \in S, NEW y \in S, rank[x] = rank[y] PROVE x = y
    <3>1. rank[x] \in Nat /\ rank[y] \in Nat BY <1>2
    <3>2. ~(x < y) /\ ~(y < x) BY <1>3, <2>1, <3>1
    <3> QED BY <3>2
  <2> HIDE DEF rank
  <2> QED BY <1>4, <2>1 DEF Injection, IsInjective
<1>6. IsFiniteSet(0..(n - 1)) /\ Cardinality(0..(n - 1)) = n
  <2>1. n - 1 \in Int BY <1>1
  <2> HIDE DEF n
  <2>2. Cardinality(0..(n - 1)) = IF 0 > n - 1 THEN 0 ELSE (n - 1) - 0 + 1 BY <2>1, FS_Interval
  <2> QED BY <1>1, <2>1, <2>2, FS_Interval
<1>7. rank \in Surjection(S, 0..(n - 1)) BY <1>5, <1>6, FS_Injection
<1>8. \A k \in 0..(n - 1) : \E x \in S : rank[x] = k
  BY <1>7 DEF Surjection
<1>9. s = [i \in 1..n |-> CHOOSE x \in S : Cardinality({y \in S : y < x}) = i - 1]
  BY DEF InOrder
<1>10. ASSUME NEW i \in 1..n PROVE s[i] \in S /\ rank[s[i]] = i - 1
  <2>1. i - 1 \in 0..(n - 1) BY <1>1
  <2>2. s[i] = CHOOSE x \in S : Cardinality({y \in S : y < x}) = i - 1 BY <1>9
  <2>3. \E x \in S : rank[x] = i - 1 BY <1>8, <2>1
  <2>4. \E x \in S : Cardinality({y \in S : y < x}) = i - 1 BY <2>3
  <2>5. s[i] \in S /\ Cardinality({y \in S : y < s[i]}) = i - 1 BY <2>2, <2>4
  <2> QED BY <2>5
<1> HIDE DEF rank, n, s
<1>11. s \in Seq(S) /\ Len(s) = n
  <2>1. s \in [1..n -> S] BY <1>9, <1>10
  <2> QED BY <1>1, <2>1
<1>12. ASSUME NEW i \in 1..n, NEW j \in 1..n, i < j PROVE s[i] < s[j]
  <2>1. s[i] \in S /\ s[j] \in S /\ rank[s[i]] < rank[s[j]] /\ rank[s[i]] \in Nat /\ rank[s[j]] \in Nat
    BY <1>1, <1>2, <1>10, <1>12
  <2>2. s[i] \in Nat /\ s[j] \in Nat BY <2>1
  <2>3. s[i] # s[j] BY <2>1
  <2>4. ASSUME s[j] < s[i] PROVE FALSE
    <3>1. rank[s[j]] < rank[s[i]] BY <1>3, <2>1, <2>4
    <3> QED BY <2>1, <3>1
  <2> QED BY <2>2, <2>3, <2>4
<1>13. ASSUME NEW x \in S PROVE \E i \in 1..n : s[i] = x
  <2>1. rank[x] \in 0..(n - 1) BY <1>2
  <2>2. rank[x] + 1 \in 1..n /\ (rank[x] + 1) - 1 = rank[x] BY <1>1, <2>1
  <2>3. s[rank[x] + 1] \in S /\ rank[s[rank[x] + 1]] = rank[x] BY <1>10, <2>2
  <2>4. s[rank[x] + 1] = x BY <1>5, <2>3 DEF Injection, IsInjective
  <2> QED BY <2>2, <2>4
<1>14. n = Cardinality(S) /\ s = InOrder(S) BY DEF n, s
<1> QED BY <1>10, <1>11, <1>12, <1>13, <1>14

LEMMA OldestFirst ==
  ASSUME NEW S \in SUBSET Nat, IsFiniteSet(S)
  PROVE  /\ Oldest(S) \in SUBSET Nat /\ IsFiniteSet(Oldest(S)) /\ Oldest(S) \subseteq S
         /\ \A x \in Oldest(S), y \in S : y < x => y \in Oldest(S)
<1>1. Oldest(S) \in SUBSET S BY DEF Oldest
<1>2. ASSUME NEW x \in Oldest(S), NEW y \in S, y < x PROVE y \in Oldest(S)
  <2>1. x \in S /\ Cardinality({z \in S : z < x}) < AnswerLimit BY DEF Oldest
  <2>2. Cardinality({z \in S : z < y}) < Cardinality({z \in S : z < x}) BY <1>2, <2>1, BelowGrows
  <2>3. /\ {z \in S : z < x} \in SUBSET S /\ {z \in S : z < y} \in SUBSET S OBVIOUS
  <2>4. Cardinality({z \in S : z < x}) \in Nat /\ Cardinality({z \in S : z < y}) \in Nat
    BY <2>3, FS_Subset, FS_CardinalityType
  <2>5. Cardinality({z \in S : z < y}) < AnswerLimit BY <2>1, <2>2, <2>4, LogAssumption
  <2> QED BY <2>5 DEF Oldest
<1> QED BY <1>1, <1>2, FS_Subset

LEMMA NewestLast ==
  ASSUME NEW S \in SUBSET Nat, IsFiniteSet(S)
  PROVE  /\ Newest(S) \in SUBSET Nat /\ IsFiniteSet(Newest(S)) /\ Newest(S) \subseteq S
         /\ \A x \in Newest(S), y \in S : x < y => y \in Newest(S)
<1>1. Newest(S) \in SUBSET S BY DEF Newest
<1>2. ASSUME NEW x \in Newest(S), NEW y \in S, x < y PROVE y \in Newest(S)
  <2>1. x \in S /\ Cardinality({z \in S : z > x}) < AnswerLimit BY DEF Newest
  <2>2. Cardinality({z \in S : z > y}) < Cardinality({z \in S : z > x}) BY <1>2, <2>1, BelowGrows
  <2>3. /\ {z \in S : z > x} \in SUBSET S /\ {z \in S : z > y} \in SUBSET S OBVIOUS
  <2>4. Cardinality({z \in S : z > x}) \in Nat /\ Cardinality({z \in S : z > y}) \in Nat
    BY <2>3, FS_Subset, FS_CardinalityType
  <2>5. Cardinality({z \in S : z > y}) < AnswerLimit BY <2>1, <2>2, <2>4, LogAssumption
  <2> QED BY <2>5 DEF Newest
<1> QED BY <1>1, <1>2, FS_Subset
-----------------------------------------------------------------------------
(* The files. *)

LEMMA LogFileFields ==
  ASSUME NEW f \in LogFiles
  PROVE  f.id \in FileIds /\ f.first \in Nat \ {0} /\ f.last \in Nat
BY DEF LogFiles

LEMMA FilesOf ==
  ASSUME FilesInOrder
  PROVE  /\ Last \in Nat \ {0}
         /\ \A i \in 1..Last : /\ files[i] \in LogFiles /\ files[i].last <= written
                               /\ files[i].first <= files[i].last + 1
<1>1. Last \in Nat \ {0} /\ \A i \in 1..Last : files[i] \in LogFiles
  <2>1. Len(files) \in Nat /\ files \in [1..Len(files) -> LogFiles]
    BY LenProperties DEF FilesInOrder
  <2> QED BY <2>1 DEF FilesInOrder, Last
<1>2. ASSUME NEW i \in 1..Last PROVE files[i].last <= written
  <2>1. Last \in 1..Last /\ files[Last].last = written BY <1>1 DEF FilesInOrder
  <2>2. CASE i = Last BY <1>1, <2>1, <2>2, LogFileFields
  <2>3. CASE i # Last
    <3>1. i < Last BY <1>1, <2>3
    <3>2. files[i].last < files[Last].first /\ files[Last].first <= files[Last].last + 1
      BY <2>1, <3>1 DEF FilesInOrder
    <3>3. files[i].last \in Nat /\ files[Last].first \in Nat /\ written \in Nat
      BY <1>1, <2>1, LogFileFields DEF FilesInOrder
    <3> QED BY <2>1, <3>2, <3>3
  <2> QED BY <2>2, <2>3
<1> QED BY <1>1, <1>2 DEF FilesInOrder

LEMMA OnDiskIs == \A k : k \in OnDisk <=> \E i \in 1..Last : k \in files[i].first..files[i].last
BY DEF OnDisk

LEMMA DiskFinite ==
  ASSUME FilesInOrder
  PROVE  OnDisk \in SUBSET Nat /\ IsFiniteSet(OnDisk) /\ \A k \in OnDisk : k <= written
<1>1. ASSUME NEW k \in OnDisk PROVE k \in Nat /\ k <= written
  <2>1. PICK i \in 1..Last : k \in files[i].first..files[i].last BY OnDiskIs
  <2>2. files[i].first \in Nat /\ files[i].last \in Nat /\ files[i].last <= written
    BY FilesOf, LogFileFields
  <2>3. written \in Nat BY DEF FilesInOrder
  <2> QED BY <2>1, <2>2, <2>3
<1>2. written \in Nat BY DEF FilesInOrder
<1> QED BY <1>1, <1>2, FS_BoundedSetOfNaturals

\* Where a true cursor says that reading starts, what was not read begins.
LEMMA StartTrue ==
  ASSUME NEW f \in LogFiles, f.first <= f.last + 1, NEW c, NEW hi \in Nat, ReadUpTo(c, f, hi)
  PROVE  /\ Start(c, f) \in Nat /\ f.first + Start(c, f) <= f.last + 1
         /\ \A k : k \in StillUnread(c, f) <=> k \in f.first..f.last /\ k > hi
<1> DEFINE p == c.at[f.id]
           u == f.first
           v == f.last
           o == p.offset
<1>1. u \in Nat /\ v \in Nat /\ u <= v + 1 BY LogFileFields
<1>2. CASE f.id \notin c.known
  <2>1. Start(c, f) = 0 /\ hi < u BY <1>2 DEF Start, ReadUpTo
  <2>2. StillUnread(c, f) = u..v BY <1>1, <2>1 DEF StillUnread
  <2> HIDE DEF u, v
  <2>3. \A k \in u..v : k > hi BY <1>1, <2>1
  <2> QED BY <1>1, <2>1, <2>2, <2>3 DEF u, v
<1>3. CASE f.id \in c.known
  <2>1. o \in Nat /\ p.anchor \in Nat /\ (LeftAt(p, f, hi) \/ Emptied(p, f, hi))
    BY <1>3 DEF ReadUpTo
  <2>2. Start(c, f) = IF o <= v + 1 - u /\ p.anchor = (IF o = 0 THEN 0 ELSE u + o - 1)
                      THEN o ELSE 0
    BY <1>3 DEF Start, Size
  <2>3. CASE LeftAt(p, f, hi)
    <3>1. /\ o <= v + 1 - u /\ p.anchor = (IF o = 0 THEN 0 ELSE u + o - 1)
          /\ \A k \in u..v : k > hi <=> k >= u + o
      BY <2>3 DEF LeftAt, Size
    <3>2. Start(c, f) = o BY <2>2, <3>1
    <3>3. StillUnread(c, f) = (u + o)..v BY <3>2 DEF StillUnread
    <3> HIDE DEF u, v, o, p
    <3>4. u + o <= v + 1 BY <1>1, <2>1, <3>1
    <3>5. \A k : k \in (u + o)..v <=> k \in u..v /\ k >= u + o BY <1>1, <2>1
    <3>6. \A k : k \in (u + o)..v <=> k \in u..v /\ k > hi BY <3>1, <3>5
    <3>7. \A k : k \in StillUnread(c, f) <=> k \in u..v /\ k > hi BY <3>3, <3>6
    <3> QED BY <2>1, <3>2, <3>4, <3>7 DEF u, v
  <2>4. CASE Emptied(p, f, hi)
    <3>1. hi < u /\ (o = 0 \/ p.anchor < u) BY <2>4 DEF Emptied
    <3> HIDE DEF u, v, o, p
    <3>2. Start(c, f) = 0 BY <1>1, <2>1, <2>2, <3>1
    <3>3. StillUnread(c, f) = u..v BY <1>1, <3>2 DEF StillUnread, u, v
    <3>4. \A k \in u..v : k > hi BY <1>1, <3>1
    <3> QED BY <1>1, <3>2, <3>3, <3>4 DEF u, v
  <2> QED BY <2>1, <2>3, <2>4
<1> QED BY <1>2, <1>3-----------------------------------------------------------------------------
(* The answer. *)

\* "offset" is how many records of f are not newer than "to".
Divides(f, offset, to) ==
    /\ offset \in Nat /\ f.first + offset <= f.last + 1
    /\ \A k \in f.first..f.last : k > to <=> k >= f.first + offset

LEMMA CursorAtTrue ==
  ASSUME FilesInOrder, NEW q, NEW to \in Nat, NEW offset,
         \A i \in 1..Last : Divides(files[i], offset[i], to)
  PROVE  CursorAt(q, offset).query = q /\ CursorTrue(CursorAt(q, offset), to)
<1> DEFINE c == CursorAt(q, offset)
<1>1. c.query = q /\ c.known = {files[i].id : i \in 1..Last} BY DEF CursorAt
<1>2. ASSUME NEW i \in 1..Last PROVE ReadUpTo(c, files[i], to)
  <2> DEFINE f == files[i]
             p == PositionAt(f, offset[i])
  <2>1. f \in LogFiles /\ f.id \in c.known BY <1>1, FilesOf
  <2>2. FileIndex(f.id) = i
    <3>1. ASSUME NEW j \in 1..Last, files[j].id = f.id PROVE j = i
      <4>1. files[j].id \in Nat /\ f.id \in Nat /\ Last \in Nat
        BY <2>1, <3>1, FilesOf, LogFileFields, LogAssumption DEF FileIds
      <4>2. ~(i < j) /\ ~(j < i) BY <3>1, <4>1 DEF FilesInOrder
      <4> QED BY <4>1, <4>2
    <3> QED BY <3>1 DEF FileIndex
  <2>3. c.at[f.id] = p
    <3>1. f.id \in FileIds BY <2>1, LogFileFields
    <3>2. c.at[f.id] = PositionAt(files[FileIndex(f.id)], offset[FileIndex(f.id)])
      BY <1>1, <2>1, <3>1 DEF CursorAt
    <3> QED BY <2>2, <3>2
  <2>4. p.offset = offset[i] /\ p.anchor = (IF offset[i] = 0 THEN 0 ELSE f.first + offset[i] - 1)
    BY DEF PositionAt
  <2>5. Divides(f, offset[i], to) OBVIOUS
  <2> HIDE DEF c, f, p
  <2>6. offset[i] \in Nat /\ f.first \in Nat /\ f.last \in Nat /\ f.first + offset[i] <= f.last + 1
    BY <2>1, <2>5, LogFileFields DEF Divides
  <2>7. p.anchor \in Nat /\ p.offset \in Nat /\ p.offset <= f.last + 1 - f.first BY <2>4, <2>6
  <2>8. LeftAt(p, f, to) BY <2>4, <2>5, <2>7 DEF LeftAt, Divides, Size
  <2>9. ReadUpTo(c, f, to) BY <2>1, <2>3, <2>7, <2>8 DEF ReadUpTo
  <2> QED BY <2>9 DEF f
<1>3. \A id \in c.known : id \in 1..rotations + 1
  <2>1. \A i \in 1..Last : files[i].id \in Nat \ {0} /\ rotations \in Nat
    <3>1. rotations \in Nat BY LogAssumption DEF FilesInOrder
    <3>2. \A i \in 1..Last : files[i] \in LogFiles BY FilesOf
    <3>3. \A i \in 1..Last : files[i].id \in FileIds BY <3>2, LogFileFields
    <3>4. FileIds \subseteq Nat \ {0} BY LogAssumption DEF FileIds
    <3> QED BY <3>1, <3>3, <3>4
  <2>2. \A i \in 1..Last : files[i].id \in 1..rotations + 1 BY <2>1 DEF FilesInOrder
  <2> QED BY <1>1, <2>2
<1> QED BY <1>1, <1>2, <1>3 DEF CursorTrue

\* The offset after an answer that has read what lies between two records.
LEMMA OffsetGoesOn ==
  ASSUME NEW f \in LogFiles, NEW start \in Nat, f.first + start <= f.last + 1,
         NEW hi \in Nat, NEW to \in Nat, hi <= to, NEW N,
         \A k \in f.first..f.last : k > hi <=> k >= f.first + start,
         \A k \in f.first + start .. f.last : k \in N <=> k <= to
  PROVE  Divides(f, start + Cardinality(N \cap (f.first + start .. f.last)), to)
<1> DEFINE u == f.first
           v == f.last
           I == N \cap (u + start .. v)
<1>1. u \in Nat /\ v \in Nat /\ u + start \in Nat BY LogFileFields
<1>2. u + start <= v + 1 /\ \A k \in u..v : k > hi <=> k >= u + start OBVIOUS
<1>3. I = {k \in u + start .. v : k <= to} OBVIOUS
<1> HIDE DEF u, v, I
<1>4. CASE to >= v
  <2>1. \A k \in u + start .. v : k <= to BY <1>1, <1>4
  <2>2. I = u + start .. v BY <1>3, <2>1
  <2>3. Cardinality(I) = v - (u + start) + 1
    <3>1. Cardinality(u + start .. v) = IF u + start > v THEN 0 ELSE v - (u + start) + 1
      BY <1>1, FS_Interval
    <3> QED BY <1>1, <1>2, <2>2, <3>1
  <2>4. start + Cardinality(I) \in Nat /\ u + (start + Cardinality(I)) = v + 1
    BY <1>1, <1>2, <2>3
  <2>5. \A k \in u..v : k > to <=> k >= u + (start + Cardinality(I)) BY <1>1, <1>4, <2>4
  <2> QED BY <1>1, <2>4, <2>5 DEF Divides, u, v, I
<1>5. CASE to < u + start /\ to < v
  <2>1. \A k \in u + start .. v : k > to BY <1>1, <1>5
  <2>2. I = {} BY <1>1, <1>3, <2>1
  <2>3. Cardinality(I) = 0 /\ start + Cardinality(I) = start BY <2>2, FS_EmptySet
  <2>4. \A k \in u..v : k > to <=> k >= u + start BY <1>1, <1>2, <1>5
  <2> QED BY <1>1, <1>2, <2>3, <2>4 DEF Divides, u, v, I
<1>6. CASE u + start <= to /\ to < v
  <2>1. I = u + start .. to BY <1>1, <1>3, <1>6
  <2>2. Cardinality(I) = to - (u + start) + 1
    <3>1. Cardinality(u + start .. to) = IF u + start > to THEN 0 ELSE to - (u + start) + 1
      BY <1>1, FS_Interval
    <3> QED BY <1>1, <1>6, <2>1, <3>1
  <2>3. start + Cardinality(I) \in Nat /\ u + (start + Cardinality(I)) = to + 1
    BY <1>1, <1>6, <2>2
  <2>4. \A k \in u..v : k > to <=> k >= u + (start + Cardinality(I)) BY <1>1, <1>6, <2>3
  <2>5. u + (start + Cardinality(I)) <= v + 1 BY <1>1, <1>6, <2>3
  <2> QED BY <1>1, <2>3, <2>4, <2>5 DEF Divides, u, v, I
<1> QED BY <1>1, <1>4, <1>5, <1>6
\* Without a cursor: the newest records, and everything counts as read.
LEMMA FirstAnswer ==
  ASSUME FilesInOrder, NEW q
  PROVE  LET a == Answer(q, NoCursor) IN
         ~a.rejected /\ a.cursor.query = q /\ CursorTrue(a.cursor, written) /\ Stretch(a.entries, written)
<1> DEFINE whole == [i \in 1..Last |-> Size(files[i])]
           s == InOrder(Newest(OnDisk))
<1>1. Answer(q, NoCursor) = [rejected |-> FALSE, cursor |-> CursorAt(q, whole), entries |-> s]
  BY DEF Answer
<1>2. written \in Nat BY DEF FilesInOrder
<1>3. ASSUME NEW i \in 1..Last PROVE Divides(files[i], whole[i], written)
  <2> DEFINE u == files[i].first
             v == files[i].last
  <2>1. u \in Nat /\ v \in Nat /\ u <= v + 1 /\ v <= written BY FilesOf, LogFileFields
  <2>2. whole[i] = v + 1 - u BY DEF Size
  <2> HIDE DEF u, v
  <2>3. v + 1 - u \in Nat /\ u + (v + 1 - u) <= v + 1
        /\ \A k \in u..v : k > written <=> k >= u + (v + 1 - u)
    BY <1>2, <2>1
  <2> QED BY <2>2, <2>3 DEF Divides, u, v
<1> HIDE DEF whole
<1>4. CursorAt(q, whole).query = q /\ CursorTrue(CursorAt(q, whole), written)
  BY <1>2, <1>3, CursorAtTrue
<1>5. Stretch(s, written)
  <2> DEFINE N == Newest(OnDisk)
  <2>1. /\ N \in SUBSET Nat /\ IsFiniteSet(N) /\ N \subseteq OnDisk
        /\ \A x \in N, y \in OnDisk : x < y => y \in N
    BY DiskFinite, NewestLast
  <2> HIDE DEF N
  <2>2. /\ s \in Seq(N) /\ \A i \in 1..Len(s) : s[i] \in N
        /\ \A i, j \in 1..Len(s) : i < j => s[i] < s[j]
        /\ \A x \in N : \E i \in 1..Len(s) : s[i] = x
    BY <2>1, ListedInOrder DEF N
  <2> HIDE DEF s
  <2>3. s \in Seq(Nat) BY <2>1, <2>2, SeqMonotonic
  <2>4. \A i \in 1..Len(s) : s[i] <= written BY <2>1, <2>2, DiskFinite
  <2>5. ASSUME NEW k \in OnDisk, Len(s) > 0, s[1] <= k PROVE \E i \in 1..Len(s) : s[i] = k
    <3>1. 1 \in 1..Len(s) BY <2>3, <2>5, LenProperties
    <3>2. s[1] \in N /\ s[1] \in Nat /\ k \in Nat BY <2>1, <2>2, <3>1, DiskFinite
    <3>3. k \in N BY <2>1, <2>5, <3>2
    <3> QED BY <2>2, <3>3
  <2> QED BY <2>2, <2>3, <2>4, <2>5 DEF Stretch
<1> QED BY <1>1, <1>4, <1>5

\* With a cursor: the oldest of what was not read, in order, and a cursor behind it.
LEMMA NextAnswer ==
  ASSUME FilesInOrder, NEW c, c # NoCursor, NEW hi \in 0..written, CursorTrue(c, hi)
  PROVE  LET a == Answer(c.query, c) IN
         /\ ~a.rejected /\ a.cursor.query = c.query
         /\ \E to \in hi..written :
              /\ CursorTrue(a.cursor, to) /\ Stretch(a.entries, to)
              /\ \A i \in 1..Len(a.entries) : a.entries[i] > hi
              /\ \A k \in OnDisk : hi < k /\ k <= to => \E i \in 1..Len(a.entries) : a.entries[i] = k
<1> DEFINE U == UNION {StillUnread(c, files[i]) : i \in 1..Last}
           N == Oldest(U)
           s == InOrder(N)
           upto == [i \in 1..Last |-> Start(c, files[i]) + Cardinality(N \cap StillUnread(c, files[i]))]
           a == Answer(c.query, c)
<1>1. a = [rejected |-> FALSE, cursor |-> CursorAt(c.query, upto), entries |-> s]
  BY DEF Answer
<1>2. written \in Nat /\ hi \in Nat /\ hi <= written BY DEF FilesInOrder
<1>3. ASSUME NEW i \in 1..Last
      PROVE  /\ Start(c, files[i]) \in Nat /\ files[i] \in LogFiles
             /\ files[i].first + Start(c, files[i]) <= files[i].last + 1
             /\ \A k : k \in StillUnread(c, files[i]) <=> k \in files[i].first..files[i].last /\ k > hi
  <2>1. files[i] \in LogFiles /\ files[i].first <= files[i].last + 1 BY FilesOf
  <2>2. ReadUpTo(c, files[i], hi) BY DEF CursorTrue
  <2> QED BY <1>2, <2>1, <2>2, StartTrue
<1>4. \A k : k \in U <=> k \in OnDisk /\ k > hi BY <1>3, OnDiskIs
<1>5. /\ U \in SUBSET Nat /\ IsFiniteSet(U) BY <1>4, DiskFinite, FS_Subset
<1> HIDE DEF U
<1>6. /\ N \in SUBSET Nat /\ IsFiniteSet(N) /\ N \subseteq U
      /\ \A x \in N, y \in U : y < x => y \in N
  BY <1>5, OldestFirst
<1> HIDE DEF N
<1>7. /\ s \in Seq(N) /\ \A i \in 1..Len(s) : s[i] \in N
      /\ \A i, j \in 1..Len(s) : i < j => s[i] < s[j]
      /\ \A x \in N : \E i \in 1..Len(s) : s[i] = x
  BY <1>6, ListedInOrder
<1> HIDE DEF s
<1>8. s \in Seq(Nat) /\ Len(s) \in Nat BY <1>6, <1>7, SeqMonotonic, LenProperties
<1>9. \E to \in hi..written : \A k \in U : k \in N <=> k <= to
  <2>1. CASE Len(s) = 0
    <3>1. N = {} BY <1>7, <2>1
    <3>2. \A k \in U : k \notin N /\ ~(k <= hi) BY <1>2, <1>4, <1>5, <3>1
    <3>3. hi \in hi..written BY <1>2
    <3> QED BY <3>2, <3>3
  <2>2. CASE Len(s) # 0
    <3> DEFINE to == s[Len(s)]
    <3>1. Len(s) \in 1..Len(s) BY <1>8, <2>2
    <3>2. to \in N /\ to \in U /\ to \in Nat BY <1>6, <1>7, <3>1
    <3>3. to > hi /\ to <= written BY <1>4, <3>2, DiskFinite
    <3>4. ASSUME NEW k \in N PROVE k <= to
      <4>1. PICK i \in 1..Len(s) : s[i] = k BY <1>7
      <4>2. i = Len(s) \/ i < Len(s) BY <1>8
      <4>3. k \in Nat BY <1>6
      <4>4. CASE i = Len(s) BY <4>1, <4>3, <4>4
      <4>5. CASE i < Len(s)
        <5>1. s[i] < s[Len(s)] BY <1>7, <3>1, <4>5
        <5> QED BY <3>2, <4>1, <4>3, <5>1
      <4> QED BY <4>2, <4>4, <4>5
    <3> HIDE DEF to
    <3>5. ASSUME NEW k \in U, k <= to PROVE k \in N
      <4>1. k = to \/ k < to BY <1>5, <3>2, <3>5
      <4> QED BY <1>6, <3>2, <4>1
    <3>6. to \in hi..written BY <1>2, <3>2, <3>3
    <3> QED BY <3>4, <3>5, <3>6
  <2> QED BY <2>1, <2>2
<1>10. PICK to \in hi..written : \A k \in U : k \in N <=> k <= to BY <1>9
<1>11. to \in Nat /\ hi <= to BY <1>2
<1>12. ASSUME NEW i \in 1..Last PROVE Divides(files[i], upto[i], to)
  <2> DEFINE f == files[i]
             start == Start(c, f)
  <2>1. /\ f \in LogFiles /\ start \in Nat /\ f.first + start <= f.last + 1
        /\ \A k : k \in StillUnread(c, f) <=> k \in f.first..f.last /\ k > hi
    BY <1>3
  <2>2. StillUnread(c, f) = f.first + start .. f.last BY DEF StillUnread
  <2>3. upto[i] = start + Cardinality(N \cap (f.first + start .. f.last)) BY <2>2
  <2>4. \A k \in StillUnread(c, f) : k \in U BY DEF U
  <2> HIDE DEF f, start, upto
  <2>5. f.first \in Nat /\ f.last \in Nat BY <2>1, LogFileFields
  <2>6. \A k \in f.first..f.last : k > hi <=> k >= f.first + start
    <3>1. \A k \in f.first..f.last : k \in f.first + start .. f.last <=> k >= f.first + start
      BY <2>1, <2>5
    <3>2. \A k \in f.first..f.last : k \in f.first + start .. f.last <=> k > hi BY <2>1, <2>2
    <3> QED BY <3>1, <3>2
  <2>7. \A k \in f.first + start .. f.last : k \in N <=> k <= to BY <1>10, <2>2, <2>4
  <2>8. Divides(f, start + Cardinality(N \cap (f.first + start .. f.last)), to)
    BY <1>2, <1>11, <2>1, <2>6, <2>7, OffsetGoesOn
  <2> QED BY <2>3, <2>8 DEF f
<1> HIDE DEF upto
<1>13. CursorAt(c.query, upto).query = c.query /\ CursorTrue(CursorAt(c.query, upto), to)
  BY <1>11, <1>12, CursorAtTrue
<1>14. /\ \A i \in 1..Len(s) : s[i] > hi /\ s[i] <= to
       /\ \A k \in OnDisk : hi < k /\ k <= to => \E i \in 1..Len(s) : s[i] = k
  BY <1>2, <1>4, <1>6, <1>7, <1>10, DiskFinite
<1>15. Stretch(s, to)
  <2>1. ASSUME NEW k \in OnDisk, Len(s) > 0, s[1] <= k, k <= to
        PROVE  \E i \in 1..Len(s) : s[i] = k
    <3>1. 1 \in 1..Len(s) BY <1>8, <2>1
    <3>2. s[1] > hi /\ s[1] \in Nat /\ k \in Nat BY <1>6, <1>7, <1>14, <3>1, DiskFinite
    <3>3. hi < k BY <1>2, <2>1, <3>2
    <3> QED BY <1>14, <2>1, <3>3
  <2> QED BY <1>7, <1>8, <1>14, <2>1 DEF Stretch
<1> QED BY <1>1, <1>13, <1>14, <1>15-----------------------------------------------------------------------------
(* The log goes on while a cursor is kept. *)

LEMMA GrownFile ==
  ASSUME NEW f \in LogFiles, f.first <= f.last + 1, NEW n \in Nat, f.last = n,
         NEW c, NEW hi \in 0..n, ReadUpTo(c, f, hi)
  PROVE  LET g == [f EXCEPT !.last = n + 1] IN
         /\ g \in LogFiles /\ g.id = f.id /\ g.first = f.first /\ g.last = n + 1
         /\ ReadUpTo(c, g, hi)
<1> DEFINE g == [f EXCEPT !.last = n + 1]
<1>1. g \in LogFiles /\ g.id = f.id /\ g.first = f.first /\ g.last = n + 1 BY DEF LogFiles
<1> HIDE DEF g
<1>2. f.first \in Nat /\ hi \in Nat /\ hi <= n BY LogFileFields
<1>3. ASSUME f.id \notin c.known PROVE ReadUpTo(c, g, hi) BY <1>1, <1>3 DEF ReadUpTo
<1>4. ASSUME f.id \in c.known PROVE ReadUpTo(c, g, hi)
  <2> DEFINE p == c.at[f.id]
             u == f.first
             o == p.offset
  <2>1. o \in Nat /\ p.anchor \in Nat /\ (LeftAt(p, f, hi) \/ Emptied(p, f, hi))
    BY <1>4 DEF ReadUpTo
  <2>2. CASE LeftAt(p, f, hi)
    <3>1. /\ o <= n + 1 - u /\ p.anchor = (IF o = 0 THEN 0 ELSE u + o - 1)
          /\ \A k \in u..n : k > hi <=> k >= u + o
      BY <2>2 DEF LeftAt, Size
    <3> HIDE DEF u, o, p
    <3>2. u \in Nat BY <1>2 DEF u
    <3>3. o <= (n + 1) + 1 - u BY <2>1, <3>1, <3>2
    <3>4. \A k \in u..n + 1 : k > hi <=> k >= u + o
      <4>1. ASSUME NEW k \in u..n + 1 PROVE k > hi <=> k >= u + o
        <5>1. CASE k \in u..n BY <3>1, <5>1
        <5>2. CASE k = n + 1 BY <1>2, <2>1, <3>1, <3>2, <5>2
        <5> QED BY <3>2, <5>1, <5>2
      <4> QED BY <4>1
    <3>5. LeftAt(p, g, hi) BY <1>1, <3>1, <3>3, <3>4 DEF LeftAt, Size, u, o
    <3> QED BY <1>1, <1>4, <2>1, <3>5 DEF ReadUpTo, p, o
  <2>3. CASE Emptied(p, f, hi)
    <3>1. Emptied(p, g, hi) BY <1>1, <2>3 DEF Emptied
    <3> QED BY <1>1, <1>4, <2>1, <3>1 DEF ReadUpTo
  <2> QED BY <2>1, <2>2, <2>3
<1> QED BY <1>1, <1>3, <1>4 DEF g

LEMMA EmptiedFile ==
  ASSUME NEW f \in LogFiles, f.first <= f.last + 1, NEW n \in Nat, f.last = n,
         NEW c, NEW hi \in 0..n, ReadUpTo(c, f, hi)
  PROVE  LET g == [f EXCEPT !.first = n + 1, !.last = n] IN
         /\ g \in LogFiles /\ g.id = f.id /\ g.first = n + 1 /\ g.last = n
         /\ ReadUpTo(c, g, hi)
<1> DEFINE g == [f EXCEPT !.first = n + 1, !.last = n]
<1>1. g \in LogFiles /\ g.id = f.id /\ g.first = n + 1 /\ g.last = n
  <2>1. n + 1 \in Nat \ {0} OBVIOUS
  <2> QED BY <2>1 DEF LogFiles
<1> HIDE DEF g
<1>2. f.first \in Nat /\ hi \in Nat /\ hi < n + 1 /\ f.first <= n + 1 BY LogFileFields
<1>3. ASSUME f.id \notin c.known PROVE ReadUpTo(c, g, hi) BY <1>1, <1>2, <1>3 DEF ReadUpTo
<1>4. ASSUME f.id \in c.known PROVE ReadUpTo(c, g, hi)
  <2> DEFINE p == c.at[f.id]
             u == f.first
             o == p.offset
  <2>1. o \in Nat /\ p.anchor \in Nat /\ (LeftAt(p, f, hi) \/ Emptied(p, f, hi))
    BY <1>4 DEF ReadUpTo
  <2>2. o = 0 \/ p.anchor < n + 1
    <3>1. CASE LeftAt(p, f, hi) /\ o # 0
      <4>1. o <= n + 1 - u /\ p.anchor = u + o - 1 /\ u \in Nat
        BY <1>2, <3>1 DEF LeftAt, Size
      <4> HIDE DEF o, u, p
      <4> QED BY <2>1, <4>1
    <3>2. CASE Emptied(p, f, hi) /\ o # 0
      <4>1. p.anchor < f.first BY <3>2 DEF Emptied
      <4> HIDE DEF o, p
      <4> QED BY <1>2, <2>1, <4>1
    <3> QED BY <2>1, <3>1, <3>2
  <2>3. Emptied(p, g, hi) BY <1>1, <1>2, <2>2 DEF Emptied
  <2> QED BY <1>1, <1>4, <2>1, <2>3 DEF ReadUpTo
<1> QED BY <1>1, <1>3, <1>4 DEF g

\* What a step of the log may do: no record comes back, and no cursor becomes untrue.
DiskGoesOn ==
    /\ FilesInOrder' /\ written <= written' /\ rotations <= rotations'
    /\ \A k \in OnDisk' : k <= written => k \in OnDisk
    /\ \A c : \A hi \in 0..written : CursorTrue(c, hi) =>
          /\ \A id \in c.known : id \in 1..rotations' + 1
          /\ \A i \in 1..Len(files') : ReadUpTo(c, files'[i], hi)

LEMMA LastFileChanges ==
  ASSUME FilesInOrder, NEW g \in LogFiles, g.id = files[Last].id,
         files[Last].first <= g.first, g.first <= g.last + 1, g.last = written',
         written' \in Nat, written <= written',
         rotations' \in 0..MaxRotations, rotations <= rotations',
         files' = [files EXCEPT ![Last] = g],
         \A k \in g.first..g.last : k <= written => k \in files[Last].first..files[Last].last,
         \A c : \A hi \in 0..written : ReadUpTo(c, files[Last], hi) => ReadUpTo(c, g, hi)
  PROVE  DiskGoesOn
<1> DEFINE n == Last
<1>1. n \in Nat \ {0} /\ \A i \in 1..n : files[i] \in LogFiles /\ files[i].first <= files[i].last + 1
  BY FilesOf
<1>2. n = Len(files) /\ n \in 1..n /\ files \in Seq(LogFiles) BY <1>1 DEF FilesInOrder, Last
<1>3. files' \in Seq(LogFiles) /\ Len(files') = n
      /\ \A i \in 1..n : files'[i] = IF i = n THEN g ELSE files[i]
  BY <1>2, ExceptSeq DEF Last
<1> HIDE DEF n
<1>4. /\ \A i \in 1..n : files[i].id <= rotations + 1
      /\ \A i, j \in 1..n : i < j => files[i].id < files[j].id /\ files[i].last < files[j].first
  BY DEF FilesInOrder, n
<1>5. g.id = files[n].id /\ files[n].first <= g.first BY DEF n
<1>6. rotations \in Nat /\ rotations' \in Nat /\ MaxRotations \in Nat
  BY LogAssumption DEF FilesInOrder
<1>7. \A i \in 1..n : files[i].id \in Nat /\ files[i].first \in Nat /\ files[i].last \in Nat
  BY <1>1, <1>6, LogFileFields DEF FileIds
<1>8. g.first \in Nat BY LogFileFields
<1>9. FilesInOrder'
  <2>1. \A i \in 1..n : files'[i].id = files[i].id /\ files[i].first <= files'[i].first
    BY <1>3, <1>5, <1>7
  <2>2. \A i \in 1..n : files'[i].id <= rotations' + 1
    <3>1. ASSUME NEW i \in 1..n PROVE files'[i].id <= rotations' + 1
      <4>1. files'[i].id = files[i].id /\ files[i].id <= rotations + 1 /\ files[i].id \in Nat
        BY <1>4, <1>7, <2>1
      <4> QED BY <1>6, <4>1
    <3> QED BY <3>1
  <2>3. ASSUME NEW i \in 1..n, NEW j \in 1..n, i < j
        PROVE  files'[i].id < files'[j].id /\ files'[i].last < files'[j].first
    <3>1. i # n BY <1>1, <2>3
    <3>2. files'[i] = files[i] BY <1>3, <3>1
    <3>3. files[i].last < files[j].first /\ files[i].id < files[j].id BY <1>4, <2>3
    <3>4. files'[j].id = files[j].id /\ files[j].first <= files'[j].first /\ files'[j].first \in Nat
      BY <1>3, <1>7, <1>8, <2>1
    <3>5. files[i].last < files'[j].first BY <1>7, <3>3, <3>4
    <3> QED BY <3>2, <3>3, <3>4, <3>5
  <2>4. \A i \in 1..n : files'[i].first <= files'[i].last + 1 BY <1>1, <1>3
  <2>5. files'[n].last = written' BY <1>1, <1>3
  <2> QED BY <1>1, <1>3, <2>2, <2>3, <2>4, <2>5 DEF FilesInOrder, Last
<1>10. ASSUME NEW k \in OnDisk', k <= written PROVE k \in OnDisk
  <2>1. PICK i \in 1..n : k \in files'[i].first..files'[i].last BY <1>3 DEF OnDisk, Last
  <2>2. CASE i # n BY <1>3, <2>1, <2>2, OnDiskIs DEF n
  <2>3. CASE i = n
    <3>1. k \in g.first..g.last BY <1>3, <2>1, <2>3
    <3>2. k \in files[n].first..files[n].last BY <1>10, <3>1 DEF n
    <3> QED BY <1>1, <3>2, OnDiskIs DEF n
  <2> QED BY <2>2, <2>3
<1>11. ASSUME NEW c, NEW hi \in 0..written, CursorTrue(c, hi)
       PROVE  /\ \A id \in c.known : id \in 1..rotations' + 1
              /\ \A i \in 1..Len(files') : ReadUpTo(c, files'[i], hi)
  <2>1. \A i \in 1..n : ReadUpTo(c, files[i], hi) BY <1>11 DEF CursorTrue, n
  <2>2. ReadUpTo(c, g, hi) BY <1>1, <2>1 DEF n
  <2>3. \A i \in 1..n : ReadUpTo(c, files'[i], hi) BY <1>3, <2>1, <2>2
  <2>4. ASSUME NEW id \in c.known PROVE id \in 1..rotations' + 1
    BY <1>6, <1>11, <2>4 DEF CursorTrue
  <2> QED BY <1>3, <2>3, <2>4
<1> QED BY <1>9, <1>10, <1>11 DEF DiskGoesOn

LEMMA LogGoesOn ==
  ASSUME FilesInOrder, WriteRecord \/ TruncateLog \/ RotateLog
  PROVE  DiskGoesOn
<1> DEFINE f == files[Last]
<1>1. /\ f \in LogFiles /\ f.first <= f.last + 1 /\ f.last = written /\ written \in Nat
      /\ rotations \in 0..MaxRotations /\ MaxRotations \in Nat /\ Last \in Nat \ {0}
      /\ files \in Seq(LogFiles) /\ Len(files) = Last /\ Last \in 1..Last
  BY FilesOf, LogAssumption DEF FilesInOrder, Last
<1>2. f.first \in Nat BY <1>1, LogFileFields
<1>3. CASE WriteRecord
  <2> DEFINE g == [f EXCEPT !.last = written + 1]
  <2>1. written' = written + 1 /\ files' = [files EXCEPT ![Last] = g] /\ rotations' = rotations
    BY <1>3 DEF WriteRecord
  <2>2. ASSUME NEW c, NEW hi \in 0..written, ReadUpTo(c, f, hi) PROVE ReadUpTo(c, g, hi)
    BY <1>1, <2>2, GrownFile
  <2>3. g \in LogFiles /\ g.id = f.id /\ g.first = f.first /\ g.last = written + 1
    BY <1>1 DEF LogFiles
  <2> HIDE DEF g
  <2>4. g.first <= g.last + 1 /\ written <= written' /\ written' \in Nat BY <1>1, <1>2, <2>1, <2>3
  <2>5. \A k \in g.first..g.last : k <= written => k \in f.first..f.last BY <1>1, <1>2, <2>3
  <2>6. f.first <= g.first /\ rotations' \in 0..MaxRotations /\ rotations <= rotations'
        /\ g.last = written'
    BY <1>1, <1>2, <2>1, <2>3
  <2> QED BY <2>1, <2>2, <2>3, <2>4, <2>5, <2>6, LastFileChanges
<1>4. CASE TruncateLog
  <2> DEFINE g == [f EXCEPT !.first = written + 1, !.last = written]
  <2>1. written' = written /\ files' = [files EXCEPT ![Last] = g] /\ rotations' = rotations + 1
        /\ rotations < MaxRotations
    <3>1. files' = [files EXCEPT ![Last].first = written + 1, ![Last].last = written]
      BY <1>4 DEF TruncateLog
    <3>2. files' = [files EXCEPT ![Last] = g] BY <1>1, <3>1 DEF LogFiles
    <3> QED BY <1>4, <3>2 DEF TruncateLog, disk
  <2>2. ASSUME NEW c, NEW hi \in 0..written, ReadUpTo(c, f, hi) PROVE ReadUpTo(c, g, hi)
    BY <1>1, <2>2, EmptiedFile
  <2>3. g \in LogFiles /\ g.id = f.id /\ g.first = written + 1 /\ g.last = written
    <3>1. written + 1 \in Nat \ {0} BY <1>1
    <3> QED BY <1>1, <3>1 DEF LogFiles
  <2> HIDE DEF g
  <2>4. g.first <= g.last + 1 /\ written <= written' /\ written' \in Nat BY <1>1, <2>1, <2>3
  <2>5. \A k \in g.first..g.last : k <= written => k \in f.first..f.last BY <1>1, <2>3
  <2>6. f.first <= g.first /\ rotations' \in 0..MaxRotations /\ rotations <= rotations'
        /\ g.last = written'
    BY <1>1, <1>2, <2>1, <2>3
  <2> QED BY <2>1, <2>2, <2>3, <2>4, <2>5, <2>6, LastFileChanges
<1>5. CASE RotateLog
  <2> DEFINE kept == IF Last = MaxFiles THEN Tail(files) ELSE files
             new == [id |-> rotations + 2, first |-> written + 1, last |-> written]
             m == Len(kept)
  <2>1. /\ rotations' = rotations + 1 /\ rotations < MaxRotations /\ written' = written
        /\ files' = Append(kept, new)
    BY <1>5 DEF RotateLog
  <2>2. new \in LogFiles /\ new.id = rotations + 2 /\ new.first = written + 1 /\ new.last = written
    BY <1>1, <2>1 DEF LogFiles, FileIds
  <2>3. PICK d \in {0, 1} : /\ kept \in Seq(LogFiles) /\ m = Last - d
                            /\ \A i \in 1..m : kept[i] = files[i + d]
    <3>1. CASE Last = MaxFiles
      <4>1. files # <<>> BY <1>1
      <4>2. Tail(files) \in Seq(LogFiles) /\ Len(Tail(files)) = Last - 1
            /\ \A i \in 1..Len(Tail(files)) : Tail(files)[i] = files[i + 1]
        BY <1>1, <4>1, HeadTailProperties
      <4> QED BY <3>1, <4>2
    <3>2. CASE Last # MaxFiles BY <1>1, <3>2
    <3> QED BY <3>1, <3>2
  <2> HIDE DEF kept, new
  <2>4. /\ files' \in Seq(LogFiles) /\ Len(files') = m + 1 /\ files'[m + 1] = new
        /\ \A i \in 1..m : files'[i] = kept[i]
    BY <2>1, <2>2, <2>3, AppendProperties
  <2> HIDE DEF m
  <2>5. m \in Nat /\ \A i \in 1..m : i + d \in 1..Last BY <1>1, <2>3
  <2>6. \A i \in 1..m : files'[i] = files[i + d] BY <2>3, <2>4
  <2>7. ASSUME NEW i \in 1..m
        PROVE  /\ files'[i].id <= rotations + 1 /\ files'[i].id \in Nat
               /\ files'[i].last <= written /\ files'[i].last \in Nat
               /\ files'[i].first <= files'[i].last + 1
    <3>1. i + d \in 1..Last /\ files'[i] = files[i + d] BY <2>5, <2>6
    <3>2. files[i + d] \in LogFiles /\ files[i + d].last <= written
          /\ files[i + d].first <= files[i + d].last + 1 /\ files[i + d].id <= rotations + 1
      BY <3>1, FilesOf DEF FilesInOrder
    <3>3. files[i + d].id \in Nat /\ files[i + d].last \in Nat BY <1>1, <3>2, LogFileFields DEF FileIds
    <3> QED BY <3>1, <3>2, <3>3
  <2>8. FilesInOrder'
    <3>1. \A i \in 1..m + 1 : files'[i].first <= files'[i].last + 1 /\ files'[i].id <= rotations' + 1
      <4>1. ASSUME NEW i \in 1..m
            PROVE files'[i].first <= files'[i].last + 1 /\ files'[i].id <= rotations' + 1
        <5>1. /\ files'[i].id <= rotations + 1 /\ files'[i].id \in Nat
              /\ files'[i].first <= files'[i].last + 1
          BY <2>7
        <5> DEFINE x == files'[i].id
        <5>2. x \in Nat /\ x <= rotations + 1 BY <5>1
        <5>3. rotations' = rotations + 1 BY <2>1
        <5>4. rotations \in Nat BY <1>1
        <5> HIDE DEF x
        <5>5. x <= rotations' + 1 BY <5>2, <5>3, <5>4
        <5> QED BY <5>1, <5>5 DEF x
      <4>2. new.first <= new.last + 1 /\ new.id <= rotations' + 1 BY <1>1, <2>1, <2>2
      <4>3. \A i \in 1..m + 1 : i = m + 1 \/ i \in 1..m BY <2>5
      <4> QED BY <2>4, <4>1, <4>2, <4>3
    <3>2. ASSUME NEW i \in 1..m + 1, NEW j \in 1..m + 1, i < j
          PROVE  files'[i].id < files'[j].id /\ files'[i].last < files'[j].first
      <4>1. i \in 1..m BY <2>5, <3>2
      <4>2. CASE j = m + 1
        <5>1. files'[j].id = rotations + 2 /\ files'[j].first = written + 1 BY <2>2, <2>4, <4>2
        <5> QED BY <1>1, <2>7, <4>1, <5>1
      <4>3. CASE j # m + 1
        <5>1. j \in 1..m /\ i + d < j + d BY <2>5, <3>2, <4>3
        <5>2. files'[i] = files[i + d] /\ files'[j] = files[j + d] /\ i + d \in 1..Last /\ j + d \in 1..Last
          BY <2>5, <2>6, <4>1, <5>1
        <5> QED BY <5>1, <5>2 DEF FilesInOrder
      <4> QED BY <4>2, <4>3
    <3>3. Len(files') >= 1 /\ files'[Len(files')].last = written' BY <2>1, <2>2, <2>4, <2>5
    <3>4. written' \in Nat /\ rotations' \in 0..MaxRotations BY <1>1, <2>1
    <3> QED BY <2>4, <3>1, <3>2, <3>3, <3>4 DEF FilesInOrder, Last
  <2>9. ASSUME NEW k \in OnDisk' PROVE k \in OnDisk
    <3>1. PICK i \in 1..m + 1 : k \in files'[i].first..files'[i].last BY <2>4 DEF OnDisk, Last
    <3>2. CASE i \in 1..m
      <4>1. k \in files[i + d].first..files[i + d].last /\ i + d \in 1..Last BY <2>5, <2>6, <3>1, <3>2
      <4> QED BY <4>1, OnDiskIs
    <3>3. CASE i = m + 1
      <4>1. k \in written + 1..written BY <2>2, <2>4, <3>1, <3>3
      <4> QED BY <1>1, <4>1
    <3> QED BY <2>5, <3>2, <3>3
  <2>10. ASSUME NEW c, NEW hi \in 0..written, CursorTrue(c, hi)
         PROVE  /\ \A id \in c.known : id \in 1..rotations' + 1
                /\ \A i \in 1..Len(files') : ReadUpTo(c, files'[i], hi)
    <3>1. \A id \in c.known : id \in 1..rotations + 1 BY <2>10 DEF CursorTrue
    <3>2. \A i \in 1..Last : ReadUpTo(c, files[i], hi) BY <2>10 DEF CursorTrue
    <3>3. new.id \notin c.known
      <4>1. rotations + 2 \notin 1..rotations + 1 BY <1>1
      <4> QED BY <2>2, <3>1, <4>1
    <3>4. hi < new.first BY <1>1, <2>2
    <3>5. ReadUpTo(c, new, hi) BY <3>3, <3>4 DEF ReadUpTo
    <3>6. \A i \in 1..m : ReadUpTo(c, files'[i], hi) BY <2>5, <2>6, <3>2
    <3>7. \A i \in 1..m + 1 : i = m + 1 \/ i \in 1..m BY <2>5
    <3>8. \A i \in 1..Len(files') : ReadUpTo(c, files'[i], hi) BY <2>4, <3>5, <3>6, <3>7
    <3>9. ASSUME NEW id \in c.known PROVE id \in 1..rotations' + 1
      BY <1>1, <2>1, <3>1, <3>9
    <3> QED BY <3>1, <3>8, <3>9
  <2>11. written <= written' /\ rotations <= rotations' BY <1>1, <2>1
  <2> QED BY <2>8, <2>9, <2>10, <2>11 DEF DiskGoesOn
<1> QED BY <1>3, <1>4, <1>5-----------------------------------------------------------------------------
(* The rows. *)

LEMMA NumbersOf ==
  ASSUME NEW t \in Seq(LogRows)
  PROVE  /\ Numbers(t) \in Seq(Nat) /\ Len(Numbers(t)) = Len(t) /\ Len(t) \in Nat
         /\ \A i \in 1..Len(t) : t[i] \in LogRows /\ Numbers(t)[i] = t[i].record /\ t[i].record \in Nat
<1>1. Len(t) \in Nat /\ \A i \in 1..Len(t) : t[i] \in LogRows BY LenProperties
<1>2. \A i \in 1..Len(t) : t[i].record \in Nat BY <1>1 DEF LogRows
<1>3. Numbers(t) \in [1..Len(t) -> Nat] BY <1>2 DEF Numbers
<1>4. Numbers(t) \in Seq(Nat) /\ Len(Numbers(t)) = Len(t) BY <1>1, <1>3
<1> QED BY <1>1, <1>2, <1>4 DEF Numbers

\* A stretch of rows, in their own terms.
LEMMA StretchOf ==
  ASSUME NEW t \in Seq(LogRows), NEW hi
  PROVE  Stretch(Numbers(t), hi) <=>
           /\ \A i \in 1..Len(t) : t[i].record <= hi
           /\ \A i, j \in 1..Len(t) : i < j => t[i].record < t[j].record
           /\ \A k \in OnDisk : Len(t) > 0 /\ t[1].record <= k /\ k <= hi
                 => \E i \in 1..Len(t) : t[i].record = k
<1>1. /\ Numbers(t) \in Seq(Nat) /\ Len(Numbers(t)) = Len(t) /\ Len(t) \in Nat
      /\ \A i \in 1..Len(t) : Numbers(t)[i] = t[i].record
  BY NumbersOf
<1>2. Len(t) > 0 => Numbers(t)[1] = t[1].record
  <2>1. Len(t) > 0 => 1 \in 1..Len(t) BY <1>1
  <2> QED BY <1>1, <2>1
<1> DEFINE n == Numbers(t)
<1>3. /\ n \in Seq(Nat) /\ Len(n) = Len(t) /\ \A i \in 1..Len(t) : n[i] = t[i].record
      /\ Len(t) > 0 => n[1] = t[1].record
  BY <1>1, <1>2
<1> HIDE DEF n
<1>4. (\A i \in 1..Len(n) : n[i] <= hi) <=> \A i \in 1..Len(t) : t[i].record <= hi BY <1>3
<1>5. (\A i, j \in 1..Len(n) : i < j => n[i] < n[j])
        <=> \A i, j \in 1..Len(t) : i < j => t[i].record < t[j].record
  BY <1>3
<1>6. (\A k \in OnDisk : Len(n) > 0 /\ n[1] <= k /\ k <= hi => \E i \in 1..Len(n) : n[i] = k)
        <=> (\A k \in OnDisk : Len(t) > 0 /\ t[1].record <= k /\ k <= hi
                => \E i \in 1..Len(t) : t[i].record = k)
  <2>1. ASSUME NEW k
        PROVE  (\E i \in 1..Len(n) : n[i] = k) <=> \E i \in 1..Len(t) : t[i].record = k
    BY <1>3
  <2>2. ASSUME NEW k
        PROVE  Len(n) > 0 /\ n[1] <= k <=> Len(t) > 0 /\ t[1].record <= k
    BY <1>3
  <2> QED BY <2>1, <2>2
<1> QED BY <1>3, <1>4, <1>5, <1>6 DEF n, Stretch

LEMMA SuffixStretch ==
  ASSUME NEW t \in Seq(LogRows), NEW hi \in Nat, Stretch(Numbers(t), hi), FilesInOrder
  PROVE  /\ LastRows(t) \in Seq(LogRows) /\ Stretch(Numbers(LastRows(t)), hi)
         /\ \A i \in 1..Len(LastRows(t)) : \E j \in 1..Len(t) : LastRows(t)[i] = t[j]
<1>1. CASE Len(t) <= MaxRows BY <1>1 DEF LastRows
<1>2. CASE ~(Len(t) <= MaxRows)
  <2> DEFINE n == Len(t)
             d == n - MaxRows
             s == LastRows(t)
  <2>1. /\ n \in Nat /\ \A i \in 1..n : t[i] \in LogRows /\ t[i].record \in Nat BY NumbersOf
  <2>2. d \in Nat /\ d + 1 <= n BY <1>2, <2>1, LogAssumption
  <2>3. s = SubSeq(t, d + 1, n) BY <1>2 DEF LastRows
  <2> HIDE DEF s, d, n
  <2>4. s \in Seq(LogRows) /\ Len(s) = n - d /\ \A i \in 1..(n - d) : s[i] = t[d + i]
    <3>1. \A i \in d + 1 .. n : t[i] \in LogRows BY <2>1, <2>2
    <3>2. d + 1 \in Int /\ n \in Int BY <2>1, <2>2
    <3>3. /\ SubSeq(t, d + 1, n) \in Seq(LogRows)
          /\ Len(SubSeq(t, d + 1, n)) = IF d + 1 <= n THEN n - (d + 1) + 1 ELSE 0
          /\ \A i \in 1 .. n - (d + 1) + 1 : SubSeq(t, d + 1, n)[i] = t[(d + 1) + i - 1]
      BY <3>1, <3>2, SubSeqProperties
    <3>4. n - (d + 1) + 1 = n - d /\ \A i \in 1..(n - d) : (d + 1) + i - 1 = d + i
      <4>1. \A x, y \in Int : /\ y - (x + 1) + 1 = y - x
                              /\ \A i \in 1..(y - x) : (x + 1) + i - 1 = x + i
        OBVIOUS
      <4>2. d \in Int /\ n \in Int BY <2>1, <2>2
      <4> QED BY <4>1, <4>2
    <3> QED BY <2>2, <2>3, <3>3, <3>4
  <2>5. \A i \in 1..Len(s) : d + i \in 1..n /\ s[i] = t[d + i] BY <2>1, <2>2, <2>4
  <2>6. /\ \A i \in 1..n : t[i].record <= hi
        /\ \A i, j \in 1..n : i < j => t[i].record < t[j].record
        /\ \A k \in OnDisk : n > 0 /\ t[1].record <= k /\ k <= hi
              => \E i \in 1..n : t[i].record = k
    BY StretchOf DEF n
  <2>7. \A i, j \in 1..Len(s) : i < j => s[i].record < s[j].record
    <3>1. ASSUME NEW i \in 1..Len(s), NEW j \in 1..Len(s), i < j PROVE s[i].record < s[j].record
      <4>1. d + i < d + j BY <2>2, <3>1
      <4> QED BY <2>5, <2>6, <4>1
    <3> QED BY <3>1
  <2>8. ASSUME NEW k \in OnDisk, Len(s) > 0, s[1].record <= k, k <= hi
        PROVE  \E i \in 1..Len(s) : s[i].record = k
    <3>1. 1 \in 1..Len(s) /\ d + 1 \in 1..n /\ 1 \in 1..n /\ n > 0 BY <2>1, <2>2, <2>4, <2>8
    <3>2. s[1] = t[d + 1] /\ t[1].record \in Nat /\ t[d + 1].record \in Nat /\ k \in Nat
      BY <2>1, <2>5, <3>1, DiskFinite
    <3>3. t[1].record <= t[d + 1].record
      <4>1. CASE d = 0 BY <2>1, <3>1, <4>1
      <4>2. CASE d # 0
        <5>1. 1 < d + 1 BY <2>2, <4>2
        <5>2. t[1].record < t[d + 1].record BY <2>6, <3>1, <5>1
        <5> QED BY <3>2, <5>2
      <4> QED BY <4>1, <4>2
    <3>4. t[1].record <= k BY <2>8, <3>2, <3>3
    <3>5. PICK i \in 1..n : t[i].record = k BY <2>6, <2>8, <3>1, <3>4
    <3>6. ~(i < d + 1)
      <4>1. ASSUME i < d + 1 PROVE FALSE
        <5>1. t[i].record < t[d + 1].record BY <2>6, <3>1, <4>1
        <5> QED BY <2>8, <3>2, <3>5, <5>1
      <4> QED BY <4>1
    <3>7. i - d \in 1..Len(s) /\ d + (i - d) = i BY <2>1, <2>2, <2>4, <3>6
    <3>8. s[i - d].record = k BY <2>5, <3>5, <3>7
    <3> QED BY <3>7, <3>8
  <2>9. \A i \in 1..Len(s) : s[i].record <= hi BY <2>5, <2>6
  <2>10. Stretch(Numbers(s), hi) BY <2>4, <2>7, <2>8, <2>9, StretchOf
  <2>11. \A i \in 1..Len(s) : \E j \in 1..Len(t) : s[i] = t[j] BY <2>5 DEF n
  <2> QED BY <2>4, <2>10, <2>11 DEF s
<1> QED BY <1>1, <1>2

LEMMA JoinedStretch ==
  ASSUME NEW t \in Seq(LogRows), NEW u \in Seq(LogRows), NEW hi \in Nat, NEW to \in Nat, hi <= to,
         Stretch(Numbers(t), hi), Stretch(Numbers(u), to), FilesInOrder,
         \A i \in 1..Len(u) : u[i].record > hi,
         \A k \in OnDisk : hi < k /\ k <= to => \E i \in 1..Len(u) : u[i].record = k
  PROVE  t \o u \in Seq(LogRows) /\ Stretch(Numbers(t \o u), to)
         /\ \A i \in 1..Len(t \o u) :
               \/ \E j \in 1..Len(t) : (t \o u)[i] = t[j]
               \/ \E j \in 1..Len(u) : (t \o u)[i] = u[j]
<1> DEFINE s == t \o u
           m == Len(t)
           n == Len(u)
<1>1. /\ m \in Nat /\ \A i \in 1..m : t[i].record \in Nat
      /\ n \in Nat /\ \A i \in 1..n : u[i].record \in Nat
  BY NumbersOf
<1>2. /\ s \in Seq(LogRows) /\ Len(s) = m + n
      /\ \A i \in 1..m + n : s[i] = IF i <= m THEN t[i] ELSE u[i - m]
  BY ConcatProperties
<1>3. /\ \A i \in 1..m : t[i].record <= hi
      /\ \A i, j \in 1..m : i < j => t[i].record < t[j].record
      /\ \A k \in OnDisk : m > 0 /\ t[1].record <= k /\ k <= hi => \E i \in 1..m : t[i].record = k
  BY StretchOf
<1>4. /\ \A i \in 1..n : u[i].record <= to /\ u[i].record > hi
      /\ \A i, j \in 1..n : i < j => u[i].record < u[j].record
  BY StretchOf
<1>5. \A k \in OnDisk : hi < k /\ k <= to => \E i \in 1..n : u[i].record = k OBVIOUS
<1> HIDE DEF s, m, n
<1>6. \A i \in 1..m : i \in 1..m + n /\ s[i] = t[i] BY <1>1, <1>2
<1>7. \A i \in 1..n : m + i \in 1..m + n /\ s[m + i] = u[i]
  <2>1. ASSUME NEW i \in 1..n PROVE m + i \in 1..m + n /\ s[m + i] = u[i]
    <3>1. m + i \in 1..m + n /\ ~(m + i <= m) /\ (m + i) - m = i BY <1>1
    <3> QED BY <1>2, <3>1
  <2> QED BY <2>1
<1>8. \A i \in 1..m + n : i \in 1..m \/ (i - m \in 1..n /\ m + (i - m) = i) BY <1>1
<1>9. \A i \in 1..m + n : s[i].record \in Nat /\ s[i].record <= to
                          /\ (i \in 1..m <=> s[i].record <= hi)
  <2>1. ASSUME NEW i \in 1..m
        PROVE  s[i].record \in Nat /\ s[i].record <= to /\ s[i].record <= hi
    BY <1>1, <1>3, <1>6
  <2>2. ASSUME NEW i \in 1..n
        PROVE  s[m + i].record \in Nat /\ s[m + i].record <= to /\ ~(s[m + i].record <= hi)
               /\ m + i \notin 1..m
    <3>1. s[m + i] = u[i] /\ u[i].record \in Nat /\ u[i].record <= to /\ u[i].record > hi
      BY <1>1, <1>4, <1>7
    <3>2. m + i \notin 1..m BY <1>1
    <3>3. ~(u[i].record <= hi) BY <3>1
    <3> QED BY <3>1, <3>2, <3>3
  <2> QED BY <1>8, <2>1, <2>2
<1>10. ASSUME NEW i \in 1..m + n, NEW j \in 1..m + n, i < j PROVE s[i].record < s[j].record
  <2>1. CASE i \in 1..m /\ j \in 1..m BY <1>3, <1>6, <1>10, <2>1
  <2>2. CASE i \in 1..m /\ j \notin 1..m BY <1>9, <2>2
  <2>3. CASE i \notin 1..m
    <3>1. i - m \in 1..n /\ j - m \in 1..n /\ i - m < j - m /\ m + (i - m) = i /\ m + (j - m) = j
      BY <1>1, <1>10, <2>3
    <3>2. s[i] = u[i - m] /\ s[j] = u[j - m] BY <1>7, <3>1
    <3> QED BY <1>4, <3>1, <3>2
  <2> QED BY <2>1, <2>2, <2>3
<1>11. ASSUME NEW k \in OnDisk, m + n > 0, s[1].record <= k, k <= to
       PROVE  \E i \in 1..m + n : s[i].record = k
  <2>1. k \in Nat /\ 1 \in 1..m + n BY <1>1, <1>11, DiskFinite
  <2>2. CASE hi < k
    <3>1. PICK i \in 1..n : u[i].record = k BY <1>5, <1>11, <2>2
    <3> QED BY <1>7, <3>1
  <2>3. CASE ~(hi < k)
    <3>1. s[1].record <= hi BY <1>9, <1>11, <2>1, <2>3
    <3>2. 1 \in 1..m BY <1>9, <2>1, <3>1
    <3>3. m > 0 /\ t[1].record <= k /\ k <= hi BY <1>1, <1>6, <1>11, <2>1, <2>3, <3>2
    <3>4. PICK i \in 1..m : t[i].record = k BY <1>3, <3>3
    <3> QED BY <1>6, <3>4
  <2> QED BY <2>2, <2>3
<1>12. Stretch(Numbers(s), to)
  <2>1. /\ \A i \in 1..Len(s) : s[i].record <= to
        /\ \A i, j \in 1..Len(s) : i < j => s[i].record < s[j].record
    BY <1>2, <1>9, <1>10
  <2>2. \A k \in OnDisk : Len(s) > 0 /\ s[1].record <= k /\ k <= to
           => \E i \in 1..Len(s) : s[i].record = k
    BY <1>2, <1>11
  <2> QED BY <1>2, <2>1, <2>2, StretchOf
<1>13. \A i \in 1..Len(s) : (\E j \in 1..m : s[i] = t[j]) \/ (\E j \in 1..n : s[i] = u[j])
  BY <1>2, <1>6, <1>7, <1>8
<1> QED BY <1>2, <1>12, <1>13 DEF s, m, n-----------------------------------------------------------------------------
(* The steps. *)

LEMMA AnswerStays ==
  ASSUME UNCHANGED <<disk, query, cursor>>, NEW a, NEW hi, NEW to
  PROVE  AnswerTrue(a, hi, to)' <=> AnswerTrue(a, hi, to)
BY DEF AnswerTrue, CursorTrue, Stretch, OnDisk, Last, disk

LEMMA ShownStays ==
  ASSUME NEW hi \in 0..written, ShownUpTo(hi), UNCHANGED <<disk, query, cursor, rows>>,
         requests' \subseteq requests
  PROVE  ShownUpTo(hi)'
<1>1. OnDisk' = OnDisk /\ written' = written BY DEF OnDisk, Last, disk
<1>2. Numbers(rows)' = Numbers(rows) BY DEF Numbers
<1>3. Stretch(Numbers(rows), hi)' BY <1>1, <1>2 DEF ShownUpTo, Stretch
<1>4. (cursor # NoCursor => CursorTrue(cursor, hi))' BY DEF ShownUpTo, CursorTrue, Last, disk
<1>5. ASSUME NEW s \in requests', s.current, s.answered
      PROVE  \E to \in 0..written' : AnswerTrue(s.answer, hi, to)'
  <2>1. PICK to \in 0..written : AnswerTrue(s.answer, hi, to) BY <1>5 DEF ShownUpTo
  <2>2. PICK a : a = s.answer OBVIOUS
  <2>3. AnswerTrue(a, hi, to)' BY <2>1, <2>2, AnswerStays
  <2> QED BY <1>1, <2>2, <2>3
<1> QED BY <1>3, <1>4, <1>5 DEF ShownUpTo

LEMMA FilesStay == ASSUME FilesInOrder, UNCHANGED disk PROVE FilesInOrder'
BY DEF FilesInOrder, Last, disk

LEMMA DiskKeeps ==
  ASSUME LogInv, WriteRecord \/ TruncateLog \/ RotateLog
  PROVE  LogInv'
<1>1. DiskGoesOn BY LogGoesOn DEF LogInv
<1>2. UNCHANGED <<requests, form, query, cursor, pollTimer, rows>>
  BY DEF WriteRecord, TruncateLog, RotateLog, page_
<1>3. written \in Nat /\ written' \in Nat /\ written <= written'
  BY <1>1 DEF LogInv, FilesInOrder, DiskGoesOn
<1>4. \A n \in 0..written : n \in 0..written' BY <1>3
<1>5. PICK hi \in 0..written : ShownUpTo(hi) BY DEF LogInv
<1>6. ASSUME NEW k \in OnDisk', NEW n \in 0..written, k <= n PROVE k \in OnDisk
  <2>1. PICK i \in 1..Last' : k \in files'[i].first..files'[i].last BY DEF OnDisk
  <2>2. files'[i] \in LogFiles BY <1>1, LenProperties DEF DiskGoesOn, FilesInOrder, Last
  <2>3. k \in Nat BY <2>1, <2>2, LogFileFields
  <2>4. k <= written BY <1>3, <1>6, <2>3
  <2> QED BY <1>1, <2>4 DEF DiskGoesOn
<1>7. ASSUME NEW s, NEW n \in 0..written, Stretch(s, n) PROVE Stretch(s, n)'
  BY <1>6, <1>7 DEF Stretch
<1>8. ASSUME NEW c, NEW n \in 0..written, CursorTrue(c, n) PROVE CursorTrue(c, n)'
  BY <1>1, <1>8 DEF DiskGoesOn, CursorTrue, Last
<1>9. ASSUME NEW a, NEW to \in 0..written, AnswerTrue(a, hi, to) PROVE AnswerTrue(a, hi, to)'
  <2>1. a.cursor # NoCursor => a.cursor.query = query' /\ CursorTrue(a.cursor, to)'
    BY <1>2, <1>8, <1>9 DEF AnswerTrue
  <2>2. Stretch(a.entries, to)' BY <1>7, <1>9 DEF AnswerTrue
  <2>3. \A k \in OnDisk' : k <= to => k \in OnDisk BY <1>6
  <2> QED BY <1>2, <1>9, <2>1, <2>2, <2>3 DEF AnswerTrue
<1>10. ShownUpTo(hi)'
  <2>1. Stretch(Numbers(rows), hi)'
    <3>1. PICK s : s = Numbers(rows) OBVIOUS
    <3>2. Stretch(s, hi) BY <1>5, <3>1 DEF ShownUpTo
    <3>3. Numbers(rows)' = s BY <1>2, <3>1 DEF Numbers
    <3>4. Stretch(s, hi)' BY <1>7, <3>2
    <3> QED BY <3>3, <3>4 DEF Stretch
  <2>2. (cursor # NoCursor => CursorTrue(cursor, hi))'
    <3>1. PICK c : c = cursor OBVIOUS
    <3>2. c # NoCursor => CursorTrue(c, hi)' BY <1>5, <1>8, <3>1 DEF ShownUpTo
    <3>3. cursor' = c BY <1>2, <3>1
    <3> QED BY <3>2, <3>3 DEF CursorTrue
  <2>3. ASSUME NEW r \in requests', r.current, r.answered
        PROVE  \E to \in 0..written' : AnswerTrue(r.answer, hi, to)'
    <3>1. PICK to \in 0..written : AnswerTrue(r.answer, hi, to) BY <1>2, <1>5, <2>3 DEF ShownUpTo
    <3>2. PICK a : a = r.answer OBVIOUS
    <3>3. AnswerTrue(a, hi, to)' BY <1>9, <3>1, <3>2
    <3> QED BY <1>4, <3>2, <3>3
  <2> QED BY <2>1, <2>2, <2>3 DEF ShownUpTo
<1>11. OnePoll' /\ RowsOfQuery' BY <1>2 DEF LogInv, OnePoll, RowsOfQuery
<1> QED BY <1>1, <1>4, <1>10, <1>11 DEF LogInv, DiskGoesOn
\* The follower stops, or starts anew: nothing that was asked before counts.
LEMMA NothingCounts == \A r \in Stopped : ~r.current
BY DEF Stopped, Outdated, Poll

LEMMA PageMoves ==
  ASSUME LogInv, UNCHANGED disk, rows' = rows \/ rows' = <<>>,
         cursor' \in {NoCursor, cursor}, \A r \in requests' : ~(r.current /\ r.answered)
  PROVE  FilesInOrder' /\ \E hi \in 0..written' : ShownUpTo(hi)'
<1>1. PICK hi \in 0..written : ShownUpTo(hi) BY DEF LogInv
<1>2. FilesInOrder' /\ written' = written BY FilesStay DEF LogInv, disk
<1>3. OnDisk' = OnDisk BY DEF OnDisk, Last, disk
<1>4. Stretch(Numbers(rows), hi)'
  <2>1. CASE rows' = rows
    <3>1. Numbers(rows)' = Numbers(rows) BY <2>1 DEF Numbers
    <3> QED BY <1>1, <1>3, <3>1 DEF ShownUpTo, Stretch
  <2>2. CASE rows' = <<>>
    <3>1. rows' \in Seq(LogRows) /\ Len(rows') = 0 BY <2>2, EmptySeq
    <3>2. Numbers(rows)' \in Seq(Nat) /\ Len(Numbers(rows)') = 0
      <4>1. Numbers(rows)' = [i \in 1..0 |-> rows'[i].record] BY <3>1 DEF Numbers
      <4>2. Numbers(rows)' \in [1..0 -> Nat] BY <4>1
      <4> QED BY <4>2
    <3> QED BY <3>2 DEF Stretch
  <2> QED BY <2>1, <2>2
<1>5. (cursor # NoCursor => CursorTrue(cursor, hi))' BY <1>1 DEF ShownUpTo, CursorTrue, Last, disk
<1>6. ShownUpTo(hi)' BY <1>4, <1>5 DEF ShownUpTo
<1> QED BY <1>2, <1>6

LEMMA StartKeeps ==
  ASSUME LogInv, UNCHANGED disk, rows' = rows \/ rows' = <<>>, NEW q \in Queries, NEW onLive, NEW c,
         StartFollow(q, onLive, c), form' = q, c \in {NoCursor, cursor},
         c # NoCursor => q = form
  PROVE  LogInv'
<1>1. /\ query' = q /\ ~pollTimer' /\ cursor' = c /\ requests' = Stopped \cup {Poll(q, c)}
  BY DEF StartFollow
<1>2. \A r \in requests' : r.current => r = Poll(q, c) BY <1>1, NothingCounts
<1>3. Poll(q, c).current /\ Poll(q, c).query = q /\ Poll(q, c).cursor = c /\ ~Poll(q, c).answered
  BY DEF Poll
<1>4. OnePoll' BY <1>1, <1>2, <1>3 DEF OnePoll
<1>5. RowsOfQuery'
  <2>1. rows' \in Seq(LogRows) BY EmptySeq DEF LogInv, RowsOfQuery
  <2>2. rows' = <<>> => Len(rows') = 0 BY EmptySeq
  <2>3. \A i, j \in 1..Len(rows') : rows'[i].query = rows'[j].query
    BY <2>2 DEF LogInv, RowsOfQuery
  <2>4. cursor' # NoCursor => q = query /\ \A i \in 1..Len(rows') : rows'[i].query = q
    BY <1>1, <2>2 DEF LogInv, RowsOfQuery
  <2> QED BY <1>1, <2>1, <2>3, <2>4 DEF RowsOfQuery, LogInv
<1>6. FilesInOrder' /\ \E hi \in 0..written' : ShownUpTo(hi)'
  BY <1>1, <1>2, <1>3, PageMoves
<1> QED BY <1>4, <1>5, <1>6 DEF LogInv

LEMMA ControlsKeep ==
  ASSUME LogInv,
         \/ RunQuery \/ PauseLive \/ GoLive \/ TimerFires
         \/ \E q \in Queries : ChangeForm(q) \/ ChangeSource(q)
  PROVE  LogInv'
<1>1. form \in Queries BY DEF LogInv, RowsOfQuery
<1>2. CASE RunQuery
  <2>1. PICK onLive \in {FALSE, live} : StartFollow(form, onLive, NoCursor) BY <1>2 DEF RunQuery
  <2>2. form' = form /\ rows' = rows /\ UNCHANGED disk BY <1>2 DEF RunQuery
  <2> QED BY <1>1, <2>1, <2>2, StartKeeps
<1>3. CASE GoLive
  <2>1. StartFollow(form, TRUE, cursor) /\ form' = form /\ rows' = rows /\ UNCHANGED disk
    BY <1>3 DEF GoLive
  <2> QED BY <1>1, <2>1, StartKeeps
<1>4. ASSUME NEW q \in Queries, ChangeSource(q) PROVE LogInv'
  <2>1. StartFollow(q, FALSE, NoCursor) /\ form' = q /\ rows' = <<>> /\ UNCHANGED disk
    BY <1>4 DEF ChangeSource
  <2> QED BY <2>1, StartKeeps
<1>5. CASE PauseLive
  <2>1. /\ ~pollTimer' /\ cursor' = cursor /\ requests' = Stopped
        /\ UNCHANGED <<form, query, rows>> /\ UNCHANGED disk
    BY <1>5 DEF PauseLive, StopFollow
  <2>2. OnePoll' BY <2>1, NothingCounts DEF OnePoll
  <2>3. RowsOfQuery' BY <2>1 DEF LogInv, RowsOfQuery
  <2>4. FilesInOrder' /\ \E hi \in 0..written' : ShownUpTo(hi)' BY <2>1, NothingCounts, PageMoves
  <2> QED BY <2>2, <2>3, <2>4 DEF LogInv
<1>6. ASSUME NEW q \in Queries, ChangeForm(q) PROVE LogInv'
  <2>1. /\ ~pollTimer' /\ cursor' = NoCursor /\ requests' = Stopped /\ form' = q
        /\ UNCHANGED <<query, rows>> /\ UNCHANGED disk
    BY <1>6 DEF ChangeForm, StopFollow
  <2>2. OnePoll' BY <2>1, NothingCounts DEF OnePoll
  <2>3. RowsOfQuery' BY <2>1 DEF LogInv, RowsOfQuery
  <2>4. FilesInOrder' /\ \E hi \in 0..written' : ShownUpTo(hi)' BY <2>1, NothingCounts, PageMoves
  <2> QED BY <2>2, <2>3, <2>4 DEF LogInv
<1>7. CASE TimerFires
  <2> DEFINE p == Poll(query, cursor)
  <2>1. /\ pollTimer /\ ~pollTimer' /\ requests' = requests \cup {p}
        /\ UNCHANGED <<form, query, cursor, rows>> /\ UNCHANGED disk
    BY <1>7 DEF TimerFires
  <2>2. p.current /\ p.query = query /\ p.cursor = cursor /\ ~p.answered BY DEF Poll
  <2> HIDE DEF p
  <2>3. form = query /\ \A r \in requests : ~r.current BY <2>1 DEF LogInv, OnePoll
  <2>4. OnePoll' BY <2>1, <2>2, <2>3 DEF OnePoll
  <2>5. RowsOfQuery' BY <2>1 DEF LogInv, RowsOfQuery
  <2>6. FilesInOrder' /\ \E hi \in 0..written' : ShownUpTo(hi)' BY <2>1, <2>2, <2>3, PageMoves
  <2> QED BY <2>4, <2>5, <2>6 DEF LogInv
<1> QED BY <1>2, <1>3, <1>4, <1>5, <1>6, <1>7

LEMMA ServeLogKeeps ==
  ASSUME LogInv, NEW r \in requests, ServeLog(r)
  PROVE  LogInv'
<1> DEFINE new == [current |-> r.current, query |-> r.query, cursor |-> r.cursor,
                   answered |-> TRUE, answer |-> Answer(r.query, r.cursor)]
<1>1. /\ requests' = (requests \ {r}) \cup {new} /\ ~r.answered
      /\ UNCHANGED disk /\ UNCHANGED <<form, query, cursor, pollTimer, rows>>
  BY DEF ServeLog, page_
<1>2. /\ new.current = r.current /\ new.query = r.query /\ new.cursor = r.cursor /\ new.answered
      /\ new.answer = Answer(r.query, r.cursor)
  OBVIOUS
<1> HIDE DEF new
<1>3. OnePoll' BY <1>1, <1>2 DEF LogInv, OnePoll
<1>4. RowsOfQuery' BY <1>1 DEF LogInv, RowsOfQuery
<1>5. FilesInOrder' /\ written' = written /\ written \in Nat
  BY <1>1, FilesStay DEF LogInv, FilesInOrder, disk
<1>6. PICK hi \in 0..written : ShownUpTo(hi) BY DEF LogInv
<1>7. r.current => \E to \in 0..written : AnswerTrue(new.answer, hi, to)
  <2> SUFFICES ASSUME r.current PROVE \E to \in 0..written : AnswerTrue(new.answer, hi, to) OBVIOUS
  <2>1. r.query = query /\ r.cursor = cursor BY DEF LogInv, OnePoll
  <2>2. PICK a : a = Answer(query, cursor) OBVIOUS
  <2>3. new.answer = a BY <1>2, <2>1, <2>2
  <2>4. CASE cursor = NoCursor
    <3>1. ~a.rejected /\ a.cursor.query = query /\ CursorTrue(a.cursor, written)
          /\ Stretch(a.entries, written)
      BY <2>2, <2>4, FirstAnswer DEF LogInv
    <3>2. AnswerTrue(a, hi, written) BY <2>4, <3>1 DEF AnswerTrue
    <3>3. written \in 0..written BY <1>5
    <3> QED BY <2>3, <3>2, <3>3
  <2>5. CASE cursor # NoCursor
    <3>1. cursor.query = query /\ CursorTrue(cursor, hi)
      BY <1>6, <2>5 DEF LogInv, RowsOfQuery, ShownUpTo
    <3>2. /\ ~a.rejected /\ a.cursor.query = query
          /\ \E to \in hi..written :
               /\ CursorTrue(a.cursor, to) /\ Stretch(a.entries, to)
               /\ \A i \in 1..Len(a.entries) : a.entries[i] > hi
               /\ \A k \in OnDisk : hi < k /\ k <= to => \E i \in 1..Len(a.entries) : a.entries[i] = k
      BY <2>2, <2>5, <3>1, NextAnswer DEF LogInv
    <3>3. PICK to \in hi..written :
               /\ CursorTrue(a.cursor, to) /\ Stretch(a.entries, to)
               /\ \A i \in 1..Len(a.entries) : a.entries[i] > hi
               /\ \A k \in OnDisk : hi < k /\ k <= to => \E i \in 1..Len(a.entries) : a.entries[i] = k
      BY <3>2
    <3>4. to \in 0..written /\ hi <= to BY <1>5
    <3>5. AnswerTrue(a, hi, to) BY <3>2, <3>3, <3>4 DEF AnswerTrue
    <3> QED BY <2>3, <3>4, <3>5
  <2> QED BY <2>4, <2>5
<1>8. ShownUpTo(hi)'
  <2>1. Stretch(Numbers(rows), hi)' /\ (cursor # NoCursor => CursorTrue(cursor, hi))'
    <3>1. OnDisk' = OnDisk BY <1>1 DEF OnDisk, Last, disk
    <3>2. Numbers(rows)' = Numbers(rows) BY <1>1 DEF Numbers
    <3>3. Stretch(Numbers(rows), hi)' BY <1>6, <3>1, <3>2 DEF ShownUpTo, Stretch
    <3>4. (cursor # NoCursor => CursorTrue(cursor, hi))'
      BY <1>1, <1>6 DEF ShownUpTo, CursorTrue, Last, disk
    <3> QED BY <3>3, <3>4
  <2>2. ASSUME NEW s \in requests', s.current, s.answered
        PROVE  \E to \in 0..written' : AnswerTrue(s.answer, hi, to)'
    <3>1. \E to \in 0..written : AnswerTrue(s.answer, hi, to)
      BY <1>1, <1>2, <1>6, <1>7, <2>2 DEF ShownUpTo
    <3>2. PICK to \in 0..written : AnswerTrue(s.answer, hi, to) BY <3>1
    <3>3. PICK a : a = s.answer OBVIOUS
    <3>4. AnswerTrue(a, hi, to)' BY <1>1, <3>2, <3>3, AnswerStays
    <3> QED BY <1>5, <3>3, <3>4
  <2> QED BY <2>1, <2>2 DEF ShownUpTo
<1> QED BY <1>3, <1>4, <1>5, <1>6, <1>8 DEF LogInv
\* What an answer brings goes on where the rows end.
LEMMA Rendered ==
  ASSUME LogInv, NEW r \in requests, r.current, NEW hi \in 0..written, ShownUpTo(hi),
         NEW to \in 0..written, AnswerTrue(r.answer, hi, to)
  PROVE  /\ Render(r) \in Seq(LogRows) /\ Stretch(Numbers(Render(r)), to)
         /\ \A i \in 1..Len(Render(r)) : Render(r)[i].query = query
<1> DEFINE e == r.answer.entries
           new == [i \in 1..Len(e) |-> [query |-> r.query, record |-> e[i]]]
           old == IF r.cursor = NoCursor THEN <<>> ELSE rows
           all == old \o new
<1>1. r.query = query /\ r.cursor = cursor /\ query \in Queries /\ rows \in Seq(LogRows)
  BY DEF LogInv, OnePoll, RowsOfQuery
<1>2. FilesInOrder /\ written \in Nat /\ hi \in Nat /\ to \in Nat BY DEF LogInv, FilesInOrder
<1>3. e \in Seq(Nat) /\ Stretch(e, to) BY DEF AnswerTrue, Stretch
<1>4. Len(e) \in Nat /\ \A i \in 1..Len(e) : e[i] \in Nat BY <1>3, LenProperties
<1>5. Render(r) = LastRows(all) BY DEF Render
<1> HIDE DEF e
<1>6. /\ new \in Seq(LogRows) /\ Len(new) = Len(e)
      /\ \A i \in 1..Len(new) : new[i].query = query /\ new[i].record = e[i]
  <2>1. \A i \in 1..Len(e) : [query |-> r.query, record |-> e[i]] \in LogRows
    BY <1>1, <1>4 DEF LogRows
  <2>2. new \in [1..Len(e) -> LogRows] BY <2>1
  <2>3. new \in Seq(LogRows) /\ Len(new) = Len(e) BY <1>4, <2>2
  <2> QED BY <1>1, <2>3
<1> HIDE DEF new
<1>7. Numbers(new) = e
  <2>1. Numbers(new) = [i \in 1..Len(e) |-> e[i]] BY <1>6 DEF Numbers
  <2>2. Numbers(new) \in Seq(Nat) /\ Len(Numbers(new)) = Len(e) BY <1>6, NumbersOf
  <2> QED BY <1>3, <2>1, <2>2, SeqEqual
<1>8. Stretch(Numbers(new), to) BY <1>3, <1>7
<1>9. /\ all \in Seq(LogRows) /\ Stretch(Numbers(all), to)
      /\ \A i \in 1..Len(all) : all[i].query = query
  <2>1. CASE r.cursor = NoCursor
    <3>1. all = new BY <1>6, <2>1, ConcatEmptySeq
    <3> QED BY <1>6, <1>8, <3>1
  <2>2. CASE r.cursor # NoCursor
    <3>1. all = rows \o new /\ cursor # NoCursor BY <1>1, <2>2
    <3>2. /\ hi <= to /\ \A i \in 1..Len(e) : e[i] > hi
          /\ \A k \in OnDisk : hi < k /\ k <= to => \E i \in 1..Len(e) : e[i] = k
      BY <3>1 DEF AnswerTrue, e
    <3>3. \A i \in 1..Len(new) : new[i].record > hi BY <1>6, <3>2
    <3>4. \A k \in OnDisk : hi < k /\ k <= to => \E i \in 1..Len(new) : new[i].record = k
      BY <1>6, <3>2
    <3>5. Stretch(Numbers(rows), hi) BY DEF ShownUpTo
    <3>6. /\ rows \o new \in Seq(LogRows) /\ Stretch(Numbers(rows \o new), to)
          /\ \A i \in 1..Len(rows \o new) :
                \/ \E j \in 1..Len(rows) : (rows \o new)[i] = rows[j]
                \/ \E j \in 1..Len(new) : (rows \o new)[i] = new[j]
      BY <1>1, <1>2, <1>6, <1>8, <3>2, <3>3, <3>4, <3>5, JoinedStretch
    <3>7. \A i \in 1..Len(rows) : rows[i].query = query BY <3>1 DEF LogInv, RowsOfQuery
    <3> HIDE DEF all
    <3> QED BY <1>6, <3>1, <3>6, <3>7
  <2> QED BY <2>1, <2>2
<1> HIDE DEF all
<1>10. /\ LastRows(all) \in Seq(LogRows) /\ Stretch(Numbers(LastRows(all)), to)
       /\ \A i \in 1..Len(LastRows(all)) : \E j \in 1..Len(all) : LastRows(all)[i] = all[j]
  BY <1>2, <1>9, SuffixStretch
<1> QED BY <1>5, <1>9, <1>10

LEMMA AnswerArrivesKeeps ==
  ASSUME LogInv, NEW r \in requests, AnswerArrives(r)
  PROVE  LogInv'
<1>1. PICK hi \in 0..written : ShownUpTo(hi) BY DEF LogInv
<1>2. r.answered /\ requests' = requests \ {r} /\ UNCHANGED disk BY DEF AnswerArrives
<1>3. FilesInOrder' /\ written' = written BY <1>2, FilesStay DEF LogInv, disk
<1>4. CASE ~r.current
  <2>1. UNCHANGED <<form, query, cursor, pollTimer, rows>> BY <1>4 DEF AnswerArrives, page_
  <2>2. OnePoll' /\ RowsOfQuery' BY <1>2, <2>1 DEF LogInv, OnePoll, RowsOfQuery
  <2>3. ShownUpTo(hi)' BY <1>1, <1>2, <2>1, ShownStays
  <2> QED BY <1>1, <1>3, <2>2, <2>3 DEF LogInv
<1>5. CASE r.current
  <2>1. PICK to \in 0..written : AnswerTrue(r.answer, hi, to) BY <1>1, <1>2, <1>5 DEF ShownUpTo
  <2>2. /\ cursor' = r.answer.cursor /\ rows' = Render(r)
        /\ UNCHANGED <<form, query>>
    BY <1>5, <2>1 DEF AnswerArrives, AnswerTrue
  <2>3. /\ Render(r) \in Seq(LogRows) /\ Stretch(Numbers(Render(r)), to)
        /\ \A i \in 1..Len(Render(r)) : Render(r)[i].query = query
    BY <1>1, <1>5, <2>1, Rendered
  <2>4. form = query /\ \A s \in requests' : ~s.current BY <1>2, <1>5 DEF LogInv, OnePoll
  <2>5. OnePoll' BY <2>2, <2>4 DEF OnePoll
  <2>6. cursor' # NoCursor => cursor'.query = query /\ CursorTrue(r.answer.cursor, to)
    BY <2>1, <2>2 DEF AnswerTrue
  <2>7. RowsOfQuery' BY <2>2, <2>3, <2>4, <2>6 DEF LogInv, RowsOfQuery
  <2>8. ShownUpTo(to)'
    <3>1. OnDisk' = OnDisk BY <1>2 DEF OnDisk, Last, disk
    <3>2. Numbers(rows)' = Numbers(Render(r)) BY <2>2 DEF Numbers
    <3>3. Stretch(Numbers(rows), to)' BY <2>3, <3>1, <3>2 DEF Stretch
    <3>4. (cursor # NoCursor => CursorTrue(cursor, to))'
      BY <1>2, <2>2, <2>6 DEF CursorTrue, Last, disk
    <3> QED BY <2>4, <3>3, <3>4 DEF ShownUpTo
  <2> QED BY <1>3, <2>1, <2>5, <2>7, <2>8 DEF LogInv
<1> QED BY <1>4, <1>5

LEMMA PollFailsKeeps ==
  ASSUME LogInv, NEW r \in requests, PollFails(r)
  PROVE  LogInv'
<1>1. PICK hi \in 0..written : ShownUpTo(hi) BY DEF LogInv
<1>2. /\ requests' = requests \ {r} /\ UNCHANGED <<form, query, cursor, rows>> /\ UNCHANGED disk
      /\ ~r.current => pollTimer' = pollTimer
  BY DEF PollFails
<1>3. FilesInOrder' /\ written' = written BY <1>2, FilesStay DEF LogInv, disk
<1>4. OnePoll'
  <2>1. CASE ~r.current BY <1>2, <2>1 DEF LogInv, OnePoll
  <2>2. CASE r.current
    <3>1. form = query /\ \A s \in requests' : ~s.current BY <1>2, <2>2 DEF LogInv, OnePoll
    <3> QED BY <1>2, <3>1 DEF OnePoll
  <2> QED BY <2>1, <2>2
<1>5. RowsOfQuery' BY <1>2 DEF LogInv, RowsOfQuery
<1>6. ShownUpTo(hi)' BY <1>1, <1>2, ShownStays
<1> QED BY <1>1, <1>3, <1>4, <1>5, <1>6 DEF LogInv

LEMMA LogInitially == LogInit => LogInv
<1> SUFFICES ASSUME LogInit PROVE LogInv OBVIOUS
<1> DEFINE f == [id |-> 1, first |-> 1, last |-> 0]
<1>1. /\ files = <<f>> /\ written = 0 /\ rotations = 0 /\ form \in Queries /\ query = form
      /\ cursor = NoCursor /\ ~pollTimer /\ requests = {} /\ rows = <<>>
  BY LogAssumption DEF LogInit
<1>2. f \in LogFiles BY LogAssumption DEF LogFiles, FileIds
<1>3. /\ files \in Seq(LogFiles) /\ Last = 1 /\ files[1] = f BY <1>1, <1>2 DEF Last
<1>4. f.id = 1 /\ f.first = 1 /\ f.last = 0 OBVIOUS
<1> HIDE DEF f
<1>5. FilesInOrder BY <1>1, <1>3, <1>4, LogAssumption DEF FilesInOrder
<1>6. OnePoll BY <1>1 DEF OnePoll
<1>7. rows \in Seq(LogRows) /\ Len(rows) = 0 BY <1>1, EmptySeq
<1>8. RowsOfQuery BY <1>1, <1>7 DEF RowsOfQuery
<1>9. Stretch(Numbers(rows), 0)
  <2>1. Numbers(rows) \in Seq(Nat) /\ Len(Numbers(rows)) = 0 BY <1>7, NumbersOf
  <2> DEFINE n == Numbers(rows)
  <2> HIDE DEF n
  <2>2. n \in Seq(Nat) /\ Len(n) = 0 BY <2>1 DEF n
  <2>3. 1..Len(n) = {} BY <2>2
  <2>4. /\ \A i \in 1..Len(n) : n[i] <= 0
        /\ \A i, j \in 1..Len(n) : i < j => n[i] < n[j]
    BY <2>3
  <2>5. \A k \in OnDisk : ~(Len(n) > 0 /\ n[1] <= k /\ k <= 0) BY <2>2
  <2>6. Stretch(n, 0) BY <2>2, <2>4, <2>5 DEF Stretch
  <2> QED BY <2>6 DEF n
<1>10. ShownUpTo(0) BY <1>1, <1>9 DEF ShownUpTo
<1>11. 0 \in 0..written BY <1>1
<1> QED BY <1>5, <1>6, <1>8, <1>10, <1>11 DEF LogInv

LEMMA LogKeeps == LogInv /\ [LogNext]_logVars => LogInv'
<1> SUFFICES ASSUME LogInv, [LogNext]_logVars PROVE LogInv' OBVIOUS
<1>1. CASE WriteRecord \/ RotateLog \/ TruncateLog BY <1>1, DiskKeeps
<1>2. CASE \/ RunQuery \/ PauseLive \/ GoLive \/ TimerFires
           \/ \E q \in Queries : ChangeForm(q) \/ ChangeSource(q)
  BY <1>2, ControlsKeep
<1>3. ASSUME NEW r \in requests, ServeLog(r) PROVE LogInv' BY <1>3, ServeLogKeeps
<1>4. ASSUME NEW r \in requests, AnswerArrives(r) PROVE LogInv' BY <1>4, AnswerArrivesKeeps
<1>5. ASSUME NEW r \in requests, PollFails(r) PROVE LogInv' BY <1>5, PollFailsKeeps
<1>6. CASE UNCHANGED logVars
  <2>1. UNCHANGED <<requests, form, query, cursor, pollTimer, rows>> /\ UNCHANGED disk
    BY <1>6 DEF logVars, disk
  <2>2. PICK hi \in 0..written : ShownUpTo(hi) BY DEF LogInv
  <2>3. ShownUpTo(hi)' BY <2>1, <2>2, ShownStays
  <2>4. OnePoll' /\ RowsOfQuery' BY <2>1 DEF LogInv, OnePoll, RowsOfQuery
  <2>5. FilesInOrder' /\ written' = written BY <2>1, FilesStay DEF LogInv, disk
  <2> QED BY <2>2, <2>3, <2>4, <2>5 DEF LogInv
<1> QED BY <1>1, <1>2, <1>3, <1>4, <1>5, <1>6 DEF LogNext

LEMMA InvOneStretch == LogInv => RowsOfOneStretch
<1> SUFFICES ASSUME LogInv PROVE RowsOfOneStretch OBVIOUS
<1>1. Cardinality({r \in requests : r.current}) + (IF pollTimer THEN 1 ELSE 0) <= 1
  <2> DEFINE C == {r \in requests : r.current}
  <2>1. C = {} \/ \E r : C = {r} BY DEF LogInv, OnePoll
  <2>2. Cardinality(C) \in {0, 1} /\ (C = {} => Cardinality(C) = 0)
    BY <2>1, FS_EmptySet, FS_Singleton
  <2>3. pollTimer => C = {} BY DEF LogInv, OnePoll
  <2> HIDE DEF C
  <2>4. Cardinality(C) + (IF pollTimer THEN 1 ELSE 0) <= 1
    <3>1. CASE pollTimer BY <2>2, <2>3, <3>1
    <3>2. CASE ~pollTimer BY <2>2, <3>2
    <3> QED BY <3>1, <3>2
  <2> QED BY <2>4 DEF C
<1>2. OneQueryAtATime BY <1>1 DEF OneQueryAtATime, LogInv, RowsOfQuery
<1>3. PICK hi \in 0..written : ShownUpTo(hi) BY DEF LogInv
<1>4. rows \in Seq(LogRows) /\ FilesInOrder BY DEF LogInv, RowsOfQuery
<1> DEFINE n == Len(rows)
<1>5. n \in Nat /\ \A i \in 1..n : rows[i].record \in Nat BY <1>4, NumbersOf
<1>6. /\ \A i \in 1..n : rows[i].record <= hi
      /\ \A i, j \in 1..n : i < j => rows[i].record < rows[j].record
      /\ \A k \in OnDisk : n > 0 /\ rows[1].record <= k /\ k <= hi
            => \E i \in 1..n : rows[i].record = k
  BY <1>3, <1>4, StretchOf DEF ShownUpTo
<1>7. hi \in Nat BY <1>4 DEF FilesInOrder
<1> HIDE DEF n
<1>8. ASSUME NEW i \in 1..n - 1, NEW k \in (rows[i].record + 1)..(rows[i + 1].record - 1)
      PROVE  k \notin OnDisk
  <2>1. i \in 1..n /\ i + 1 \in 1..n /\ 1 \in 1..n /\ n > 0 /\ i \in Nat BY <1>5
  <2>2. /\ rows[i].record \in Nat /\ rows[i + 1].record \in Nat /\ rows[1].record \in Nat
        /\ rows[i + 1].record <= hi
    BY <1>5, <1>6, <2>1
  <2>3. k \in Int /\ rows[i].record < k /\ k < rows[i + 1].record BY <2>2
  <2>4. rows[1].record <= rows[i].record
    <3>1. CASE i = 1 BY <2>2, <3>1
    <3>2. CASE i # 1
      <4>1. 1 < i BY <2>1, <3>2
      <4>2. rows[1].record < rows[i].record BY <1>6, <2>1, <4>1
      <4> QED BY <2>2, <4>2
    <3> QED BY <3>1, <3>2
  <2>5. rows[1].record <= k /\ k <= hi BY <1>7, <2>2, <2>3, <2>4
  <2>6. ASSUME k \in OnDisk PROVE FALSE
    <3>1. PICK j \in 1..n : rows[j].record = k BY <1>6, <2>1, <2>5, <2>6
    <3>2. j < i \/ j = i \/ j = i + 1 \/ i + 1 < j BY <1>5, <2>1
    <3>3. CASE j < i
      <4>1. rows[j].record < rows[i].record BY <1>6, <2>1, <3>3
      <4> QED BY <2>2, <2>3, <3>1, <4>1
    <3>4. CASE i + 1 < j
      <4>1. rows[i + 1].record < rows[j].record BY <1>6, <2>1, <3>4
      <4> QED BY <2>2, <2>3, <3>1, <4>1
    <3>5. CASE j = i \/ j = i + 1 BY <2>2, <2>3, <3>1, <3>5
    <3> QED BY <3>2, <3>3, <3>4, <3>5
  <2> QED BY <2>6
<1>9. RowsAreContiguous BY <1>6, <1>8 DEF RowsAreContiguous, n
<1> QED BY <1>2, <1>9 DEF RowsOfOneStretch

\* The log viewer: whatever is polled again, rotated, emptied, paused or asked for anew, the
\* rows are one stretch of the log, of one query, and one poll at most is outstanding.
THEOREM RowsStayOneStretch == LogSpec => []RowsOfOneStretch
BY LogInitially, LogKeeps, InvOneStretch, PTL DEF LogSpec

-----------------------------------------------------------------------------
(* The types. *)

KnownRows == [query : Queries, record : Records]
RequestTyped(r) ==
    /\ r.current \in BOOLEAN /\ r.query \in Queries /\ r.cursor \in Cursors /\ r.answered \in BOOLEAN
    /\ r.current /\ r.answered => r.answer.cursor \in Cursors /\ r.answer.entries \in Seq(Records)
LogBounded ==
    /\ written <= MaxRecords /\ Last <= MaxFiles
    /\ cursor \in Cursors /\ live \in BOOLEAN /\ pollTimer \in BOOLEAN
    /\ \A r \in requests : RequestTyped(r)
    /\ rows \in Seq(KnownRows) /\ Len(rows) <= MaxRows

LEMMA FilesBounded ==
  ASSUME FilesInOrder, written <= MaxRecords, NEW i \in 1..Last
  PROVE  /\ files[i].id \in FileIds /\ files[i].first \in 1..MaxRecords + 1
         /\ files[i].last \in 0..MaxRecords /\ Size(files[i]) \in 0..MaxRecords
         /\ files[i].last <= written /\ files[i] \in LogFiles
<1>1. files[i] \in LogFiles /\ files[i].last <= written /\ files[i].first <= files[i].last + 1
  BY FilesOf
<1>2. /\ files[i].id \in FileIds /\ files[i].first \in Nat \ {0} /\ files[i].last \in Nat
      /\ written \in Nat /\ MaxRecords \in Nat
  BY <1>1, LogFileFields, LogAssumption DEF FilesInOrder
<1> DEFINE u == files[i].first
           v == files[i].last
<1>3. Size(files[i]) = v + 1 - u BY DEF Size
<1> HIDE DEF u, v
<1>4. u \in Nat \ {0} /\ v \in Nat /\ v <= written /\ u <= v + 1 BY <1>1, <1>2 DEF u, v
<1>5. u \in 1..MaxRecords + 1 /\ v \in 0..MaxRecords /\ v + 1 - u \in 0..MaxRecords BY <1>2, <1>4
<1> QED BY <1>1, <1>2, <1>3, <1>5 DEF u, v

LEMMA DiskRecords == ASSUME FilesInOrder, written <= MaxRecords PROVE OnDisk \subseteq Records
<1> SUFFICES ASSUME NEW k \in OnDisk PROVE k \in Records OBVIOUS
<1>1. PICK i \in 1..Last : k \in files[i].first..files[i].last BY OnDiskIs
<1> QED BY <1>1, FilesBounded, LogAssumption DEF Records

-----------------------------------------------------------------------------
(* What an answer says stays in bounds. *)

LEMMA PositionBounded ==
  ASSUME FilesInOrder, written <= MaxRecords, NEW i \in 1..Last, NEW n, NEW to,
         LET p == PositionAt(files[i], n) IN
         p.offset \in Nat /\ (LeftAt(p, files[i], to) \/ Emptied(p, files[i], to))
  PROVE  PositionAt(files[i], n) \in Positions
<1> DEFINE f == files[i]
           p == PositionAt(f, n)
           u == f.first
           v == f.last
<1>1. /\ u \in 1..MaxRecords + 1 /\ v \in 0..MaxRecords
      /\ Size(f) \in 0..MaxRecords /\ Size(f) = v + 1 - u
  BY FilesBounded DEF Size
<1>2. /\ p.offset = n /\ p.size = Size(f) /\ p.anchor = (IF n = 0 THEN 0 ELSE u + n - 1)
      /\ p = [offset |-> p.offset, size |-> p.size, anchor |-> p.anchor]
  BY DEF PositionAt
<1>3. n \in Nat /\ (n <= Size(f) \/ n = 0 \/ p.anchor < u) BY <1>2 DEF LeftAt, Emptied
<1> HIDE DEF f, p, u, v
<1>4. n \in 0..MaxRecords /\ n <= v + 1 - u
  <2>1. CASE n <= Size(f) BY <1>1, <1>3, <2>1, LogAssumption
  <2>2. CASE n = 0 BY <1>1, <2>2, LogAssumption
  <2>3. CASE n # 0 /\ p.anchor < u
    <3>1. u + n - 1 < u BY <1>2, <2>3
    <3> QED BY <1>1, <1>3, <2>3, <3>1
  <2> QED BY <1>3, <2>1, <2>2, <2>3
<1>5. p.anchor \in 0..MaxRecords
  <2>1. CASE n = 0 BY <1>2, <2>1, LogAssumption
  <2>2. CASE n # 0
    <3>1. u + n - 1 \in 0..MaxRecords BY <1>1, <1>3, <1>4, <2>2, LogAssumption
    <3> QED BY <1>2, <2>2, <3>1
  <2> QED BY <2>1, <2>2
<1>6. p.offset \in 0..MaxRecords /\ p.size \in 0..MaxRecords BY <1>1, <1>2, <1>4
<1>7. p \in Positions BY <1>2, <1>5, <1>6 DEF Positions
<1> QED BY <1>7 DEF p, f

LEMMA CursorBounded ==
  ASSUME FilesInOrder, written <= MaxRecords, NEW q \in Queries, NEW offset, NEW to,
         CursorTrue(CursorAt(q, offset), to)
  PROVE  CursorAt(q, offset) \in Cursors
<1> DEFINE c == CursorAt(q, offset)
           known == {files[i].id : i \in 1..Last}
<1>1. /\ c = [query |-> q, known |-> known, at |-> c.at] /\ c.known = known
      /\ c.at = [id \in FileIds |-> IF id \in known
                   THEN PositionAt(files[FileIndex(id)], offset[FileIndex(id)]) ELSE NoPosition]
  BY DEF CursorAt
<1>2. known \in SUBSET FileIds BY FilesBounded
<1>3. ASSUME NEW id \in FileIds PROVE c.at[id] \in Positions
  <2>1. CASE id \in known
    <3> DEFINE j == FileIndex(id)
    <3>1. j \in 1..Last /\ files[j].id = id BY <2>1 DEF FileIndex
    <3>2. c.at[id] = PositionAt(files[j], offset[j]) BY <1>1, <2>1
    <3> HIDE DEF j
    <3>3. ReadUpTo(c, files[j], to) BY <3>1 DEF CursorTrue
    <3>4. c.at[id].offset \in Nat
          /\ (LeftAt(c.at[id], files[j], to) \/ Emptied(c.at[id], files[j], to))
      BY <1>1, <2>1, <3>1, <3>3 DEF ReadUpTo
    <3>5. PICK n : n = offset[j] OBVIOUS
    <3>6. PositionAt(files[j], n) \in Positions
      BY <3>1, <3>2, <3>4, <3>5, PositionBounded
    <3> QED BY <3>2, <3>5, <3>6
  <2>2. CASE id \notin known
    <3>1. 0 \in 0..MaxRecords BY LogAssumption
    <3>2. NoPosition \in Positions BY <3>1 DEF NoPosition, Positions
    <3> QED BY <1>1, <2>2, <3>2
  <2> QED BY <2>1, <2>2
<1>4. c.at \in [FileIds -> Positions] BY <1>1, <1>3
<1> HIDE DEF c, known
<1>5. c \in Cursors BY <1>1, <1>2, <1>4 DEF Cursors
<1> QED BY <1>5 DEF c

LEMMA EntriesKnown ==
  ASSUME NEW s \in Seq(Nat), \A i \in 1..Len(s) : s[i] \in Records
  PROVE  s \in Seq(Records)
<1>1. Len(s) \in Nat /\ s \in [1..Len(s) -> Nat] BY LenProperties
<1>2. s \in [1..Len(s) -> Records] BY <1>1
<1> QED BY <1>1, <1>2

LEMMA AnswerBounded ==
  ASSUME LogInv, written <= MaxRecords
  PROVE  LET a == Answer(query, cursor) IN a.cursor \in Cursors /\ a.entries \in Seq(Records)
<1> DEFINE a == Answer(query, cursor)
<1>1. FilesInOrder /\ query \in Queries /\ written \in Nat /\ MaxRecords \in Nat
  BY LogAssumption DEF LogInv, RowsOfQuery, FilesInOrder
<1>2. CASE cursor = NoCursor
  <2> DEFINE whole == [i \in 1..Last |-> Size(files[i])]
             N == Newest(OnDisk)
             s == InOrder(N)
  <2>1. a.cursor = CursorAt(query, whole) /\ a.entries = s BY <1>2 DEF Answer
  <2> HIDE DEF whole
  <2>2. CursorTrue(CursorAt(query, whole), written) BY <1>1, <1>2, <2>1, FirstAnswer
  <2>3. PICK w : w = whole OBVIOUS
  <2>4. PICK q \in Queries : q = query BY <1>1
  <2>5. CursorAt(q, w) \in Cursors BY <1>1, <2>2, <2>3, <2>4, CursorBounded
  <2>6. N \in SUBSET Nat /\ IsFiniteSet(N) /\ N \subseteq OnDisk BY <1>1, DiskFinite, NewestLast
  <2>7. N \subseteq Records BY <1>1, <2>6, DiskRecords
  <2> HIDE DEF N
  <2>8. s \in Seq(N) BY <2>6, ListedInOrder
  <2>9. s \in Seq(Records) BY <2>7, <2>8, SeqMonotonic
  <2> QED BY <2>1, <2>3, <2>4, <2>5, <2>9
<1>3. CASE cursor # NoCursor
  <2>1. PICK hi \in 0..written : ShownUpTo(hi) BY DEF LogInv
  <2>2. cursor.query = query /\ CursorTrue(cursor, hi)
    BY <1>3, <2>1 DEF LogInv, RowsOfQuery, ShownUpTo
  <2>3. PICK to \in hi..written :
          /\ CursorTrue(a.cursor, to) /\ Stretch(a.entries, to)
          /\ \A i \in 1..Len(a.entries) : a.entries[i] > hi
    BY <1>1, <1>3, <2>1, <2>2, NextAnswer
  <2>4. \E offset : a.cursor = CursorAt(query, offset) BY <1>3, <2>2 DEF Answer
  <2>5. PICK offset : a.cursor = CursorAt(query, offset) BY <2>4
  <2>6. PICK q \in Queries : q = query BY <1>1
  <2>7. a.cursor \in Cursors BY <1>1, <2>3, <2>5, <2>6, CursorBounded
  <2>8. PICK s : s = a.entries OBVIOUS
  <2>9. s \in Seq(Nat) /\ \A i \in 1..Len(s) : s[i] <= to /\ s[i] > hi BY <2>3, <2>8 DEF Stretch
  <2>10. \A i \in 1..Len(s) : s[i] \in Nat BY <2>9, LenProperties
  <2>11. \A i \in 1..Len(s) : s[i] \in Records BY <1>1, <2>9, <2>10 DEF Records
  <2>12. s \in Seq(Records) BY <2>9, <2>11, EntriesKnown
  <2> QED BY <2>7, <2>8, <2>12
<1> QED BY <1>2, <1>3

-----------------------------------------------------------------------------
(* The rows. *)

LEMMA RenderBounded ==
  ASSUME rows \in Seq(KnownRows), NEW r, r.query \in Queries, r.answer.entries \in Seq(Records)
  PROVE  Render(r) \in Seq(KnownRows) /\ Len(Render(r)) <= MaxRows
<1> DEFINE e   == r.answer.entries
           new == [i \in 1..Len(e) |-> [query |-> r.query, record |-> e[i]]]
           old == IF r.cursor = NoCursor THEN <<>> ELSE rows
           all == old \o new
<1>1. Render(r) = LastRows(all) BY DEF Render
<1>2. e \in Seq(Records) /\ Len(e) \in Nat /\ \A i \in 1..Len(e) : e[i] \in Records
  BY LenProperties
<1> HIDE DEF e
<1>3. new \in Seq(KnownRows)
  <2>1. new \in [1..Len(e) -> KnownRows] BY <1>2 DEF KnownRows
  <2> QED BY <1>2, <2>1
<1>4. old \in Seq(KnownRows) BY EmptySeq
<1> HIDE DEF new, old
<1>5. all \in Seq(KnownRows) BY <1>3, <1>4, ConcatProperties
<1> HIDE DEF all
<1>6. PICK s \in Seq(KnownRows) : s = all BY <1>5
<1>7. Len(s) \in Nat /\ \A i \in 1..Len(s) : s[i] \in KnownRows BY LenProperties
<1>8. CASE Len(s) <= MaxRows BY <1>1, <1>6, <1>8 DEF LastRows
<1>9. CASE ~(Len(s) <= MaxRows)
  <2> DEFINE n == Len(s)
             m == n - MaxRows + 1
  <2>1. m \in Int /\ n \in Int /\ 1 <= m /\ m <= n /\ n - m + 1 = MaxRows
    BY <1>7, <1>9, LogAssumption
  <2>2. Render(r) = SubSeq(s, m, n) BY <1>1, <1>6, <1>9 DEF LastRows
  <2> HIDE DEF m
  <2>3. \A i \in m..n : s[i] \in KnownRows BY <1>7, <2>1
  <2>4. SubSeq(s, m, n) \in Seq(KnownRows) /\ Len(SubSeq(s, m, n)) = n - m + 1
    BY <2>1, <2>3, SubSeqProperties
  <2> QED BY <2>1, <2>2, <2>4, LogAssumption
<1> QED BY <1>8, <1>9

-----------------------------------------------------------------------------
(* The steps. *)

LEMMA PollTyped ==
  ASSUME NEW q \in Queries, NEW c \in Cursors
  PROVE  RequestTyped(Poll(q, c)) /\ NoCursor \in Cursors
BY DEF RequestTyped, Poll, Cursors

LEMMA StoppedTyped == ASSUME query \in Queries PROVE \A r \in Stopped : RequestTyped(r)
BY DEF Stopped, Outdated, RequestTyped, Poll, Cursors

LEMMA DiskBounded ==
  ASSUME LogInv, LogBounded, WriteRecord \/ TruncateLog \/ RotateLog PROVE LogBounded'
<1>1. UNCHANGED <<requests, form, query, cursor, live, pollTimer, rows>>
  BY DEF WriteRecord, TruncateLog, RotateLog, page_
<1>2. /\ files \in Seq(LogFiles) /\ Len(files) \in Nat /\ Last = Len(files) /\ Last >= 1
      /\ files \in [1..Len(files) -> LogFiles] /\ written \in Nat
      /\ MaxRecords \in Nat /\ MaxFiles \in Nat \ {0}
  BY LenProperties, LogAssumption DEF LogInv, FilesInOrder, Last
<1>3. written' <= MaxRecords
  BY <1>2 DEF WriteRecord, TruncateLog, RotateLog, LogBounded
<1>4. Last' <= MaxFiles
  <2>1. CASE WriteRecord \/ TruncateLog
    <3>1. DOMAIN files' = DOMAIN files /\ files' \in Seq(LogFiles)
      BY <1>2, <2>1, LogGoesOn DEF WriteRecord, TruncateLog, LogInv, DiskGoesOn, FilesInOrder
    <3>2. Len(files') = Len(files) BY <1>2, <3>1, LenProperties
    <3> QED BY <1>2, <3>2 DEF Last, LogBounded
  <2>2. CASE RotateLog
    <3>1. PICK kept, e : /\ kept = (IF Last = MaxFiles THEN Tail(files) ELSE files)
                         /\ e = [id |-> rotations + 2, first |-> written + 1, last |-> written]
                         /\ files' = Append(kept, e)
      BY <2>2 DEF RotateLog
    <3>2. kept \in Seq(LogFiles) /\ Len(kept) + 1 <= MaxFiles /\ Len(kept) \in Nat
      <4>1. CASE Last = MaxFiles
        <5>1. files # <<>> BY <1>2, EmptySeq
        <5>2. Tail(files) \in Seq(LogFiles) /\ Len(Tail(files)) = Len(files) - 1
          BY <1>2, <5>1, HeadTailProperties
        <5> QED BY <1>2, <3>1, <4>1, <5>2
      <4>2. CASE Last # MaxFiles
        <5>1. kept = files BY <3>1, <4>2
        <5>2. Last <= MaxFiles BY DEF LogBounded
        <5>3. Last \in Nat /\ MaxFiles \in Nat /\ Last = Len(files) BY <1>2
        <5>4. Last + 1 <= MaxFiles BY <4>2, <5>2, <5>3
        <5> QED BY <1>2, <5>1, <5>3, <5>4
      <4> QED BY <4>1, <4>2
    <3>3. e \in LogFiles
      <4>1. rotations + 2 \in FileIds
        BY <2>2, LogAssumption DEF RotateLog, LogInv, FilesInOrder, FileIds
      <4>2. PICK m \in Nat \ {0} : m = written + 1 BY <1>2
      <4>3. PICK id \in FileIds : id = rotations + 2 BY <4>1
      <4>4. e = [id |-> id, first |-> m, last |-> written] BY <3>1, <4>2, <4>3
      <4> QED BY <1>2, <4>4 DEF LogFiles
    <3>4. Len(files') = Len(kept) + 1 BY <3>1, <3>2, <3>3, AppendProperties
    <3> QED BY <3>2, <3>4 DEF Last
  <2> QED BY <2>1, <2>2
<1> QED BY <1>1, <1>3, <1>4 DEF LogBounded, RequestTyped

LEMMA NoRows == <<>> \in Seq(KnownRows) /\ Len(<<>>) <= MaxRows
<1>1. <<>> \in Seq(KnownRows) /\ Len(<<>>) = 0 BY EmptySeq
<1> QED BY <1>1, LogAssumption

LEMMA PageBounded ==
  ASSUME LogBounded, UNCHANGED disk, cursor' \in Cursors, live' \in BOOLEAN, pollTimer' \in BOOLEAN,
         \A r \in requests' : RequestTyped(r),
         rows' = rows \/ rows' = <<>>
  PROVE  LogBounded'
<1>1. written' = written /\ Last' = Last BY DEF disk, Last
<1>2. rows' \in Seq(KnownRows) /\ Len(rows') <= MaxRows
  <2>1. CASE rows' = rows BY <2>1 DEF LogBounded
  <2>2. CASE rows' = <<>> BY <2>2, NoRows
  <2> QED BY <2>1, <2>2
<1>3. \A r \in requests' : RequestTyped(r)' BY DEF RequestTyped
<1> QED BY <1>1, <1>2, <1>3 DEF LogBounded

LEMMA ControlsBounded ==
  ASSUME LogInv, LogBounded,
         \/ RunQuery \/ PauseLive \/ GoLive \/ TimerFires
         \/ \E q \in Queries : ChangeForm(q) \/ ChangeSource(q)
  PROVE  LogBounded'
<1>1. /\ form \in Queries /\ query \in Queries /\ cursor \in Cursors /\ NoCursor \in Cursors
      /\ live \in BOOLEAN
  BY DEF LogInv, RowsOfQuery, LogBounded, Cursors
<1>2. ASSUME NEW q \in Queries, NEW onLive \in BOOLEAN, NEW c \in Cursors, StartFollow(q, onLive, c),
             UNCHANGED disk, rows' = rows \/ rows' = <<>>
      PROVE  LogBounded'
  <2>1. \A r \in requests' : RequestTyped(r)
    BY <1>1, <1>2, StoppedTyped, PollTyped DEF StartFollow
  <2> QED BY <1>2, <2>1, PageBounded DEF StartFollow
<1>3. ASSUME NEW c \in Cursors, StopFollow(c), UNCHANGED disk, rows' = rows PROVE LogBounded'
  <2>1. \A r \in requests' : RequestTyped(r) BY <1>1, <1>3, StoppedTyped DEF StopFollow
  <2> QED BY <1>3, <2>1, PageBounded DEF StopFollow
<1>4. CASE RunQuery
  <2>1. PICK onLive \in {FALSE, live} : StartFollow(form, onLive, NoCursor) BY <1>4 DEF RunQuery
  <2> QED BY <1>1, <1>2, <1>4, <2>1 DEF RunQuery
<1>5. CASE GoLive BY <1>1, <1>2, <1>5 DEF GoLive
<1>6. ASSUME NEW q \in Queries, ChangeSource(q) PROVE LogBounded'
  BY <1>1, <1>2, <1>6 DEF ChangeSource
<1>7. CASE PauseLive BY <1>1, <1>3, <1>7 DEF PauseLive
<1>8. ASSUME NEW q \in Queries, ChangeForm(q) PROVE LogBounded'
  BY <1>1, <1>3, <1>8 DEF ChangeForm
<1>9. CASE TimerFires
  <2>1. /\ requests' = requests \cup {Poll(query, cursor)} /\ pollTimer' = FALSE
        /\ UNCHANGED <<cursor, live, rows>> /\ UNCHANGED disk
    BY <1>9 DEF TimerFires
  <2>2. \A r \in requests' : RequestTyped(r) BY <1>1, <2>1, PollTyped DEF LogBounded
  <2> QED BY <1>1, <2>1, <2>2, PageBounded
<1> QED BY <1>4, <1>5, <1>6, <1>7, <1>8, <1>9

LEMMA ServeLogBounded ==
  ASSUME LogInv, LogBounded, NEW r \in requests, ServeLog(r) PROVE LogBounded'
<1> DEFINE new == [current |-> r.current, query |-> r.query, cursor |-> r.cursor,
                   answered |-> TRUE, answer |-> Answer(r.query, r.cursor)]
<1>1. /\ requests' = (requests \ {r}) \cup {new}
      /\ UNCHANGED disk /\ UNCHANGED <<cursor, live, pollTimer, rows>>
  BY DEF ServeLog, page_
<1>2. RequestTyped(new)
  <2>1. RequestTyped(r) BY DEF LogBounded
  <2>2. r.current => r.query = query /\ r.cursor = cursor BY DEF LogInv, OnePoll
  <2>3. r.current => new.answer.cursor \in Cursors /\ new.answer.entries \in Seq(Records)
    BY <2>2, AnswerBounded DEF LogBounded
  <2> QED BY <2>1, <2>3 DEF RequestTyped
<1> HIDE DEF new
<1>3. \A s \in requests' : RequestTyped(s) BY <1>1, <1>2 DEF LogBounded
<1>4. cursor' \in Cursors /\ live' \in BOOLEAN /\ pollTimer' \in BOOLEAN BY <1>1 DEF LogBounded
<1> QED BY <1>1, <1>3, <1>4, PageBounded

LEMMA AnswerArrivesBounded ==
  ASSUME LogInv, LogBounded, NEW r \in requests, AnswerArrives(r) PROVE LogBounded'
<1>1. r.answered /\ requests' = requests \ {r} /\ UNCHANGED disk BY DEF AnswerArrives
<1>2. \A s \in requests' : RequestTyped(s) BY <1>1 DEF LogBounded
<1>3. CASE UNCHANGED <<cursor, pollTimer, rows>> /\ live' \in BOOLEAN
  <2>1. cursor' \in Cursors /\ pollTimer' \in BOOLEAN BY <1>3 DEF LogBounded
  <2> QED BY <1>1, <1>2, <1>3, <2>1, PageBounded
<1>4. CASE r.current /\ cursor' = r.answer.cursor /\ rows' = Render(r) /\ pollTimer' = live /\ live' = live
  <2>1. RequestTyped(r) BY DEF LogBounded
  <2>2. cursor' \in Cursors /\ r.query \in Queries /\ r.answer.entries \in Seq(Records)
    BY <1>1, <1>4, <2>1 DEF RequestTyped
  <2>3. rows' \in Seq(KnownRows) /\ Len(rows') <= MaxRows
    BY <1>4, <2>2, RenderBounded DEF LogBounded
  <2>4. written' = written /\ Last' = Last BY <1>1 DEF disk, Last
  <2>5. \A s \in requests' : RequestTyped(s)' BY <1>2 DEF RequestTyped
  <2> QED BY <1>4, <2>2, <2>3, <2>4, <2>5 DEF LogBounded
<1>5. live \in BOOLEAN BY DEF LogBounded
<1> QED BY <1>3, <1>4, <1>5 DEF AnswerArrives, page_

LEMMA PollFailsBounded ==
  ASSUME LogInv, LogBounded, NEW r \in requests, PollFails(r) PROVE LogBounded'
<1>1. requests' = requests \ {r} /\ UNCHANGED disk /\ UNCHANGED <<cursor, rows>> BY DEF PollFails
<1>2. \A s \in requests' : RequestTyped(s) BY <1>1 DEF LogBounded
<1>3. r.current \in BOOLEAN /\ live \in BOOLEAN /\ pollTimer \in BOOLEAN
  BY DEF LogBounded, RequestTyped
<1>4. PICK refused \in BOOLEAN :
        /\ live' = (live /\ ~(r.current /\ refused))
        /\ pollTimer' = IF r.current THEN live' ELSE pollTimer
  BY DEF PollFails
<1>5. live' \in BOOLEAN /\ pollTimer' \in BOOLEAN BY <1>3, <1>4
<1>6. cursor' \in Cursors BY <1>1 DEF LogBounded
<1> QED BY <1>1, <1>2, <1>5, <1>6, PageBounded

LEMMA LogBoundedInitially == LogInit => LogBounded
<1> SUFFICES ASSUME LogInit PROVE LogBounded OBVIOUS
<1>1. Last = 1 BY DEF LogInit, Last
<1>2. rows \in Seq(KnownRows) /\ Len(rows) <= MaxRows BY NoRows DEF LogInit
<1>3. written <= MaxRecords /\ Last <= MaxFiles BY <1>1, LogAssumption DEF LogInit
<1>4. cursor \in Cursors /\ live \in BOOLEAN /\ pollTimer \in BOOLEAN /\ requests = {}
  BY DEF LogInit, Cursors
<1> QED BY <1>2, <1>3, <1>4 DEF LogBounded

LEMMA LogBoundedKept == LogBounded /\ LogInv /\ [LogNext]_logVars => LogBounded'
<1> SUFFICES ASSUME LogBounded, LogInv, [LogNext]_logVars PROVE LogBounded' OBVIOUS
<1>1. CASE WriteRecord \/ RotateLog \/ TruncateLog BY <1>1, DiskBounded
<1>2. CASE \/ RunQuery \/ PauseLive \/ GoLive \/ TimerFires
           \/ \E q \in Queries : ChangeForm(q) \/ ChangeSource(q)
  BY <1>2, ControlsBounded
<1>3. ASSUME NEW r \in requests, ServeLog(r) PROVE LogBounded' BY <1>3, ServeLogBounded
<1>4. ASSUME NEW r \in requests, AnswerArrives(r) PROVE LogBounded' BY <1>4, AnswerArrivesBounded
<1>5. ASSUME NEW r \in requests, PollFails(r) PROVE LogBounded' BY <1>5, PollFailsBounded
<1>6. CASE UNCHANGED logVars
  <2>1. UNCHANGED disk /\ UNCHANGED <<cursor, live, pollTimer, rows, requests>>
    BY <1>6 DEF logVars, disk
  <2>2. \A r \in requests' : RequestTyped(r) BY <2>1 DEF LogBounded
  <2> QED BY <2>1, <2>2, PageBounded DEF LogBounded
<1> QED BY <1>1, <1>2, <1>3, <1>4, <1>5, <1>6 DEF LogNext

LEMMA LogTypes == LogBounded /\ LogInv => LogTypeOK
<1> SUFFICES ASSUME LogBounded, LogInv PROVE LogTypeOK OBVIOUS
<1> DEFINE Files_ == [id : FileIds, first : 1..(MaxRecords + 1), last : 0..MaxRecords]
<1>1. FilesInOrder /\ written \in 0..MaxRecords /\ Last \in 1..MaxFiles /\ Len(files) = Last
  BY LogAssumption, FilesOf DEF LogBounded, LogInv, FilesInOrder, Last
<1>2. files \in Seq(Files_)
  <2>1. files \in [1..Last -> LogFiles] /\ Len(files) \in Nat
    BY <1>1, LenProperties DEF FilesInOrder
  <2>2. ASSUME NEW i \in 1..Last PROVE files[i] \in Files_
    <3>1. files[i] \in LogFiles BY <2>1
    <3>2. files[i].id \in FileIds /\ files[i].first \in 1..MaxRecords + 1 /\ files[i].last \in 0..MaxRecords
      BY <1>1, FilesBounded DEF LogBounded
    <3> QED BY <3>1, <3>2 DEF LogFiles
  <2> HIDE DEF Files_
  <2>3. files \in [1..Len(files) -> Files_] BY <1>1, <2>1, <2>2
  <2> QED BY <2>1, <2>3
<1>3. \A r \in requests : /\ r.current \in BOOLEAN /\ r.query \in Queries /\ r.cursor \in Cursors
                          /\ r.answered \in BOOLEAN
  BY DEF LogBounded, RequestTyped
<1> QED BY <1>1, <1>2, <1>3 DEF LogTypeOK, LogBounded, LogInv, RowsOfQuery, KnownRows

\* The log keeps to its files, and a cursor points into them; the rows are records that were
\* written, and no more of them than the page keeps, however the log is rotated meanwhile.
THEOREM LogTypeCorrect == LogSpec => []LogTypeOK
<1> DEFINE Whole == LogInv /\ LogBounded
<1>1. LogInit => Whole BY LogInitially, LogBoundedInitially
<1>2. Whole /\ [LogNext]_logVars => Whole' BY LogKeeps, LogBoundedKept
<1>3. Whole => LogTypeOK BY LogTypes
<1> QED BY <1>1, <1>2, <1>3, PTL DEF LogSpec


(* The page of the Pacemaker clusters. *)

\* What is under way is under way for a cluster that is selected.
Here == selected # NoSelection
SomethingHere ==
    /\ loading => picked # NoSelection
    /\ refreshing # Nothing \/ followed # Nothing \/ asks # {} \/ dialog => Here
    /\ dialog => clicksLeft < MaxPageClicks

\* Each operation the page starts was one click: it is running or over, asked for, or
\* being confirmed.
SentAsks == {p \in asks : p.step = "sent"}
Tally(k) == task[k] + Cardinality(SentAsks) + clicksLeft + (IF dialog THEN 1 ELSE 0)
ClicksCount ==
    /\ IsFiniteSet(asks)
    /\ \A k \in PageClusters : Tally(k) <= MaxPageClicks + 1

PageInv == ClusterPageTypeOK /\ SomethingHere /\ ClicksCount /\ ControlsKept

LEMMA RefreshRecords ==
  ASSUME NEW k \in PageClusters, NEW t \in TaskIds
  PROVE  /\ [step |-> "history", cluster |-> k, task |-> t] \in Refreshes
         /\ [step |-> "status", cluster |-> k, task |-> t] \in Refreshes
BY DEF Refreshes

LEMMA NothingElse ==
  /\ 0 \in TaskIds /\ Nothing \notin Refreshes /\ Nothing \notin Follows
  /\ \A r \in Refreshes : r.step # "idle"
  /\ \A f \in Follows : f.step # "idle"
BY ClusterPageAssumption DEF Nothing, Refreshes, Follows, TaskIds

LEMMA SentFinite ==
  ASSUME PageInv
  PROVE  IsFiniteSet(asks) /\ IsFiniteSet(SentAsks) /\ Cardinality(SentAsks) \in Nat
<1>1. IsFiniteSet(asks) /\ SentAsks \in SUBSET asks BY DEF PageInv, ClicksCount, SentAsks
<1>2. IsFiniteSet(SentAsks) BY <1>1, FS_Subset
<1> QED BY <1>1, <1>2, FS_CardinalityType

\* What becomes of the number of requests that are not served yet.
LEMMA SentLess ==
  ASSUME PageInv, NEW p, asks' = asks \ {p}
  PROVE  IsFiniteSet(asks') /\ Cardinality(SentAsks') \in Nat /\ Cardinality(SentAsks') <= Cardinality(SentAsks)
<1>1. SentAsks' \in SUBSET SentAsks BY DEF SentAsks
<1>2. IsFiniteSet(asks') BY SentFinite, FS_RemoveElement
<1> QED BY <1>1, <1>2, SentFinite, FS_Subset, FS_CardinalityType

LEMMA SentMore ==
  ASSUME PageInv, NEW p, asks' = asks \cup {p}
  PROVE  IsFiniteSet(asks') /\ Cardinality(SentAsks') \in Nat /\ Cardinality(SentAsks') <= Cardinality(SentAsks) + 1
<1>1. SentAsks' \in SUBSET (SentAsks \cup {p}) BY DEF SentAsks
<1>2. /\ IsFiniteSet(asks') /\ IsFiniteSet(SentAsks \cup {p})
      /\ Cardinality(SentAsks \cup {p}) = IF p \in SentAsks THEN Cardinality(SentAsks) ELSE Cardinality(SentAsks) + 1
  BY SentFinite, FS_AddElement
<1>3. /\ Cardinality(SentAsks') <= Cardinality(SentAsks \cup {p}) /\ IsFiniteSet(SentAsks')
  BY <1>1, <1>2, FS_Subset
<1>4. Cardinality(SentAsks') \in Nat BY <1>3, FS_CardinalityType
<1> DEFINE a == Cardinality(SentAsks)
           b == Cardinality(SentAsks \cup {p})
           c == Cardinality(SentAsks')
<1>5. a \in Nat /\ c \in Nat /\ c <= b /\ (b = a \/ b = a + 1) BY <1>2, <1>3, <1>4, SentFinite
<1> HIDE DEF a, b, c
<1>6. c <= a + 1 BY <1>5
<1> QED BY <1>2, <1>4, <1>6 DEF a, c

LEMMA SentServed ==
  ASSUME PageInv, NEW p \in asks, p.step = "sent", NEW q, q.step # "sent",
         asks' = (asks \ {p}) \cup {q}
  PROVE  /\ IsFiniteSet(asks') /\ Cardinality(SentAsks') \in Nat
         /\ Cardinality(SentAsks') + 1 <= Cardinality(SentAsks)
<1>1. SentAsks' \in SUBSET (SentAsks \ {p}) /\ p \in SentAsks BY DEF SentAsks
<1>2. /\ IsFiniteSet(SentAsks \ {p}) /\ Cardinality(SentAsks \ {p}) = Cardinality(SentAsks) - 1
  BY <1>1, SentFinite, FS_RemoveElement
<1>3. IsFiniteSet(asks')
  <2>1. IsFiniteSet(asks \ {p}) BY SentFinite, FS_RemoveElement
  <2> QED BY <2>1, FS_AddElement
<1>4. Cardinality(SentAsks') <= Cardinality(SentAsks \ {p}) /\ IsFiniteSet(SentAsks')
  BY <1>1, <1>2, FS_Subset
<1>5. Cardinality(SentAsks') \in Nat BY <1>4, FS_CardinalityType
<1> DEFINE a == Cardinality(SentAsks)
           b == Cardinality(SentAsks \ {p})
           c == Cardinality(SentAsks')
<1>6. a \in Nat /\ c \in Nat /\ c <= b /\ b = a - 1 BY <1>2, <1>4, <1>5, SentFinite
<1> HIDE DEF a, b, c
<1>7. c + 1 <= a BY <1>6
<1> QED BY <1>3, <1>5, <1>7 DEF a, c

\* The count of an operation that nothing new was asked for.
LEMMA CountStays ==
  ASSUME PageInv, UNCHANGED task, clicksLeft' \in Nat, IsFiniteSet(asks'),
         Cardinality(SentAsks') \in Nat,
         Cardinality(SentAsks') + clicksLeft' + (IF dialog' THEN 1 ELSE 0)
            <= Cardinality(SentAsks) + clicksLeft + (IF dialog THEN 1 ELSE 0)
  PROVE  ClicksCount'
<1> SUFFICES ASSUME NEW k \in PageClusters PROVE Tally(k)' <= MaxPageClicks + 1 BY DEF ClicksCount
<1> DEFINE a == Cardinality(SentAsks)
           b == Cardinality(SentAsks')
           m == IF dialog THEN 1 ELSE 0
           n == IF dialog' THEN 1 ELSE 0
           t == task[k]
           c == clicksLeft
           d == clicksLeft'
<1>1. /\ a \in Nat /\ b \in Nat /\ m \in Nat /\ n \in Nat /\ t \in Nat /\ c \in Nat /\ d \in Nat
      /\ MaxPageClicks \in Nat
  BY SentFinite, ClusterPageAssumption DEF PageInv, ClusterPageTypeOK, TaskIds
<1>2. b + d + n <= a + c + m OBVIOUS
<1>3. t + a + c + m <= MaxPageClicks + 1 BY DEF PageInv, ClicksCount, Tally
<1>4. Tally(k)' = t + b + d + n BY DEF Tally
<1> HIDE DEF a, b, c, d, m, n, t
<1>5. t + b + d + n <= MaxPageClicks + 1 BY <1>1, <1>2, <1>3
<1> QED BY <1>4, <1>5

\* A step that neither asks nor serves.
LEMMA CountUntouched ==
  ASSUME PageInv, UNCHANGED <<task, asks, dialog>>,
         clicksLeft' \in Nat, clicksLeft' <= clicksLeft
  PROVE  ClicksCount'
<1>1. SentAsks' = SentAsks BY DEF SentAsks
<1> DEFINE a == Cardinality(SentAsks)
           m == IF dialog THEN 1 ELSE 0
           c == clicksLeft
           d == clicksLeft'
<1>2. a \in Nat /\ m \in Nat /\ c \in Nat /\ d \in Nat /\ d <= c
  BY SentFinite DEF PageInv, ClusterPageTypeOK
<1> HIDE DEF a, c, d, m
<1>3. a + d + m <= a + c + m BY <1>2
<1>4. /\ Cardinality(SentAsks') + clicksLeft' + (IF dialog' THEN 1 ELSE 0)
         <= Cardinality(SentAsks) + clicksLeft + (IF dialog THEN 1 ELSE 0)
  BY <1>1, <1>3 DEF a, c, d, m
<1> QED BY <1>1, <1>2, <1>4, SentFinite, CountStays DEF a-----------------------------------------------------------------------------
(* The list of the clusters and the refresh. *)

\* The bounds after a click, after a failed call, and after any other step.
LEMMA BudgetsTyped ==
  ASSUME PageInv, Clicked \/ Trouble \/ UNCHANGED budgets
  PROVE  /\ clicksLeft' \in 0..MaxPageClicks /\ troublesLeft' \in 0..MaxPageTroubles
         /\ clicksLeft' \in Nat /\ clicksLeft' <= clicksLeft
BY ClusterPageAssumption DEF PageInv, ClusterPageTypeOK, Clicked, Trouble, budgets

\* The steps that only use what is there: the types, the count.
LEMMA PageStep ==
  ASSUME PageInv, UNCHANGED <<task, asks, dialog>>, running' \subseteq running,
         Clicked \/ Trouble \/ UNCHANGED budgets,
         {picked', selected'} \subseteq PageClusters \cup {NoSelection}, loading' \in BOOLEAN,
         refreshing' \in Refreshes \cup {Nothing}, followed' \in Follows \cup {Nothing},
         selectorOn' \in BOOLEAN, refreshOn' \in BOOLEAN
  PROVE  ClusterPageTypeOK' /\ ClicksCount' /\ (dialog' => clicksLeft' < MaxPageClicks)
<1>1. ClusterPageTypeOK'
  BY BudgetsTyped DEF PageInv, ClusterPageTypeOK
<1>2. ClicksCount' BY BudgetsTyped, CountUntouched
<1>3. dialog' => clicksLeft' < MaxPageClicks
  <2>1. clicksLeft' \in Nat /\ clicksLeft' <= clicksLeft /\ clicksLeft \in Nat /\ MaxPageClicks \in Nat
    BY BudgetsTyped, ClusterPageAssumption DEF PageInv, ClusterPageTypeOK
  <2> QED BY <2>1 DEF PageInv, SomethingHere
<1> QED BY <1>1, <1>2, <1>3

LEMMA ConnectKeeps ==
  ASSUME PageInv, NEW k \in PageClusters, OpenPage(k)
  PROVE  PageInv'
<1>1. /\ picked' = k /\ loading' = TRUE /\ selectorOn' = FALSE /\ refreshOn' = FALSE
      /\ UNCHANGED <<serverVars, selected, refreshing, followed, dialog, asks, budgets>>
  BY DEF OpenPage, BeginLoad
<1>2. k # NoSelection BY ClusterPageAssumption
<1>3. ClusterPageTypeOK' /\ ClicksCount' /\ (dialog' => clicksLeft' < MaxPageClicks)
  BY <1>1, PageStep DEF PageInv, ClusterPageTypeOK, serverVars
<1>4. SomethingHere' BY <1>1, <1>2, <1>3 DEF PageInv, SomethingHere, Here
<1>5. ControlsKept' BY <1>1 DEF PageInv, ControlsKept
<1> QED BY <1>3, <1>4, <1>5 DEF PageInv

LEMMA ChooseClusterKeeps ==
  ASSUME PageInv, NEW k \in PageClusters, ChooseCluster(k)
  PROVE  PageInv'
<1>1. /\ picked' = k /\ loading' = TRUE /\ selectorOn' = FALSE /\ refreshOn' = FALSE /\ Clicked
      /\ UNCHANGED <<serverVars, selected, refreshing, followed, dialog, asks>>
  BY DEF ChooseCluster, BeginLoad
<1>2. k # NoSelection BY ClusterPageAssumption
<1>3. ClusterPageTypeOK' /\ ClicksCount' /\ (dialog' => clicksLeft' < MaxPageClicks)
  BY <1>1, PageStep DEF PageInv, ClusterPageTypeOK, serverVars
<1>4. SomethingHere' BY <1>1, <1>2, <1>3 DEF PageInv, SomethingHere, Here
<1>5. ControlsKept' BY <1>1 DEF PageInv, ControlsKept
<1> QED BY <1>3, <1>4, <1>5 DEF PageInv

LEMMA ArriveKeeps ==
  ASSUME PageInv, ClustersArrive
  PROVE  PageInv'
<1>1. picked \in PageClusters BY DEF ClustersArrive, PageInv, ClusterPageTypeOK, SomethingHere
<1>2. picked # NoSelection BY <1>1, ClusterPageAssumption
<1>3. /\ loading' = FALSE /\ selected' = picked
      /\ UNCHANGED <<serverVars, picked, followed, dialog, asks, budgets>>
      /\ \/ /\ refreshing' = [step |-> "history", cluster |-> picked, task |-> 0]
            /\ selectorOn' = FALSE /\ refreshOn' = FALSE
         \/ /\ refreshing # Nothing /\ UNCHANGED refreshing
            /\ selectorOn' = (followed = Nothing) /\ refreshOn' = TRUE
  BY DEF ClustersArrive, BeginRefresh
<1>4. [step |-> "history", cluster |-> picked, task |-> 0] \in Refreshes BY <1>1, NothingElse, RefreshRecords
<1>5. refreshing' # Nothing /\ refreshing' \in Refreshes \cup {Nothing}
  BY <1>3, <1>4, NothingElse DEF PageInv, ClusterPageTypeOK
<1>6. ClusterPageTypeOK' /\ ClicksCount' /\ (dialog' => clicksLeft' < MaxPageClicks)
  BY <1>1, <1>3, <1>5, PageStep DEF PageInv, ClusterPageTypeOK, serverVars
<1>7. SomethingHere' BY <1>2, <1>3, <1>6 DEF PageInv, SomethingHere, Here
<1>8. ControlsKept' BY <1>3, <1>5 DEF PageInv, ControlsKept
<1> QED BY <1>6, <1>7, <1>8 DEF PageInv

LEMMA ClustersFailKeeps ==
  ASSUME PageInv, ClustersFail
  PROVE  PageInv'
<1>1. /\ loading' = FALSE /\ Trouble
      /\ selectorOn' = (followed = Nothing /\ selected # NoSelection) /\ refreshOn' = TRUE
      /\ UNCHANGED <<serverVars, picked, selected, refreshing, followed, dialog, asks>>
  BY DEF ClustersFail
<1>2. ClusterPageTypeOK' /\ ClicksCount' /\ (dialog' => clicksLeft' < MaxPageClicks)
  BY <1>1, PageStep DEF PageInv, ClusterPageTypeOK, serverVars
<1>3. SomethingHere' BY <1>1, <1>2 DEF PageInv, SomethingHere, Here
<1>4. ControlsKept' BY <1>1 DEF PageInv, ControlsKept
<1> QED BY <1>2, <1>3, <1>4 DEF PageInv

LEMMA ReloadKeeps ==
  ASSUME PageInv, RefreshClicked
  PROVE  PageInv'
<1>1. /\ picked # NoSelection /\ Clicked /\ selectorOn' = FALSE /\ refreshOn' = FALSE
      /\ \/ picked' = picked /\ loading' = TRUE /\ UNCHANGED refreshing
         \/ /\ selected # NoSelection /\ UNCHANGED <<picked, loading>>
            /\ refreshing' = [step |-> "history", cluster |-> selected, task |-> 0]
      /\ UNCHANGED <<serverVars, selected, followed, dialog, asks>>
  BY DEF RefreshClicked, BeginLoad, BeginRefresh
<1>2. /\ refreshing' \in Refreshes \cup {Nothing}
      /\ loading' \/ refreshing' # Nothing
      /\ refreshing' # Nothing => refreshing # Nothing \/ Here
  <2>1. CASE picked' = picked /\ loading' = TRUE /\ UNCHANGED refreshing
    BY <2>1 DEF PageInv, ClusterPageTypeOK
  <2>2. CASE /\ selected # NoSelection
             /\ refreshing' = [step |-> "history", cluster |-> selected, task |-> 0]
    <3>1. selected \in PageClusters BY <2>2 DEF PageInv, ClusterPageTypeOK
    <3>2. refreshing' \in Refreshes BY <2>2, <3>1, NothingElse, RefreshRecords
    <3> QED BY <2>2, <3>2, NothingElse DEF Here
  <2> QED BY <1>1, <2>1, <2>2
<1>3. ClusterPageTypeOK' /\ ClicksCount' /\ (dialog' => clicksLeft' < MaxPageClicks)
  BY <1>1, <1>2, PageStep DEF PageInv, ClusterPageTypeOK, serverVars
<1>4. SomethingHere' BY <1>1, <1>2, <1>3 DEF PageInv, SomethingHere, Here
<1>5. ControlsKept' BY <1>1, <1>2 DEF PageInv, ControlsKept
<1> QED BY <1>3, <1>4, <1>5 DEF PageInv
\* A refresh that is under way is one of its records.
LEMMA UnderWay ==
  ASSUME PageInv, refreshing.step # "idle"
  PROVE  refreshing \in Refreshes /\ refreshing # Nothing /\ selected \in PageClusters /\ Here
<1>1. refreshing # Nothing BY DEF Nothing
<1> QED BY <1>1 DEF PageInv, ClusterPageTypeOK, SomethingHere, Here

LEMMA ServeHistoryKeeps ==
  ASSUME PageInv, ServeHistory
  PROVE  PageInv'
<1>1. refreshing.step = "history" BY DEF ServeHistory
<1>2. refreshing \in Refreshes /\ refreshing # Nothing BY <1>1, UnderWay
<1> DEFINE n == IF refreshing.cluster \in running THEN task[refreshing.cluster] ELSE 0
<1>3. /\ refreshing' = [refreshing EXCEPT !.step = "told", !.task = n]
      /\ UNCHANGED <<serverVars, picked, loading, selected, followed, dialog, asks, controls, budgets>>
  BY DEF ServeHistory
<1>4. n \in TaskIds
  <2>1. refreshing.cluster \in PageClusters BY <1>2 DEF Refreshes
  <2> QED BY <2>1, NothingElse DEF PageInv, ClusterPageTypeOK
<1> HIDE DEF n
<1>5. refreshing' \in Refreshes BY <1>2, <1>3, <1>4 DEF Refreshes
<1>6. refreshing' # Nothing BY <1>5, NothingElse
<1>7. ClusterPageTypeOK' /\ ClicksCount' /\ (dialog' => clicksLeft' < MaxPageClicks)
  BY <1>3, <1>5, PageStep DEF PageInv, ClusterPageTypeOK, serverVars, controls
<1>8. SomethingHere' BY <1>2, <1>3, <1>7 DEF PageInv, SomethingHere, Here
<1>9. ControlsKept' BY <1>2, <1>3, <1>6 DEF PageInv, ControlsKept, controls
<1> QED BY <1>7, <1>8, <1>9 DEF PageInv

LEMMA HistoryKeeps ==
  ASSUME PageInv, HistoryArrives
  PROVE  PageInv'
<1>1. refreshing.step = "told" BY DEF HistoryArrives
<1>2. refreshing \in Refreshes /\ refreshing # Nothing /\ selected \in PageClusters /\ Here
  BY <1>1, UnderWay
<1> DEFINE f == [step |-> "poll", at |-> selected, of |-> selected, task |-> refreshing.task,
                 refresh |-> FALSE]
<1>3. /\ refreshing' = [step |-> "status", cluster |-> selected, task |-> 0]
      /\ (followed' = f /\ selectorOn' = FALSE) \/ UNCHANGED <<followed, selectorOn>>
      /\ UNCHANGED <<serverVars, picked, loading, selected, dialog, asks, refreshOn, budgets>>
  BY DEF HistoryArrives
<1>4. f \in Follows
  <2>1. refreshing.task \in TaskIds BY <1>2 DEF Refreshes
  <2> QED BY <1>2, <2>1 DEF Follows
<1> HIDE DEF f
<1>5. refreshing' \in Refreshes /\ refreshing' # Nothing BY <1>2, <1>3, NothingElse, RefreshRecords
<1>6. followed' \in Follows \cup {Nothing} /\ selectorOn' \in BOOLEAN
  BY <1>3, <1>4 DEF PageInv, ClusterPageTypeOK
<1>7. ClusterPageTypeOK' /\ ClicksCount' /\ (dialog' => clicksLeft' < MaxPageClicks)
  BY <1>3, <1>5, <1>6, PageStep DEF PageInv, ClusterPageTypeOK, serverVars
<1>8. SomethingHere' BY <1>2, <1>3, <1>7 DEF PageInv, SomethingHere, Here
<1>9. ControlsKept' BY <1>3, <1>5 DEF PageInv, ControlsKept
<1> QED BY <1>7, <1>8, <1>9 DEF PageInv

LEMMA RefreshEnds ==
  ASSUME PageInv, StatusArrives \/ RefreshFails
  PROVE  PageInv'
<1>1. /\ refreshing' = Nothing /\ refreshOn' = TRUE /\ selectorOn' = (followed = Nothing)
      /\ Trouble \/ UNCHANGED budgets
      /\ UNCHANGED <<serverVars, picked, loading, selected, followed, dialog, asks>>
  BY DEF StatusArrives, RefreshFails, EndRefresh
<1>2. ClusterPageTypeOK' /\ ClicksCount' /\ (dialog' => clicksLeft' < MaxPageClicks)
  BY <1>1, PageStep DEF PageInv, ClusterPageTypeOK, serverVars
<1>3. SomethingHere' BY <1>1, <1>2 DEF PageInv, SomethingHere, Here
<1>4. ControlsKept' BY <1>1 DEF PageInv, ControlsKept
<1> QED BY <1>2, <1>3, <1>4 DEF PageInv

\* The end of an operation that was followed.
LEMMA EndFollowKeeps ==
  ASSUME PageInv, followed # Nothing, NEW b \in BOOLEAN, EndFollow(b),
         Trouble \/ UNCHANGED budgets,
         UNCHANGED <<serverVars, picked, loading, selected, dialog, asks>>
  PROVE  PageInv'
<1>1. /\ followed' = Nothing
      /\ \/ /\ refreshing' = [step |-> "history", cluster |-> selected, task |-> 0]
            /\ selectorOn' = FALSE /\ refreshOn' = FALSE
         \/ selectorOn' = TRUE /\ UNCHANGED <<refreshing, refreshOn>>
  BY DEF EndFollow, BeginRefresh
<1>2. Here /\ selected \in PageClusters BY DEF PageInv, SomethingHere, ClusterPageTypeOK, Here
<1>3. /\ refreshing' \in Refreshes \cup {Nothing}
      /\ \/ refreshing' # Nothing
         \/ selectorOn' = TRUE /\ UNCHANGED <<refreshing, refreshOn>>
  BY <1>1, <1>2, NothingElse, RefreshRecords DEF PageInv, ClusterPageTypeOK
<1>4. ClusterPageTypeOK' /\ ClicksCount' /\ (dialog' => clicksLeft' < MaxPageClicks)
  BY <1>1, <1>3, PageStep DEF PageInv, ClusterPageTypeOK, serverVars
<1>5. SomethingHere' BY <1>1, <1>2, <1>4 DEF PageInv, SomethingHere, Here
<1>6. ControlsKept' BY <1>1, <1>3 DEF PageInv, ControlsKept
<1> QED BY <1>4, <1>5, <1>6 DEF PageInv

LEMMA FollowKeeps ==
  ASSUME PageInv, FollowAnswered \/ FollowFails
  PROVE  PageInv'
<1>1. CASE FollowFails BY <1>1, EndFollowKeeps DEF FollowFails
<1>2. CASE FollowAnswered
  <2>1. followed # Nothing /\ UNCHANGED <<serverVars, picked, loading, selected, dialog, asks, budgets>>
    BY <1>2 DEF FollowAnswered
  <2>2. followed.refresh \in BOOLEAN
    <3>1. followed \in Follows BY <2>1 DEF PageInv, ClusterPageTypeOK
    <3> QED BY <3>1 DEF Follows
  <2>3. \E b \in BOOLEAN : EndFollow(b) BY <1>2, <2>2 DEF FollowAnswered
  <2> QED BY <2>1, <2>3, EndFollowKeeps
<1> QED BY <1>1, <1>2
-----------------------------------------------------------------------------
(* The operations the user asks for. *)

LEMMA ConfirmationKeeps ==
  ASSUME PageInv, AskConfirmation
  PROVE  PageInv'
<1>1. /\ selected # NoSelection /\ dialog' = TRUE /\ ~dialog /\ Clicked
      /\ UNCHANGED <<serverVars, picked, loading, selected, refreshing, followed, asks, controls>>
  BY DEF AskConfirmation, Clicked
<1>2. clicksLeft' \in Nat /\ clicksLeft' = clicksLeft - 1 /\ clicksLeft' < MaxPageClicks
  BY <1>1, BudgetsTyped, ClusterPageAssumption DEF Clicked, PageInv, ClusterPageTypeOK
<1>3. ClusterPageTypeOK' BY <1>1, BudgetsTyped DEF PageInv, ClusterPageTypeOK, serverVars, controls
<1>4. ClicksCount'
  <2>1. SentAsks' = SentAsks BY <1>1 DEF SentAsks
  <2> DEFINE a == Cardinality(SentAsks)
             c == clicksLeft
             d == clicksLeft'
  <2>2. a \in Nat /\ c \in Nat /\ d \in Nat /\ d = c - 1
    BY <1>2, SentFinite DEF PageInv, ClusterPageTypeOK
  <2> HIDE DEF a, c, d
  <2>3. a + d + 1 <= a + c + 0 BY <2>2
  <2>4. /\ Cardinality(SentAsks') + clicksLeft' + (IF dialog' THEN 1 ELSE 0)
           <= Cardinality(SentAsks) + clicksLeft + (IF dialog THEN 1 ELSE 0)
    BY <1>1, <2>1, <2>3 DEF a, c, d
  <2> QED BY <1>1, <1>2, <2>1, <2>4, SentFinite, CountStays DEF serverVars
<1>5. SomethingHere' BY <1>1, <1>2 DEF PageInv, SomethingHere, Here
<1>6. ControlsKept' BY <1>1 DEF PageInv, ControlsKept, controls
<1> QED BY <1>3, <1>4, <1>5, <1>6 DEF PageInv
LEMMA CancelledKeeps ==
  ASSUME PageInv, Cancelled
  PROVE  PageInv'
<1>1. /\ dialog /\ dialog' = FALSE
      /\ UNCHANGED <<serverVars, picked, loading, selected, refreshing, followed, asks, controls, budgets>>
  BY DEF Cancelled
<1>2. ClusterPageTypeOK' BY <1>1, BudgetsTyped DEF PageInv, ClusterPageTypeOK, serverVars, controls
<1>3. ClicksCount'
  <2>1. SentAsks' = SentAsks BY <1>1 DEF SentAsks
  <2> DEFINE a == Cardinality(SentAsks)
             c == clicksLeft
  <2>2. a \in Nat /\ c \in Nat BY SentFinite DEF PageInv, ClusterPageTypeOK
  <2> HIDE DEF a, c
  <2>3. a + c + 0 <= a + c + 1 BY <2>2
  <2>4. /\ Cardinality(SentAsks') + clicksLeft' + (IF dialog' THEN 1 ELSE 0)
           <= Cardinality(SentAsks) + clicksLeft + (IF dialog THEN 1 ELSE 0)
    BY <1>1, <2>1, <2>3 DEF a, c, budgets
  <2> QED BY <1>1, <2>1, <2>4, SentFinite, BudgetsTyped, CountStays DEF serverVars
<1>4. SomethingHere' BY <1>1 DEF PageInv, SomethingHere, Here
<1>5. ControlsKept' BY <1>1 DEF PageInv, ControlsKept, controls
<1> QED BY <1>2, <1>3, <1>4, <1>5 DEF PageInv

LEMMA ConfirmedKeeps ==
  ASSUME PageInv, Confirmed
  PROVE  PageInv'
<1> DEFINE q == [n |-> clicksLeft + 1, step |-> "sent", cluster |-> selected, task |-> 0]
<1>1. /\ dialog /\ dialog' = FALSE /\ asks' = asks \cup {q}
      /\ UNCHANGED <<serverVars, picked, loading, selected, refreshing, followed, controls, budgets>>
  BY DEF Confirmed
<1>2. Here /\ selected \in PageClusters /\ clicksLeft < MaxPageClicks
  BY <1>1 DEF PageInv, SomethingHere, ClusterPageTypeOK, Here
<1>3. q \in Asks
  <2>1. clicksLeft + 1 \in 1..MaxPageClicks
    BY <1>2, ClusterPageAssumption DEF PageInv, ClusterPageTypeOK
  <2> QED BY <1>2, <2>1, NothingElse DEF Asks
<1> HIDE DEF q
<1>4. ClusterPageTypeOK' BY <1>1, <1>3, BudgetsTyped DEF PageInv, ClusterPageTypeOK, serverVars, controls
<1>5. ClicksCount'
  <2>1. /\ IsFiniteSet(asks') /\ Cardinality(SentAsks') \in Nat
        /\ Cardinality(SentAsks') <= Cardinality(SentAsks) + 1
    BY <1>1, SentMore
  <2> DEFINE a == Cardinality(SentAsks)
             b == Cardinality(SentAsks')
             c == clicksLeft
  <2>2. a \in Nat /\ b \in Nat /\ c \in Nat /\ b <= a + 1
    BY <2>1, SentFinite DEF PageInv, ClusterPageTypeOK
  <2> HIDE DEF a, b, c
  <2>3. b + c + 0 <= a + c + 1 BY <2>2
  <2>4. /\ Cardinality(SentAsks') + clicksLeft' + (IF dialog' THEN 1 ELSE 0)
           <= Cardinality(SentAsks) + clicksLeft + (IF dialog THEN 1 ELSE 0)
    BY <1>1, <2>3 DEF a, b, c, budgets
  <2> QED BY <1>1, <2>1, <2>4, BudgetsTyped, CountStays DEF serverVars
<1>6. SomethingHere' BY <1>1, <1>2 DEF PageInv, SomethingHere, Here
<1>7. ControlsKept' BY <1>1 DEF PageInv, ControlsKept, controls
<1> QED BY <1>4, <1>5, <1>6, <1>7 DEF PageInv

\* The steps that answer or lose a request: nothing new is counted.
LEMMA AskStep ==
  ASSUME PageInv, NEW p \in asks, asks' = asks \ {p}, UNCHANGED <<serverVars, dialog>>,
         Trouble \/ UNCHANGED budgets
  PROVE  ClicksCount' /\ asks' \subseteq Asks
<1>1. /\ IsFiniteSet(asks') /\ Cardinality(SentAsks') \in Nat
      /\ Cardinality(SentAsks') <= Cardinality(SentAsks)
  BY SentLess
<1> DEFINE a == Cardinality(SentAsks)
           b == Cardinality(SentAsks')
           c == clicksLeft
           d == clicksLeft'
           m == IF dialog THEN 1 ELSE 0
<1>2. a \in Nat /\ b \in Nat /\ c \in Nat /\ d \in Nat /\ m \in Nat /\ b <= a /\ d <= c
  BY <1>1, SentFinite, BudgetsTyped DEF PageInv, ClusterPageTypeOK
<1> HIDE DEF a, b, c, d, m
<1>3. b + d + m <= a + c + m BY <1>2
<1>4. /\ Cardinality(SentAsks') + clicksLeft' + (IF dialog' THEN 1 ELSE 0)
         <= Cardinality(SentAsks) + clicksLeft + (IF dialog THEN 1 ELSE 0)
  BY <1>3 DEF a, b, c, d, m
<1>5. ClicksCount' BY <1>1, <1>4, BudgetsTyped, CountStays DEF serverVars
<1> QED BY <1>5 DEF PageInv, ClusterPageTypeOK

LEMMA AskFailsKeeps ==
  ASSUME PageInv, NEW p \in asks, AskFails(p)
  PROVE  PageInv'
<1>1. /\ asks' = asks \ {p} /\ Trouble
      /\ UNCHANGED <<serverVars, picked, loading, selected, refreshing, followed, dialog, controls>>
  BY DEF AskFails
<1>2. ClicksCount' /\ asks' \subseteq Asks BY <1>1, AskStep
<1>3. ClusterPageTypeOK' BY <1>1, <1>2, BudgetsTyped DEF PageInv, ClusterPageTypeOK, serverVars, controls
<1>4. SomethingHere' BY <1>1 DEF PageInv, SomethingHere, Here, Trouble
<1>5. ControlsKept' BY <1>1 DEF PageInv, ControlsKept, controls
<1> QED BY <1>2, <1>3, <1>4, <1>5 DEF PageInv

LEMMA AskAnsweredKeeps ==
  ASSUME PageInv, NEW p \in asks, AskAnswered(p)
  PROVE  PageInv'
<1> DEFINE f == [step |-> "poll", at |-> selected, of |-> p.cluster, task |-> p.task, refresh |-> TRUE]
<1>1. /\ asks' = asks \ {p}
      /\ \/ followed' = f /\ selectorOn' = FALSE
         \/ UNCHANGED <<followed, selectorOn>>
      /\ UNCHANGED <<serverVars, picked, loading, selected, refreshing, dialog, refreshOn, budgets>>
  BY DEF AskAnswered
<1>2. Here /\ selected \in PageClusters /\ p \in Asks
  BY DEF PageInv, SomethingHere, ClusterPageTypeOK, Here
<1>3. f \in Follows BY <1>2 DEF Follows, Asks
<1> HIDE DEF f
<1>4. ClicksCount' /\ asks' \subseteq Asks BY <1>1, AskStep
<1>5. ClusterPageTypeOK' BY <1>1, <1>3, <1>4, BudgetsTyped DEF PageInv, ClusterPageTypeOK, serverVars
<1>6. SomethingHere' BY <1>1, <1>2 DEF PageInv, SomethingHere, Here, budgets
<1>7. ControlsKept'
  <2>1. CASE followed' = f /\ selectorOn' = FALSE
    <3>1. followed' # Nothing BY <1>3, <2>1, NothingElse
    <3> QED BY <1>1, <2>1, <3>1 DEF PageInv, ControlsKept
  <2>2. CASE UNCHANGED <<followed, selectorOn>> BY <1>1, <2>2 DEF PageInv, ControlsKept
  <2> QED BY <1>1, <2>1, <2>2
<1> QED BY <1>4, <1>5, <1>6, <1>7 DEF PageInv

LEMMA ServeAskKeeps ==
  ASSUME PageInv, NEW p \in asks, ServeAsk(p)
  PROVE  PageInv'
<1>1. /\ p.step = "sent" /\ p \in Asks /\ p.cluster \in PageClusters
      /\ UNCHANGED <<picked, loading, selected, refreshing, followed, dialog, controls, budgets>>
  BY DEF ServeAsk, PageInv, ClusterPageTypeOK, Asks
<1> DEFINE k == p.cluster
           r == [p EXCEPT !.step = "refused"]
           q == [p EXCEPT !.step = "accepted", !.task = task[k] + 1]
<1>2. \/ asks' = (asks \ {p}) \cup {r} /\ UNCHANGED serverVars
      \/ /\ task' = [task EXCEPT ![k] = @ + 1] /\ running' = running \cup {k}
         /\ asks' = (asks \ {p}) \cup {q}
  <2>1. CASE k \in running BY <2>1 DEF ServeAsk
  <2>2. CASE k \notin running
    <3>1. /\ task' = [task EXCEPT ![k] = @ + 1] /\ running' = running \cup {k}
          /\ asks' = (asks \ {p}) \cup {[p EXCEPT !.step = "accepted", !.task = task'[k]]}
      BY <2>2 DEF ServeAsk
    <3>2. task'[k] = task[k] + 1 BY <1>1, <3>1 DEF PageInv, ClusterPageTypeOK
    <3> QED BY <3>1, <3>2
  <2> QED BY <2>1, <2>2
<1>3. r \in Asks /\ r.step = "refused" /\ q.step = "accepted" BY <1>1 DEF Asks
<1>4. task[k] + 1 \in TaskIds
  <2> DEFINE t == task[k]
             a == Cardinality(SentAsks)
             c == clicksLeft
             m == IF dialog THEN 1 ELSE 0
  <2>1. t \in Nat /\ a \in Nat /\ c \in Nat /\ m \in Nat /\ MaxPageClicks \in Nat
    BY <1>1, SentFinite, ClusterPageAssumption DEF PageInv, ClusterPageTypeOK, TaskIds
  <2>2. t + a + c + m <= MaxPageClicks + 1 BY <1>1 DEF PageInv, ClicksCount, Tally
  <2>3. a >= 1
    <3>1. p \in SentAsks BY <1>1 DEF SentAsks
    <3>2. a # 0 BY <3>1, SentFinite, FS_EmptySet
    <3> HIDE DEF a
    <3> QED BY <2>1, <3>2
  <2> HIDE DEF t, a, c, m
  <2>4. t + 1 \in 0..(MaxPageClicks + 1) BY <2>1, <2>2, <2>3
  <2> QED BY <2>4 DEF t, TaskIds
<1>5. q \in Asks BY <1>1, <1>4 DEF Asks
<1> HIDE DEF r, q
<1>6. /\ asks' \subseteq Asks /\ IsFiniteSet(asks') /\ Cardinality(SentAsks') \in Nat
      /\ Cardinality(SentAsks') + 1 <= Cardinality(SentAsks)
  BY <1>1, <1>2, <1>3, <1>5, SentServed DEF PageInv, ClusterPageTypeOK
<1>7. /\ task' \in [PageClusters -> TaskIds] /\ running' \subseteq PageClusters
      /\ \A c \in PageClusters : task'[c] = task[c] \/ task'[c] = task[c] + 1
  BY <1>1, <1>2, <1>4 DEF PageInv, ClusterPageTypeOK, serverVars
<1>8. ClusterPageTypeOK' BY <1>1, <1>6, <1>7, BudgetsTyped DEF PageInv, ClusterPageTypeOK, controls
<1>9. ClicksCount'
  <2> SUFFICES ASSUME NEW j \in PageClusters PROVE Tally(j)' <= MaxPageClicks + 1
    BY <1>6 DEF ClicksCount
  <2> DEFINE t == task[j]
             u == task'[j]
             a == Cardinality(SentAsks)
             b == Cardinality(SentAsks')
             c == clicksLeft
             m == IF dialog THEN 1 ELSE 0
  <2>1. /\ t \in Nat /\ (u = t \/ u = t + 1) /\ a \in Nat /\ b \in Nat /\ b + 1 <= a
        /\ c \in Nat /\ m \in Nat /\ MaxPageClicks \in Nat
    BY <1>6, <1>7, SentFinite, ClusterPageAssumption DEF PageInv, ClusterPageTypeOK, TaskIds
  <2>2. t + a + c + m <= MaxPageClicks + 1 BY DEF PageInv, ClicksCount, Tally
  <2>3. Tally(j)' = u + b + c + m BY <1>1 DEF Tally, budgets
  <2> HIDE DEF t, u, a, b, c, m
  <2>4. u + b + c + m <= MaxPageClicks + 1 BY <2>1, <2>2
  <2> QED BY <2>3, <2>4
<1>10. SomethingHere' BY <1>1 DEF PageInv, SomethingHere, Here, budgets
<1>11. ControlsKept' BY <1>1 DEF PageInv, ControlsKept, controls
<1> QED BY <1>8, <1>9, <1>10, <1>11 DEF PageInv

LEMMA TaskEndsKeeps ==
  ASSUME PageInv, NEW k \in PageClusters, TaskEnds(k)
  PROVE  PageInv'
<1>1. /\ running' = running \ {k}
      /\ UNCHANGED <<task, picked, loading, selected, refreshing, followed, dialog, asks, controls, budgets>>
  BY DEF TaskEnds
<1>2. ClusterPageTypeOK' /\ ClicksCount' /\ (dialog' => clicksLeft' < MaxPageClicks)
  BY <1>1, PageStep DEF PageInv, ClusterPageTypeOK, controls
<1>3. SomethingHere' BY <1>1, <1>2 DEF PageInv, SomethingHere, Here
<1>4. ControlsKept' BY <1>1 DEF PageInv, ControlsKept, controls
<1> QED BY <1>2, <1>3, <1>4 DEF PageInv
-----------------------------------------------------------------------------
LEMMA PageInitially == ClusterPageInit => PageInv
<1> SUFFICES ASSUME ClusterPageInit PROVE PageInv OBVIOUS
<1>1. /\ asks = {} /\ refreshing = Nothing /\ followed = Nothing /\ dialog = FALSE /\ loading = FALSE
      /\ selected = NoSelection /\ picked = NoSelection /\ selectorOn = FALSE /\ refreshOn = TRUE
      /\ clicksLeft = MaxPageClicks /\ troublesLeft = MaxPageTroubles
      /\ running \subseteq PageClusters
      /\ task = [k \in PageClusters |-> IF k \in running THEN 1 ELSE 0]
  BY DEF ClusterPageInit
<1>2. 0 \in TaskIds /\ 1 \in TaskIds BY ClusterPageAssumption DEF TaskIds
<1>3. ClusterPageTypeOK
  <2>1. task \in [PageClusters -> TaskIds] BY <1>1, <1>2
  <2>2. clicksLeft \in 0..MaxPageClicks /\ troublesLeft \in 0..MaxPageTroubles
    BY <1>1, ClusterPageAssumption
  <2> QED BY <1>1, <2>1, <2>2 DEF ClusterPageTypeOK
<1>4. SomethingHere BY <1>1 DEF SomethingHere
<1>5. ClicksCount
  <2>1. SentAsks = {} BY <1>1 DEF SentAsks
  <2>2. IsFiniteSet(asks) /\ Cardinality(SentAsks) = 0 BY <1>1, <2>1, FS_EmptySet
  <2>3. ASSUME NEW k \in PageClusters PROVE Tally(k) <= MaxPageClicks + 1
    <3>1. (task[k] = 0 \/ task[k] = 1) /\ (IF dialog THEN 1 ELSE 0) = 0 BY <1>1
    <3> QED BY <1>1, <2>2, <3>1, ClusterPageAssumption DEF Tally
  <2> QED BY <2>2, <2>3 DEF ClicksCount
<1>6. ControlsKept BY <1>1 DEF ControlsKept
<1> QED BY <1>3, <1>4, <1>5, <1>6 DEF PageInv

LEMMA PageKeeps == PageInv /\ [ClusterPageNext]_clusterPageVars => PageInv'
<1> SUFFICES ASSUME PageInv, [ClusterPageNext]_clusterPageVars PROVE PageInv' OBVIOUS
<1>1. CASE UNCHANGED clusterPageVars
  BY <1>1 DEF clusterPageVars, PageInv, ClusterPageTypeOK, SomethingHere, Here, ClicksCount,
              Tally, SentAsks, ControlsKept
<1>2. CASE ClusterPageNext
  BY <1>2, ConnectKeeps, ChooseClusterKeeps, ArriveKeeps, ClustersFailKeeps, ReloadKeeps,
     ServeHistoryKeeps, HistoryKeeps, RefreshEnds, ConfirmationKeeps, CancelledKeeps,
     ConfirmedKeeps, ServeAskKeeps, AskAnsweredKeeps, AskFailsKeeps, TaskEndsKeeps, FollowKeeps
     DEF ClusterPageNext
<1> QED BY <1>1, <1>2

\* The page of the Pacemaker clusters: the numbers of the operations stay within the clicks
\* that caused them, and every record has its type.
THEOREM ClusterPageTypeCorrect == ClusterPageSpec => []ClusterPageTypeOK
<1>1. PageInv => ClusterPageTypeOK BY DEF PageInv
<1> QED BY <1>1, PageInitially, PageKeeps, PTL DEF ClusterPageSpec

\* While an operation is followed the selector is disabled, and as soon as nothing is under
\* way both controls are usable, in whichever order the calls that share them end or fail.
THEOREM ControlsTrue == ClusterPageSpec => []ControlsKept
<1>1. PageInv => ControlsKept BY DEF PageInv
<1> QED BY <1>1, PageInitially, PageKeeps, PTL DEF ClusterPageSpec
=============================================================================
