-------------------------- MODULE CertificatePanel --------------------------
(* The certificates of a HAProxy server in the browser: the table, the       *)
(* operations it waits for, and the dialog in which a certificate is typed   *)
(* or read from a file, checked by the server and sent as an operation.      *)
(* Every answer may come after the user has moved on; a request whose answer *)
(* is lost is sent again.                                                    *)
EXTENDS Naturals, FiniteSets

CONSTANTS Hosts,       \* the servers one can choose
          Texts,       \* what can be typed or read from a file
          Valid,       \* the ones the server accepts
          Blank,       \* nothing typed, nothing checked
          MaxIds,      \* bound: operation ids generated
          MaxEdits,    \* bound: acts of the user
          MaxSends,    \* bound: requests sent
          MaxMisses    \* bound: calls or answers lost

ASSUME PanelAssumption ==
    /\ Hosts # {} /\ Valid \subseteq Texts /\ Blank \notin Texts
    /\ MaxIds \in Nat /\ MaxEdits \in Nat /\ MaxSends \in Nat /\ MaxMisses \in Nat

VARIABLES
    chosen,     \* the server chosen
    catalogue,  \* catalogue[h]: how often the certificates of h have changed
    operations, \* the operations on the servers
    table,      \* the table: of which server, of which catalogue; or NoTable
    listCall,   \* the list under way, or NoCall
    monitor,    \* the operations waited for: a timer, then a call
    dialogue,   \* the dialog: server, text, name edits, validPem, operationId
    check,      \* the preview under way, or NoCall
    reading,    \* files being read
    sending,    \* the request under way, or NoCall
    lastId,     \* ids generated
    panelLeft   \* what is left of each bound

panelVars == <<chosen, catalogue, operations, table, listCall, monitor, dialogue, check,
               reading, sending, lastId, panelLeft>>

NoCall     == [step |-> "none"]
NoTable    == [host |-> Blank]
Closed     == [open |-> FALSE]
OperationIds        == 1..MaxIds
\* An operation, with the state of the catalogue after it has ended, or 0.
Operations == [id : OperationIds, host : Hosts, text : Texts, name : 0..MaxEdits, ended : 0..MaxIds]
Active(op) == op.ended = 0
Dialogues  == [open : {TRUE}, host : Hosts, text : Texts \cup {Blank}, name : 0..MaxEdits,
               valid : Texts \cup {Blank}, id : 0..MaxIds]

PanelTypeOK ==
    /\ chosen \in Hosts /\ catalogue \in [Hosts -> Nat]
    /\ operations \subseteq Operations
    /\ table \in [host : Hosts, seen : Nat] \cup {NoTable}
    /\ listCall.step \in {"none", "sent", "read"}
    /\ monitor.step \in {"none", "timer", "sent"}
    /\ dialogue \in Dialogues \cup {Closed}
    /\ check.step \in {"none", "timer"}
    /\ reading \subseteq [current : BOOLEAN, text : Texts]
    /\ sending.step \in {"none", "sent", "done"}
    /\ lastId \in 0..MaxIds
    /\ panelLeft \in [edits : 0..MaxEdits, sends : 0..MaxSends, misses : 0..MaxMisses]

PanelInit ==
    /\ chosen = CHOOSE h \in Hosts : TRUE
    /\ catalogue = [h \in Hosts |-> 0] /\ operations = {}
    /\ table = NoTable
    /\ listCall = [step |-> "sent", host |-> chosen]
    /\ monitor = NoCall /\ dialogue = Closed /\ check = NoCall
    /\ reading = {} /\ sending = NoCall /\ lastId = 0
    /\ panelLeft = [edits |-> MaxEdits, sends |-> MaxSends, misses |-> MaxMisses]

Take(kind) == panelLeft[kind] > 0 /\ panelLeft' = [panelLeft EXCEPT ![kind] = @ - 1]
tableVars  == <<table, listCall, monitor>>
editVars   == <<dialogue, check, reading, sending, lastId>>
remoteVars == <<catalogue, operations>>

-----------------------------------------------------------------------------
(* The server. *)

OperationDone(op) ==
    /\ Active(op)
    /\ catalogue' = [catalogue EXCEPT ![op.host] = @ + 1]
    /\ operations' = (operations \ {op}) \cup {[op EXCEPT !.ended = catalogue'[op.host]]}
    /\ UNCHANGED <<chosen, panelLeft, tableVars, editVars>>

\* enqueue: an id that is known answers with its operation, or is refused when
\* it is that of another request.
ServeSend ==
    /\ sending.step = "sent"
    /\ IF \E op \in operations : op.id = sending.op.id
       THEN UNCHANGED operations
       ELSE operations' = operations \cup {sending.op}
    /\ sending' = [sending EXCEPT !.step = "done"]
    /\ UNCHANGED <<chosen, catalogue, panelLeft, tableVars, dialogue, check, reading, lastId>>

-----------------------------------------------------------------------------
(* load and monitorOperations *)

\* load: the table is empty until the answer; a monitor of before is stale.
LoadTable(h) ==
    /\ table' = NoTable
    /\ listCall' = [step |-> "sent", host |-> h]
    /\ monitor' = IF monitor.step = "sent" THEN [monitor EXCEPT !.current = FALSE] ELSE NoCall

SelectServer(h) ==
    /\ ~dialogue.open /\ h # chosen /\ Take("edits")
    /\ chosen' = h
    /\ LoadTable(h)
    /\ UNCHANGED <<remoteVars, editVars>>

ServeList_ ==
    /\ listCall.step = "sent"
    /\ listCall' = [step |-> "read", host |-> listCall.host, seen |-> catalogue[listCall.host],
                    pending |-> {op.id : op \in {x \in operations : Active(x) /\ x.host = listCall.host}}]
    /\ UNCHANGED <<chosen, remoteVars, table, monitor, editVars, panelLeft>>

\* preview: what was valid is not any more, until the server has answered.
Recheck(d) ==
    /\ dialogue' = [d EXCEPT !.valid = Blank, !.id = 0]
    /\ check' = IF d.text = Blank THEN NoCall
                ELSE [step |-> "timer", host |-> d.host, text |-> d.text]

\* The rows appear, the operations not ended yet are waited for, and a dialog
\* that is open has its certificate checked again.
ListShown ==
    /\ listCall.step = "read" /\ listCall' = NoCall
    /\ table' = [host |-> listCall.host, seen |-> listCall.seen]
    /\ monitor' = IF listCall.pending = {} THEN monitor
                  ELSE [step |-> "timer", ids |-> listCall.pending]
    /\ IF dialogue.open /\ sending = NoCall THEN Recheck(dialogue) ELSE UNCHANGED <<dialogue, check>>
    /\ UNCHANGED <<chosen, remoteVars, reading, sending, lastId, panelLeft>>

ListLost ==
    /\ listCall # NoCall /\ listCall' = NoCall /\ Take("misses")
    /\ UNCHANGED <<chosen, remoteVars, table, monitor, editVars>>

MonitorTimer ==
    /\ monitor.step = "timer"
    /\ monitor' = [step |-> "sent", ids |-> monitor.ids, current |-> TRUE]
    /\ UNCHANGED <<chosen, remoteVars, table, listCall, editVars, panelLeft>>

StillActive == {op.id : op \in {x \in operations : Active(x)}}

\* Mutant: the table is not loaded when the last operation has ended.
MonitorAnsweredOnly ==
    /\ monitor.step = "sent"
    /\ IF monitor.current /\ monitor.ids \cap StillActive # {}
       THEN monitor' = [step |-> "timer", ids |-> monitor.ids \cap StillActive]
       ELSE monitor' = NoCall
    /\ UNCHANGED <<chosen, remoteVars, table, listCall, editVars, panelLeft>>

\* Once all of them have ended the table is loaded again.
MonitorAnswered ==
    /\ monitor.step = "sent"
    /\ IF ~monitor.current THEN monitor' = NoCall /\ UNCHANGED <<table, listCall>>
       ELSE IF monitor.ids \cap StillActive # {}
       THEN monitor' = [step |-> "timer", ids |-> monitor.ids \cap StillActive] /\ UNCHANGED <<table, listCall>>
       ELSE monitor' = NoCall /\ table' = NoTable /\ listCall' = [step |-> "sent", host |-> chosen]
    /\ UNCHANGED <<chosen, remoteVars, editVars, panelLeft>>

\* One failed poll ends the waiting.
MonitorLost ==
    /\ monitor.step = "sent" /\ monitor' = NoCall /\ Take("misses")
    /\ UNCHANGED <<chosen, remoteVars, table, listCall, editVars>>

-----------------------------------------------------------------------------
(* The dialog. *)

FilesDropped == {[r EXCEPT !.current = FALSE] : r \in reading}

OpenDialog ==
    /\ ~dialogue.open /\ table # NoTable
    /\ dialogue' = [open |-> TRUE, host |-> chosen, text |-> Blank, name |-> 0, valid |-> Blank, id |-> 0]
    /\ check' = NoCall
    /\ UNCHANGED <<chosen, remoteVars, tableVars, reading, sending, lastId, panelLeft>>

CloseDialog ==
    /\ dialogue.open /\ sending = NoCall /\ Take("edits")
    /\ dialogue' = Closed /\ check' = NoCall /\ reading' = FilesDropped
    /\ UNCHANGED <<chosen, remoteVars, tableVars, sending, lastId>>

TypeText(t) ==
    /\ dialogue.open /\ sending = NoCall /\ t # dialogue.text /\ Take("edits")
    /\ Recheck([dialogue EXCEPT !.text = t])
    /\ reading' = FilesDropped
    /\ UNCHANGED <<chosen, remoteVars, tableVars, sending, lastId>>

\* A file is chosen; its contents arrive later.
ChooseFile(t) ==
    /\ dialogue.open /\ sending = NoCall /\ Take("edits")
    /\ dialogue' = [dialogue EXCEPT !.valid = Blank, !.id = 0]
    /\ check' = NoCall
    /\ reading' = FilesDropped \cup {[current |-> TRUE, text |-> t]}
    /\ UNCHANGED <<chosen, remoteVars, tableVars, sending, lastId>>

\* Mutant: a file counts whenever its contents come.
FileReadLate(r) ==
    /\ reading' = reading \ {r}
    /\ IF dialogue.open THEN Recheck([dialogue EXCEPT !.text = r.text]) ELSE UNCHANGED <<dialogue, check>>
    /\ UNCHANGED <<chosen, remoteVars, tableVars, sending, lastId, panelLeft>>

FileRead(r) ==
    /\ reading' = reading \ {r}
    /\ IF r.current THEN Recheck([dialogue EXCEPT !.text = r.text]) ELSE UNCHANGED <<dialogue, check>>
    /\ UNCHANGED <<chosen, remoteVars, tableVars, sending, lastId, panelLeft>>

\* The name or the destination: another request gets another id.
EditName ==
    /\ dialogue.open /\ sending = NoCall /\ lastId < MaxIds /\ Take("edits")
    /\ lastId' = lastId + 1
    /\ dialogue' = [dialogue EXCEPT !.name = @ + 1, !.id = lastId + 1]
    /\ UNCHANGED <<chosen, remoteVars, tableVars, check, reading, sending>>

CheckAnswered ==
    /\ check # NoCall /\ check' = NoCall
    /\ \/ /\ check.text \in Valid /\ lastId < MaxIds
          /\ lastId' = lastId + 1
          /\ dialogue' = [dialogue EXCEPT !.valid = check.text, !.id = lastId + 1]
          /\ UNCHANGED panelLeft
       \/ /\ check.text \notin Valid \/ lastId = MaxIds
          /\ UNCHANGED <<dialogue, lastId, panelLeft>>
       \/ Take("misses") /\ UNCHANGED <<dialogue, lastId>>
    /\ UNCHANGED <<chosen, remoteVars, tableVars, reading, sending>>

\* submit, also after a failure of the same request.
SendUpdate ==
    /\ dialogue.open /\ sending = NoCall /\ Take("sends")
    /\ dialogue.valid # Blank /\ dialogue.valid = dialogue.text
    /\ sending' = [step |-> "sent",
                   op |-> [id |-> dialogue.id, host |-> dialogue.host, text |-> dialogue.valid,
                           name |-> dialogue.name, ended |-> 0]]
    /\ UNCHANGED <<chosen, remoteVars, tableVars, dialogue, check, reading, lastId>>

SendAnswered ==
    /\ sending.step = "done" /\ sending' = NoCall
    /\ dialogue' = Closed /\ check' = NoCall /\ reading' = FilesDropped
    /\ LoadTable(chosen)
    /\ UNCHANGED <<chosen, remoteVars, lastId, panelLeft>>

\* The call or its answer is lost: the dialog stays as it is.
SendLost ==
    /\ sending # NoCall /\ sending' = NoCall /\ Take("misses")
    /\ UNCHANGED <<chosen, remoteVars, tableVars, dialogue, check, reading, lastId>>

PanelNext ==
    \/ \E op \in operations : OperationDone(op)
    \/ ServeSend
    \/ \E h \in Hosts : SelectServer(h)
    \/ ServeList_
    \/ ListShown
    \/ ListLost
    \/ MonitorTimer
    \/ MonitorAnswered
    \/ MonitorLost
    \/ OpenDialog
    \/ CloseDialog
    \/ \E t \in Texts : TypeText(t)
    \/ \E t \in Texts : ChooseFile(t)
    \/ \E r \in reading : FileRead(r)
    \/ EditName
    \/ CheckAnswered
    \/ SendUpdate
    \/ SendAnswered
    \/ SendLost

PanelSpec == PanelInit /\ [][PanelNext]_panelVars
PanelFairness ==
    /\ WF_panelVars(ServeList_) /\ WF_panelVars(ListShown)
    /\ WF_panelVars(MonitorTimer) /\ WF_panelVars(MonitorAnswered)
    /\ WF_panelVars(\E op \in operations : OperationDone(op))
PanelFairSpec == PanelSpec /\ PanelFairness

-----------------------------------------------------------------------------
(* Properties. *)

\* The certificate the page holds to be checked is the one in the field,
\* whichever answer, file or reload came in between.
CheckedIsShown ==
    dialogue.open /\ dialogue.valid # Blank => dialogue.valid = dialogue.text /\ dialogue.id # 0

\* An id stands for one request: the server never has to refuse a retry, and a
\* request sent again after a lost answer is no second operation.
IdNamesRequest ==
    /\ sending # NoCall => \A op \in operations :
          op.id = sending.op.id => op = [sending.op EXCEPT !.ended = op.ended]
    /\ \A a, b \in operations : a.id = b.id => a = b

\* A file that is read slowly never replaces what was typed after it was chosen,
\* nor appears in a dialog opened later.
LateFileDropped ==
    [][\A r \in reading \ reading' : ~r.current => dialogue' = dialogue]_panelVars
TypedTextKept ==
    [][dialogue'.open /\ dialogue.open /\ dialogue'.text # dialogue.text
          => dialogue'.valid = Blank /\ Cardinality({r \in reading' : r.current}) = 0]_panelVars

\* The field holds what the user typed or chose last: neither rule is broken.
FieldIsTheUsers == LateFileDropped /\ TypedTextKept

\* The table is that of the chosen server.
TableOfChosen == table # NoTable => table.host = chosen

\* What the page sends is what was checked and shown, once, and what it shows
\* is of the chosen server.
RequestsTrue == CheckedIsShown /\ IdNamesRequest /\ TableOfChosen

\* What is sent is what the user has typed or chosen, saw checked, and meant.
SentAsMeant == []RequestsTrue /\ FieldIsTheUsers

\* An operation the page waits for brings its certificate to the table, however
\* many lists were read before it ended or are read again meanwhile, unless a
\* call was lost or the user has chosen another server.
Awaited(k) == monitor # NoCall /\ k \in monitor.ids /\ (monitor.step = "sent" => monitor.current)
OperationReachesTable ==
    \A k \in OperationIds :
        Awaited(k) ~>
            \/ panelLeft.misses < MaxMisses
            \/ \E op \in operations :
                  /\ op.id = k
                  /\ \/ op.host # chosen
                     \/ table # NoTable /\ ~Active(op) /\ table.seen >= op.ended
=============================================================================
