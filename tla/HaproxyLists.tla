---------------------------- MODULE HaproxyLists ----------------------------
(* The editor of a managed HAProxy address list: several pages (and callers *)
(* of the older API) read the list with a revision, and a change is applied *)
(* node by node under a lock that does not wait.  A list exists in three    *)
(* places: the catalogue of the group, a file on every node, and the ACL a  *)
(* running HAProxy loaded from that file.  Administrators of the nodes edit *)
(* files and ACLs and reload HAProxy at any time.                           *)
EXTENDS Naturals, FiniteSets

CONSTANTS Pages,        \* browser pages with the editor
          Contents,     \* contents a list can have
          Empty,        \* the content of a list created without entries
          Absent,       \* the list, its file or its ACL does not exist
          NoPage,       \* a request of the older API
          NodeCount,            \* number of nodes: the selected one and its replicas
          MaxPid,       \* bound: processes of HAProxy on a node
          MaxEdits,   \* bound: edits by administrators
          MaxChanges,   \* bound: change requests
          MaxListFaults     \* bound: failed remote calls, lost answers, crashes

ASSUME ListsAssumption ==
    /\ Empty \in Contents /\ Absent \notin Contents
    /\ NoPage \notin Pages
    /\ NodeCount \in Nat \ {0} /\ MaxPid \in Nat \ {0}
    /\ MaxEdits \in Nat /\ MaxChanges \in Nat /\ MaxListFaults \in Nat

Nodes == 1..NodeCount
Lists == Contents \cup {Absent}

VARIABLES
    catalog,   \* the list in the group's catalogue
    file,      \* file[n]: the list's file on node n
    acl,       \* acl[n]: the ACL loaded by the running HAProxy
    pid,       \* pid[n]: the running HAProxy process
    used,      \* used[n]: the configuration on the node refers to the list
    page,      \* page[p]: the editor of a page
    req,       \* the change being applied, under the lock; or NoReq
    left       \* what is left of each bound

listVars == <<catalog, file, acl, pid, used, page, req, left>>

\* What the revision of a list is the hash of, with what it hashes.
Snapshots == [catalog : Lists, file : [Nodes -> Lists], acl : [Nodes -> Lists],
              pid : [Nodes -> 1..MaxPid], used : [Nodes -> BOOLEAN]]
Revision == [catalog |-> catalog, file |-> file, acl |-> acl, pid |-> pid, used |-> used]
NoSnap == [catalog |-> NoPage]
NoReq  == [step |-> "none"]

FileStates    == {"pending", "unknown", "saved", "restored"}
RuntimeStates == {"pending", "unknown", "failed", "applied", "unused"}
Requests == [page : Pages \cup {NoPage}, op : {"save", "delete"}, content : Lists,
             mode : {"runtime", "reload"}, snap : Snapshots,
             step : {"check", "refresh", "write", "commit", "restore", "verify", "apply", "catalog"},
             node : Nodes, version : [Nodes -> 0..MaxPid],
             file : [Nodes -> FileStates], runtime : [Nodes -> RuntimeStates],
             disturbed : SUBSET Nodes]
\* An editor without a revision is closed or writes a new list.
Editors == [mode : {"closed", "editing"}, snap : {NoSnap}]
           \cup [mode : {"editing", "creating", "removing", "sending", "refetch"},
                 snap : Snapshots]
Remaining == [foreign : 0..MaxEdits, changes : 0..MaxChanges, faults : 0..MaxListFaults]

ListTypeOK ==
    /\ catalog \in Lists /\ file \in [Nodes -> Lists] /\ acl \in [Nodes -> Lists]
    /\ pid \in [Nodes -> 1..MaxPid] /\ used \in [Nodes -> BOOLEAN]
    /\ page \in [Pages -> Editors]
    /\ req \in Requests \cup {NoReq}
    /\ left \in Remaining

\* The list is in use on node 1 and known to every node, or does not exist yet.
ListInit ==
    /\ \E c \in Lists :
          /\ catalog = c
          /\ file = [n \in Nodes |-> c]
          /\ used = [n \in Nodes |-> n = 1 /\ c # Absent]
          /\ acl = [n \in Nodes |-> IF n = 1 THEN c ELSE Absent]
    /\ pid = [n \in Nodes |-> 1]
    /\ page = [p \in Pages |-> [mode |-> "closed", snap |-> NoSnap]]
    /\ req = NoReq
    /\ left = [foreign |-> MaxEdits, changes |-> MaxChanges, faults |-> MaxListFaults]

Exists == catalog # Absent \/ \E n \in Nodes : file[n] # Absent \/ acl[n] # Absent

Spend(kind) == left[kind] > 0 /\ left' = [left EXCEPT ![kind] = @ - 1]
Show(p, mode, snap) == page' = [page EXCEPT ![p] = [mode |-> mode, snap |-> snap]]

-----------------------------------------------------------------------------
(* The page. *)

\* openEditor: an existing list is shown with its revision, a new one has none.
OpenEditor(p) ==
    /\ page[p].mode = "closed"
    /\ \/ Exists /\ Show(p, "editing", Revision)
       \/ Show(p, "editing", NoSnap)
    /\ UNCHANGED <<catalog, file, acl, pid, used, req, left>>

CloseEditor(p) ==
    /\ page[p].mode = "editing"
    /\ Show(p, "closed", NoSnap)
    /\ UNCHANGED <<catalog, file, acl, pid, used, req, left>>

\* save, for a list the page has no revision of: it must not exist anywhere.
CheckNew(p) ==
    /\ page[p].mode = "editing" /\ page[p].snap = NoSnap
    /\ ~Exists
    /\ Show(p, "creating", Revision)
    /\ UNCHANGED <<catalog, file, acl, pid, used, req, left>>

\* reloadState, and the read that follows a successful save.
Refetch(p) ==
    /\ \/ page[p].mode = "refetch"
       \/ page[p].mode = "editing" /\ page[p].snap # NoSnap
    /\ Show(p, "editing", Revision)
    /\ UNCHANGED <<catalog, file, acl, pid, used, req, left>>

\* remove: the revision is read when the user has confirmed.
ConfirmRemove(p) ==
    /\ page[p].mode = "closed" /\ Exists
    /\ Show(p, "removing", Revision)
    /\ UNCHANGED <<catalog, file, acl, pid, used, req, left>>

NewRequest(p, op, c, mode, snap) ==
    [page |-> p, op |-> op, content |-> c, mode |-> mode, snap |-> snap,
     step |-> "check", node |-> 1, version |-> [n \in Nodes |-> 0],
     file |-> [n \in Nodes |-> "pending"], runtime |-> [n \in Nodes |-> "pending"],
     disturbed |-> {}]

\* The PUT of a page.  While another change holds the lock the answer is
\* "busy" and the page goes on editing, which changes nothing.
SendSave(p) ==
    /\ page[p].mode \in {"editing", "creating"} /\ page[p].snap # NoSnap
    /\ req = NoReq
    /\ \E c \in Contents : req' = NewRequest(p, "save", c, "runtime", page[p].snap)
    /\ Show(p, "sending", page[p].snap)
    /\ Spend("changes")
    /\ UNCHANGED <<catalog, file, acl, pid, used>>

SendRemove(p) ==
    /\ page[p].mode = "removing"
    /\ req = NoReq
    /\ req' = NewRequest(p, "delete", Absent, "runtime", page[p].snap)
    /\ Spend("changes")
    /\ UNCHANGED <<catalog, file, acl, pid, used, page>>

\* save_bwlist and delete_bwlist read the revision themselves.
LegacyChange ==
    /\ req = NoReq
    /\ \/ \E c \in Contents, mode \in {"runtime", "reload"} :
             req' = NewRequest(NoPage, "save", c, mode, Revision)
       \/ req' = NewRequest(NoPage, "delete", Absent, "runtime", Revision)
    /\ Spend("changes")
    /\ UNCHANGED <<catalog, file, acl, pid, used, page>>

\* create_bwlist: an empty list in the catalogue, under the same lock.
CreateEmpty ==
    /\ req = NoReq /\ catalog = Absent
    /\ catalog' = Empty
    /\ Spend("changes")
    /\ UNCHANGED <<file, acl, pid, used, page, req>>

-----------------------------------------------------------------------------
(* The change, step by step under the lock. *)

\* The request ends and its page learns of it; an answer that is lost is a
\* failure to the page, whatever it said.
AnswerPage(ok) ==
    IF req.page = NoPage THEN page' = page
    ELSE IF req.op = "delete" THEN Show(req.page, "closed", NoSnap)
    ELSE Show(req.page, IF ok THEN "refetch" ELSE "editing", req.snap)
End(ok) == req' = NoReq /\ AnswerPage(ok)
GoTo(step) == req' = [req EXCEPT !.step = step] /\ UNCHANGED page

InUse == \E n \in Nodes : used[n] \/ acl[n] # Absent
NeedsReload == \E n \in Nodes : used[n] /\ acl[n] = Absent
CheckRevision ==
    /\ req.step = "check"
    /\ IF \/ Revision # req.snap
          \/ req.op = "delete" /\ InUse
          \/ req.op = "save" /\ req.mode = "runtime" /\ NeedsReload
       THEN End(FALSE)
       ELSE /\ req' = [req EXCEPT !.step = "refresh",
                         !.version = [n \in Nodes |->
                             IF req.op = "save" /\ req.mode = "runtime" /\ acl[n] # Absent THEN pid[n] ELSE 0]]
            /\ UNCHANGED page
    /\ UNCHANGED <<catalog, file, acl, pid, used, left>>

\* "Preparing versions must not mask a reload or concurrent external ACL edit."
RefreshRevision ==
    /\ req.step = "refresh"
    /\ IF Revision # req.snap THEN End(FALSE) ELSE GoTo("write")
    /\ UNCHANGED <<catalog, file, acl, pid, used, left>>

\* Mutant: the last node is not recognised.
AdvancePast(r) == [r EXCEPT !.node = @ + 1, !.step = "write"]

Advance(r) == IF r.node < NodeCount THEN [r EXCEPT !.node = @ + 1, !.step = "write"]
                            ELSE [r EXCEPT !.step = "catalog"]

\* Mutant: the content is not compared again under the lock of the node.
ExpectedUse(n, content) == used[n] = req.snap.used[n]

\* change_file compares the file and the configuration under the remote lock.
Expected(n, content) == file[n] = content /\ used[n] = req.snap.used[n]
WriteFile ==
    /\ req.step = "write"
    /\ LET n == req.node
           written == [req EXCEPT !.file[n] = "saved"] IN
       \/ /\ Expected(n, req.snap.file[n])
          /\ file' = [file EXCEPT ![n] = req.content]
          /\ req' = IF req.version[n] # 0 THEN [written EXCEPT !.step = "commit"]
                    ELSE IF req.mode = "reload" THEN [written EXCEPT !.step = "apply"]
                    ELSE Advance([written EXCEPT !.runtime[n] = "unused"])
          /\ UNCHANGED page
       \/ /\ ~Expected(n, req.snap.file[n])
          /\ End(FALSE)
          /\ UNCHANGED file
    /\ UNCHANGED <<catalog, acl, pid, used, left>>

\* Mutant: the answer of HAProxy to the commit is not looked at.
CommitAclTrusting ==
    /\ req.step = "commit"
    /\ LET n == req.node IN
       \/ /\ pid[n] = req.version[n]
          /\ acl' = [acl EXCEPT ![n] = req.content]
          /\ UNCHANGED left
       \/ /\ Spend("faults")
          /\ UNCHANGED acl
    /\ req' = Advance([req EXCEPT !.runtime[req.node] = "applied"])
    /\ UNCHANGED <<catalog, file, pid, used, page>>

\* A prepared version lives in the process that prepared it.  HAProxy may also
\* refuse: then the file is to be restored.
CommitAcl ==
    /\ req.step = "commit"
    /\ LET n == req.node IN
       \/ /\ pid[n] = req.version[n]
          /\ acl' = [acl EXCEPT ![n] = req.content]
          /\ GoTo("verify")
          /\ UNCHANGED left
       \/ /\ \/ pid[n] # req.version[n] /\ UNCHANGED left
             \/ Spend("faults")
          /\ req' = [req EXCEPT !.step = "restore", !.file[n] = "unknown", !.runtime[n] = "failed"]
          /\ UNCHANGED <<acl, page>>
    /\ UNCHANGED <<catalog, file, pid, used>>

\* The request has failed whether or not the file could be put back.
RestoreFile ==
    /\ req.step = "restore"
    /\ LET n == req.node IN
       file' = IF Expected(n, req.content) THEN [file EXCEPT ![n] = req.snap.file[n]] ELSE file
    /\ End(FALSE)
    /\ UNCHANGED <<catalog, acl, pid, used, left>>

VerifyAcl ==
    /\ req.step = "verify"
    /\ LET n == req.node IN
       IF pid[n] = req.snap.pid[n] /\ acl[n] = req.content
       THEN req' = Advance([req EXCEPT !.runtime[n] = "applied"]) /\ UNCHANGED page
       ELSE End(FALSE)
    /\ UNCHANGED <<catalog, file, acl, pid, used, left>>

\* HAProxy starts with the configuration and the files of that moment.
Restarted(n) == /\ pid[n] < MaxPid
                /\ used[n] => file[n] # Absent
                /\ pid' = [pid EXCEPT ![n] = @ + 1]
                /\ acl' = [acl EXCEPT ![n] = IF used[n] THEN file[n] ELSE Absent]

ApplyReload ==
    /\ req.step = "apply"
    /\ Restarted(req.node)
    /\ req' = Advance([req EXCEPT !.runtime[req.node] = "applied"])
    /\ UNCHANGED <<catalog, file, used, page, left>>

WriteCatalog ==
    /\ req.step = "catalog"
    /\ catalog' = req.content
    /\ \/ End(TRUE) /\ UNCHANGED left
       \/ End(FALSE) /\ Spend("faults")      \* the answer is lost
    /\ UNCHANGED <<file, acl, pid, used>>

\* A remote call, the catalogue or the worker itself fails: what the step did
\* on the node is done or not done, nothing after it happens.
ChangeFails ==
    /\ req # NoReq
    /\ Spend("faults")
    /\ LET n == req.node IN
       \/ UNCHANGED <<file, acl>>
       \/ /\ req.step = "write" /\ Expected(n, req.snap.file[n])
          /\ file' = [file EXCEPT ![n] = req.content]
          /\ UNCHANGED acl
       \/ /\ req.step = "commit" /\ pid[n] = req.version[n]
          /\ acl' = [acl EXCEPT ![n] = req.content]
          /\ UNCHANGED file
    /\ End(FALSE)
    /\ UNCHANGED <<catalog, pid, used>>

-----------------------------------------------------------------------------
(* The administrators of the nodes. *)

Disturb(n) ==
    /\ Spend("foreign")
    /\ req' = IF req = NoReq THEN req ELSE [req EXCEPT !.disturbed = @ \cup {n}]
    /\ UNCHANGED <<catalog, page>>

EditFile(n) ==
    /\ \E c \in Lists : c # file[n] /\ file' = [file EXCEPT ![n] = c]
    /\ Disturb(n)
    /\ UNCHANGED <<acl, pid, used>>

EditAcl(n) ==
    /\ acl[n] # Absent
    /\ \E c \in Contents : c # acl[n] /\ acl' = [acl EXCEPT ![n] = c]
    /\ Disturb(n)
    /\ UNCHANGED <<file, pid, used>>

\* A configuration that refers to the list is only accepted with its file.
EditConfig(n) ==
    /\ used[n] \/ file[n] # Absent
    /\ used' = [used EXCEPT ![n] = ~@]
    /\ Disturb(n)
    /\ UNCHANGED <<file, acl, pid>>

ReloadHaproxy(n) ==
    /\ Restarted(n)
    /\ Disturb(n)
    /\ UNCHANGED <<file, used>>

ListNext ==
    \/ \E p \in Pages : OpenEditor(p)
    \/ \E p \in Pages : CloseEditor(p)
    \/ \E p \in Pages : CheckNew(p)
    \/ \E p \in Pages : Refetch(p)
    \/ \E p \in Pages : ConfirmRemove(p)
    \/ \E p \in Pages : SendSave(p)
    \/ \E p \in Pages : SendRemove(p)
    \/ LegacyChange
    \/ CreateEmpty
    \/ CheckRevision
    \/ RefreshRevision
    \/ WriteFile
    \/ CommitAcl
    \/ RestoreFile
    \/ VerifyAcl
    \/ ApplyReload
    \/ WriteCatalog
    \/ ChangeFails
    \/ \E n \in Nodes : EditFile(n)
    \/ \E n \in Nodes : EditAcl(n)
    \/ \E n \in Nodes : EditConfig(n)
    \/ \E n \in Nodes : ReloadHaproxy(n)

ListSpec == ListInit /\ [][ListNext]_listVars

-----------------------------------------------------------------------------
(* Properties. *)

\* A step of a change, as against one of an administrator of a node.
ByChange == left'.foreign = left.foreign

\* A change overwrites a file or the catalogue only if it holds what the page
\* was shown with its revision, or what the change itself wrote there: nobody's
\* edit is lost unseen, although the revision is compared long before the write.
NoBlindOverwrite ==
    [][/\ \A n \in Nodes : ByChange /\ file'[n] # file[n] =>
             file[n] \in {req.snap.file[n], req.content}
       /\ catalog' # catalog /\ req # NoReq => catalog = req.snap.catalog]_listVars

\* The answer tells the truth about every node nobody else touched meanwhile:
\* "pending" is untouched, "saved" holds the new content, "applied" and
\* "unused" mean that the running HAProxy has it or does not know the list.
ReportTrue ==
    req # NoReq => \A n \in Nodes \ req.disturbed :
        /\ req.file[n] = "pending" /\ req.step # "check" /\ req.step # "refresh"
              => file[n] = req.snap.file[n] /\ acl[n] = req.snap.acl[n]
        /\ req.file[n] = "saved" => file[n] = req.content
        /\ req.runtime[n] = "applied" /\ (req.mode = "runtime" \/ used[n]) => acl[n] = req.content
        /\ req.runtime[n] = "unused" => acl[n] = Absent

\* A file the configuration of its node refers to is never deleted by a change,
\* unless it was missing when the page was loaded and the change put it there.
UsedListKept ==
    [][\A n \in Nodes : ByChange /\ used[n] /\ file[n] # Absent /\ file'[n] = Absent
          => req.snap.file[n] = Absent]_listVars

\* What is on the nodes and was not shown to the page survives a change.
NodesKept == NoBlindOverwrite /\ UsedListKept

\* A change of a list destroys nothing it was not shown, and says truthfully
\* what it did, however it is cut short.
ListChangesHonest == []ReportTrue /\ NodesKept
=============================================================================
