------------------------- MODULE ServerFilesProofs -------------------------
(***************************************************************************)
(* Proofs about the two kinds of files that are changed on several servers *)
(* at once: an address list, for any pages, contents and nodes, and a      *)
(* certificate, for any operations, certificates and number of servers.    *)
(* The numbers of changes, edits, lost calls, killed processes, crashes    *)
(* and recoveries are any.                                                 *)
(***************************************************************************)
EXTENDS HaproxyLists, CertificateDeployment, TLAPS

(* Address lists. *)

\* What a change may do is decided by what its page was shown: a list that is deleted is not
\* in use, and a running HAProxy without a prepared version does not know the list.
Permitted(r) ==
    /\ r.op = "delete" => \A n \in Nodes : ~r.snap.used[n]
    /\ r.mode = "runtime" => \A n \in Nodes : r.version[n] = 0 => r.snap.acl[n] = Absent

\* How far a change is: the nodes it has not come to are reported as pending.
Ahead(r, n) == n > r.node \/ (n = r.node /\ r.step \in {"check", "refresh", "write"})
ChangeInOrder(r) ==
    /\ r.op = "save" => r.content # Absent
    /\ r.step \in {"check", "refresh"} => r.node = 1
    /\ \A n \in Nodes : Ahead(r, n) => r.file[n] = "pending" /\ r.runtime[n] = "pending"
    /\ r.step \in {"commit", "verify", "apply"}
          => r.file[r.node] = "saved" /\ r.runtime[r.node] = "pending"
    /\ r.step = "apply" => r.mode = "reload"
    /\ r.step # "check" => Permitted(r)

\* Nobody else writes the catalogue during a change.
CatalogSeen == req.step \notin {"none", "check", "refresh"} => catalog = req.snap.catalog

ListInv == ListTypeOK /\ (req # NoReq => ChangeInOrder(req)) /\ CatalogSeen /\ ReportTrue

-----------------------------------------------------------------------------
(* The rows. *)

Steps == {"check", "refresh", "write", "commit", "restore", "verify", "apply", "catalog"}

LEMMA RequestFields ==
  ASSUME NEW r \in Requests
  PROVE  /\ r.page \in Pages \cup {NoPage} /\ r.op \in {"save", "delete"} /\ r.content \in Lists
         /\ r.mode \in {"runtime", "reload"} /\ r.snap \in Snapshots /\ r.step \in Steps
         /\ r.node \in Nodes /\ r.version \in [Nodes -> 0..MaxPid]
         /\ r.file \in [Nodes -> FileStates] /\ r.runtime \in [Nodes -> RuntimeStates]
         /\ r.disturbed \in SUBSET Nodes /\ r # NoReq
<1>1. r.step \in Steps BY DEF Requests, Steps
<1>2. NoReq.step = "none" /\ "none" \notin Steps BY DEF NoReq, Steps
<1> QED BY <1>1, <1>2 DEF Requests

LEMMA SnapshotFields ==
  ASSUME NEW s \in Snapshots
  PROVE  /\ s.catalog \in Lists /\ s.file \in [Nodes -> Lists] /\ s.acl \in [Nodes -> Lists]
         /\ s.pid \in [Nodes -> 1..MaxPid] /\ s.used \in [Nodes -> BOOLEAN]
BY DEF Snapshots

\* What no step of a change writes.
Same(n, r) ==
    /\ n.page = r.page /\ n.op = r.op /\ n.content = r.content /\ n.mode = r.mode
    /\ n.snap = r.snap

LEMMA ListStepWrite ==
  ASSUME NEW r \in Requests, NEW s \in Steps
  PROVE  LET n == [r EXCEPT !.step = s] IN
         /\ n \in Requests /\ n.step = s /\ Same(n, r) /\ n.node = r.node
         /\ n.version = r.version /\ n.file = r.file /\ n.runtime = r.runtime
         /\ n.disturbed = r.disturbed
BY DEF Requests, Steps, Same

\* The next node, or the catalogue after the last one.
LEMMA Advanced ==
  ASSUME NEW r \in Requests, r.op = "save" => r.content # Absent, Permitted(r),
         \A n \in Nodes : n > r.node => r.file[n] = "pending" /\ r.runtime[n] = "pending"
  PROVE  /\ Advance(r) \in Requests /\ ChangeInOrder(Advance(r)) /\ Same(Advance(r), r)
         /\ Advance(r).step \in {"write", "catalog"}
         /\ Advance(r).version = r.version /\ Advance(r).file = r.file
         /\ Advance(r).runtime = r.runtime /\ Advance(r).disturbed = r.disturbed
<1>1. r.node \in Nodes /\ Nodes = 1..NodeCount /\ NodeCount \in Nat
  BY RequestFields, ListsAssumption DEF Nodes
<1>2. CASE r.node < NodeCount
  <2> DEFINE n == [r EXCEPT !.node = r.node + 1, !.step = "write"]
  <2>1. r.node + 1 \in Nodes /\ "write" \in Steps BY <1>1, <1>2 DEF Steps
  <2>2. /\ n \in Requests /\ n.node = r.node + 1 /\ n.step = "write" /\ Same(n, r)
        /\ n.version = r.version /\ n.file = r.file /\ n.runtime = r.runtime
        /\ n.disturbed = r.disturbed
    BY <2>1 DEF Requests, Steps, Same
  <2>3. Advance(r) = n BY <1>2 DEF Advance
  <2> HIDE DEF n
  <2>4. ChangeInOrder(n)
    <3>1. \A m \in Nodes : Ahead(n, m) => m > r.node
      BY <1>1, <2>2 DEF Ahead
    <3> QED BY <2>2, <3>1 DEF ChangeInOrder, Permitted, Same
  <2> QED BY <2>2, <2>3, <2>4
<1>3. CASE ~(r.node < NodeCount)
  <2> DEFINE n == [r EXCEPT !.step = "catalog"]
  <2>1. "catalog" \in Steps BY DEF Steps
  <2>2. /\ n \in Requests /\ n.step = "catalog" /\ Same(n, r) /\ n.node = r.node
        /\ n.version = r.version /\ n.file = r.file /\ n.runtime = r.runtime
        /\ n.disturbed = r.disturbed
    BY <2>1, ListStepWrite
  <2>3. Advance(r) = n BY <1>3 DEF Advance
  <2> HIDE DEF n
  <2>4. ChangeInOrder(n)
    <3>1. \A m \in Nodes : Ahead(n, m) => m > r.node
      BY <1>1, <2>2 DEF Ahead
    <3> QED BY <2>2, <3>1 DEF ChangeInOrder, Permitted, Same
  <2> QED BY <2>2, <2>3, <2>4
<1> QED BY <1>2, <1>3

LEMMA SpendLeft ==
  ASSUME left \in Remaining, NEW k \in {"foreign", "changes", "faults"}, Spend(k)
  PROVE  /\ left' \in Remaining
         /\ k = "foreign" => left'.foreign # left.foreign
         /\ k # "foreign" => left'.foreign = left.foreign
<1>1. left[k] > 0 /\ left' = [left EXCEPT ![k] = @ - 1] BY DEF Spend
<1>2. MaxEdits \in Nat /\ MaxChanges \in Nat /\ MaxListFaults \in Nat BY ListsAssumption
<1>3. CASE k = "foreign" BY <1>1, <1>2, <1>3 DEF Remaining
<1>4. CASE k = "changes" BY <1>1, <1>2, <1>4 DEF Remaining
<1>5. CASE k = "faults" BY <1>1, <1>2, <1>5 DEF Remaining
<1> QED BY <1>3, <1>4, <1>5

-----------------------------------------------------------------------------
(* The page, and the beginning and the end of a request. *)

WorldTyped ==
    /\ catalog \in Lists /\ file \in [Nodes -> Lists] /\ acl \in [Nodes -> Lists]
    /\ pid \in [Nodes -> 1..MaxPid] /\ used \in [Nodes -> BOOLEAN]
    /\ page \in [Pages -> Editors] /\ left \in Remaining

LEMMA ListTyped ==
  ListTypeOK <=> WorldTyped /\ req \in Requests \cup {NoReq}
BY DEF ListTypeOK, WorldTyped

LEMMA RevisionTyped ==
  ASSUME WorldTyped
  PROVE  Revision \in Snapshots
BY DEF WorldTyped, Revision, Snapshots

LEMMA Shown ==
  ASSUME page \in [Pages -> Editors], NEW p \in Pages,
         NEW mode \in {"closed", "editing", "creating", "removing", "sending", "refetch"},
         NEW snap \in Snapshots \cup {NoSnap}, Show(p, mode, snap),
         \/ snap \in Snapshots /\ mode # "closed"
         \/ snap = NoSnap /\ mode \in {"closed", "editing"}
  PROVE  page' \in [Pages -> Editors]
<1>1. [mode |-> mode, snap |-> snap] \in Editors BY DEF Editors
<1>2. page' = [page EXCEPT ![p] = [mode |-> mode, snap |-> snap]] BY DEF Show
<1> QED BY <1>1, <1>2

\* A page that is opened, closed or read again changes nothing else.
LEMMA PageOnly ==
  ASSUME ListInv, UNCHANGED <<catalog, file, acl, pid, used, req, left>>,
         page' \in [Pages -> Editors]
  PROVE  ListInv'
<1>1. WorldTyped /\ req \in Requests \cup {NoReq} BY ListTyped DEF ListInv
<1>2. WorldTyped' BY <1>1 DEF WorldTyped
<1>3. ListTypeOK' BY <1>1, <1>2 DEF ListTypeOK, WorldTyped
<1>4. CatalogSeen' BY DEF ListInv, CatalogSeen
<1>5. ReportTrue' BY DEF ListInv, ReportTrue
<1> QED BY <1>3, <1>4, <1>5 DEF ListInv

Fresh(r) ==
    /\ r \in Requests /\ ChangeInOrder(r) /\ r.step = "check"
    /\ \A n \in Nodes : r.file[n] = "pending" /\ r.runtime[n] = "pending"

LEMMA NewRequestFits ==
  ASSUME NEW p \in Pages \cup {NoPage}, NEW op \in {"save", "delete"}, NEW c \in Lists,
         NEW mode \in {"runtime", "reload"}, NEW snap \in Snapshots, op = "delete" \/ c # Absent
  PROVE  Fresh(NewRequest(p, op, c, mode, snap))
<1> DEFINE r == NewRequest(p, op, c, mode, snap)
<1>1. 1 \in Nodes /\ 0 \in 0..MaxPid BY ListsAssumption DEF Nodes
<1>2. /\ [n \in Nodes |-> 0] \in [Nodes -> 0..MaxPid]
      /\ [n \in Nodes |-> "pending"] \in [Nodes -> FileStates]
      /\ [n \in Nodes |-> "pending"] \in [Nodes -> RuntimeStates]
  BY <1>1 DEF FileStates, RuntimeStates
<1>3. r \in Requests BY <1>1, <1>2 DEF NewRequest, Requests
<1>4. /\ r.step = "check" /\ r.node = 1 /\ r.op = op /\ r.content = c
      /\ r.file = [n \in Nodes |-> "pending"] /\ r.runtime = [n \in Nodes |-> "pending"]
  BY DEF NewRequest
<1> HIDE DEF r
<1>5. \A n \in Nodes : r.file[n] = "pending" /\ r.runtime[n] = "pending" BY <1>4
<1>6. ChangeInOrder(r) BY <1>4, <1>5 DEF ChangeInOrder
<1> QED BY <1>3, <1>4, <1>5, <1>6 DEF r, Fresh

LEMMA Requested ==
  ASSUME ListInv, Fresh(req'),
         UNCHANGED <<catalog, file, acl, pid, used>>, page' \in [Pages -> Editors],
         left' \in Remaining
  PROVE  ListInv'
<1>1. /\ req' \in Requests /\ ChangeInOrder(req') /\ req'.step = "check"
      /\ \A n \in Nodes : req'.file[n] = "pending" /\ req'.runtime[n] = "pending"
  BY DEF Fresh
<1>2. ListTypeOK' BY <1>1 DEF ListInv, ListTypeOK
<1>3. CatalogSeen' BY <1>1 DEF CatalogSeen
<1>4. ReportTrue' BY <1>1 DEF ReportTrue
<1>5. ChangeInOrder(req)' BY <1>1 DEF ChangeInOrder, Ahead, Permitted
<1> QED BY <1>2, <1>3, <1>4, <1>5 DEF ListInv

\* Whatever a change leaves on the nodes: when it is over, nothing is said of it any more.
LEMMA Ended ==
  ASSUME ListInv, req # NoReq, NEW ok \in BOOLEAN, End(ok),
         catalog' \in Lists, file' \in [Nodes -> Lists], acl' \in [Nodes -> Lists],
         pid' \in [Nodes -> 1..MaxPid], used' \in [Nodes -> BOOLEAN], left' \in Remaining
  PROVE  ListInv'
<1>1. req \in Requests /\ page \in [Pages -> Editors] BY DEF ListInv, ListTypeOK
<1>2. req.page \in Pages \cup {NoPage} /\ req.snap \in Snapshots BY <1>1, RequestFields
<1>3. page' \in [Pages -> Editors]
  <2>1. CASE req.page = NoPage BY <1>1, <2>1 DEF End, AnswerPage
  <2>2. CASE req.page # NoPage /\ req.op = "delete"
    BY <1>1, <1>2, <2>2, Shown DEF End, AnswerPage
  <2>3. CASE req.page # NoPage /\ req.op # "delete"
    <3>1. CASE ok
      <4>1. Show(req.page, "refetch", req.snap) BY <2>3, <3>1 DEF End, AnswerPage
      <4> QED BY <1>1, <1>2, <2>3, <4>1, Shown
    <3>2. CASE ~ok
      <4>1. Show(req.page, "editing", req.snap) BY <2>3, <3>2 DEF End, AnswerPage
      <4> QED BY <1>1, <1>2, <2>3, <4>1, Shown
    <3> QED BY <3>1, <3>2
  <2> QED BY <2>1, <2>2, <2>3
<1>4. req' = NoReq BY DEF End
<1>5. ListTypeOK' BY <1>3, <1>4 DEF ListTypeOK
<1>6. CatalogSeen' BY <1>4 DEF CatalogSeen, NoReq
<1>7. ReportTrue' BY <1>4 DEF ReportTrue, NoReq
<1> QED BY <1>4, <1>5, <1>6, <1>7 DEF ListInv, NoReq
-----------------------------------------------------------------------------
(* What the report says of one node. *)

NodeTrue(r, n, f, a, u) ==
    /\ r.file[n] = "pending" /\ r.step # "check" /\ r.step # "refresh"
          => f = r.snap.file[n] /\ a = r.snap.acl[n]
    /\ r.file[n] = "saved" => f = r.content
    /\ r.runtime[n] = "applied" /\ (r.mode = "runtime" \/ u) => a = r.content
    /\ r.runtime[n] = "unused" => a = Absent

LEMMA Reported ==
  ReportTrue <=> (req # NoReq => \A n \in Nodes \ req.disturbed :
                                    NodeTrue(req, n, file[n], acl[n], used[n]))
BY DEF ReportTrue, NodeTrue

LEMMA ReportedNext ==
  ASSUME req' \in Requests,
         \A n \in Nodes \ req'.disturbed : NodeTrue(req', n, file'[n], acl'[n], used'[n])
  PROVE  ReportTrue'
BY DEF ReportTrue, NodeTrue

\* A step that leaves a node and what is reported of it alone leaves the report true.
LEMMA OtherNode ==
  ASSUME NEW q \in Requests, NEW r \in Requests, Same(q, r), NEW n \in Nodes, NEW f, NEW a, NEW u,
         q.file[n] = r.file[n], q.runtime[n] = r.runtime[n],
         r.step \notin {"check", "refresh"}, NodeTrue(r, n, f, a, u)
  PROVE  NodeTrue(q, n, f, a, u)
BY DEF NodeTrue, Same

\* The invariant while a request goes on, in the parts its steps establish.
LEMMA GoesOn ==
  ASSUME ListInv, req' \in Requests, ChangeInOrder(req'),
         req'.step \notin {"check", "refresh"} => catalog' = req'.snap.catalog,
         \A n \in Nodes \ req'.disturbed : NodeTrue(req', n, file'[n], acl'[n], used'[n]),
         catalog' \in Lists, file' \in [Nodes -> Lists], acl' \in [Nodes -> Lists],
         pid' \in [Nodes -> 1..MaxPid], used' \in [Nodes -> BOOLEAN],
         page' \in [Pages -> Editors], left' \in Remaining
  PROVE  ListInv'
<1>1. ListTypeOK' BY DEF ListTypeOK
<1>2. CatalogSeen' BY DEF CatalogSeen
<1>3. ReportTrue' BY ReportedNext
<1>4. ChangeInOrder(req)' BY DEF ChangeInOrder, Ahead, Permitted
<1> QED BY <1>1, <1>2, <1>3, <1>4 DEF ListInv

\* A request at some step: it is a request, in order, and its report is true.
LEMMA InProgress ==
  ASSUME ListInv, req.step \in Steps
  PROVE  /\ req \in Requests /\ req # NoReq /\ ChangeInOrder(req) /\ WorldTyped
         /\ req.step \notin {"check", "refresh"} => catalog = req.snap.catalog
         /\ \A n \in Nodes \ req.disturbed : NodeTrue(req, n, file[n], acl[n], used[n])
<1>1. req # NoReq BY DEF NoReq, Steps
<1>2. req \in Requests /\ WorldTyped BY <1>1, ListTyped DEF ListInv
<1>3. ReportTrue BY DEF ListInv
<1>4. \A n \in Nodes \ req.disturbed : NodeTrue(req, n, file[n], acl[n], used[n])
  BY <1>1, <1>3, Reported
<1> QED BY <1>1, <1>2, <1>4 DEF ListInv, CatalogSeen, Steps

\* Until the first file is written, every node is pending.
LEMMA NodesUntouched ==
  ASSUME NEW r \in Requests, ChangeInOrder(r), r.step \in {"check", "refresh"}
  PROVE  \A n \in Nodes : r.file[n] = "pending" /\ r.runtime[n] = "pending"
<1>1. NodeCount \in Nat /\ Nodes = 1..NodeCount BY ListsAssumption DEF Nodes
<1>2. r.node = 1 BY DEF ChangeInOrder
<1>3. \A n \in Nodes : Ahead(r, n) BY <1>1, <1>2 DEF Ahead
<1> QED BY <1>3 DEF ChangeInOrder

LEMMA Seen ==
  ASSUME NEW s \in Snapshots, Revision = s
  PROVE  s.catalog = catalog /\ s.file = file /\ s.acl = acl /\ s.pid = pid /\ s.used = used
BY DEF Revision
-----------------------------------------------------------------------------
(* The change, step by step. *)

LEMMA CheckKeeps ==
  ASSUME ListInv, CheckRevision
  PROVE  ListInv'
<1>0. req.step = "check" /\ "check" \in Steps /\ "refresh" \in Steps BY DEF CheckRevision, Steps
<1>1. /\ req \in Requests /\ req # NoReq /\ ChangeInOrder(req) /\ WorldTyped
      /\ \A n \in Nodes : req.file[n] = "pending" /\ req.runtime[n] = "pending"
  BY <1>0, InProgress, NodesUntouched
<1>2. UNCHANGED <<catalog, file, acl, pid, used, left>> BY DEF CheckRevision
<1>3. CASE End(FALSE)
  BY <1>1, <1>2, <1>3, Ended DEF WorldTyped
<1>4. CASE ~End(FALSE)
  <2> DEFINE v == [n \in Nodes |-> IF req.op = "save" /\ req.mode = "runtime" /\ acl[n] # Absent
                                   THEN pid[n] ELSE 0]
  <2>1. /\ req' = [req EXCEPT !.step = "refresh", !.version = v] /\ UNCHANGED page
        /\ Revision = req.snap /\ (req.op = "delete" => ~InUse)
    BY <1>4 DEF CheckRevision
  <2>2. v \in [Nodes -> 0..MaxPid]
    <3>1. MaxPid \in Nat /\ pid \in [Nodes -> 1..MaxPid] BY <1>1, ListsAssumption DEF WorldTyped
    <3> QED BY <3>1
  <2>3. \A n \in Nodes : v[n] = 0 => req.op # "save" \/ req.mode # "runtime" \/ acl[n] = Absent
    BY <1>1, ListsAssumption DEF WorldTyped
  <2> HIDE DEF v
  <2>4. /\ req' \in Requests /\ req'.step = "refresh" /\ req'.version = v /\ Same(req', req)
        /\ req'.node = req.node /\ req'.file = req.file /\ req'.runtime = req.runtime
    <3>1. req \in Requests /\ "refresh" \in Steps /\ v \in [Nodes -> 0..MaxPid]
      BY <1>0, <1>1, <2>2
    <3>2. req' = [req EXCEPT !.step = "refresh", !.version = v] BY <2>1
    <3> QED BY <3>1, <3>2 DEF Requests, Steps, Same
  <2>5. req.snap \in Snapshots /\ req.op \in {"save", "delete"} BY <1>1, RequestFields
  <2>6. req.snap.acl = acl /\ req.snap.used = used BY <2>1, <2>5, Seen
  <2>7. Permitted(req')
    <3>1. req.op = "delete" => \A n \in Nodes : ~used[n] /\ acl[n] = Absent BY <2>1 DEF InUse
    <3> QED BY <2>3, <2>4, <2>5, <2>6, <3>1 DEF Permitted, Same
  <2>8. ChangeInOrder(req')
    BY <1>0, <1>1, <2>4, <2>7 DEF ChangeInOrder, Same
  <2>9. \A n \in Nodes \ req'.disturbed : NodeTrue(req', n, file'[n], acl'[n], used'[n])
    BY <1>1, <2>4 DEF NodeTrue
  <2> QED BY <1>1, <1>2, <2>1, <2>4, <2>8, <2>9, GoesOn DEF WorldTyped
<1> QED BY <1>3, <1>4

\* The revision is compared a second time: from here on the report speaks.
LEMMA RefreshKeeps ==
  ASSUME ListInv, RefreshRevision
  PROVE  ListInv'
<1>0. req.step = "refresh" /\ "write" \in Steps /\ "refresh" \in Steps
  BY DEF RefreshRevision, Steps
<1>1. /\ req \in Requests /\ req # NoReq /\ ChangeInOrder(req) /\ WorldTyped
      /\ \A n \in Nodes : req.file[n] = "pending" /\ req.runtime[n] = "pending"
  BY <1>0, InProgress, NodesUntouched
<1>2. UNCHANGED <<catalog, file, acl, pid, used, left>> BY DEF RefreshRevision
<1>3. CASE End(FALSE)
  BY <1>1, <1>2, <1>3, Ended DEF WorldTyped
<1>4. CASE ~End(FALSE)
  <2>1. req' = [req EXCEPT !.step = "write"] /\ UNCHANGED page /\ Revision = req.snap
    BY <1>4 DEF RefreshRevision, GoTo
  <2>2. /\ req' \in Requests /\ req'.step = "write" /\ Same(req', req) /\ req'.node = req.node
        /\ req'.version = req.version /\ req'.file = req.file /\ req'.runtime = req.runtime
    BY <1>0, <1>1, <2>1, ListStepWrite
  <2>3. req.snap \in Snapshots BY <1>1, RequestFields
  <2>4. req.snap.catalog = catalog /\ req.snap.file = file /\ req.snap.acl = acl
    BY <2>1, <2>3, Seen
  <2>5. ChangeInOrder(req')
    BY <1>0, <1>1, <2>2 DEF ChangeInOrder, Same, Permitted
  <2>6. \A n \in Nodes \ req'.disturbed : NodeTrue(req', n, file'[n], acl'[n], used'[n])
    BY <1>1, <1>2, <2>2, <2>4 DEF NodeTrue, Same
  <2>7. catalog' = req'.snap.catalog BY <1>2, <2>2, <2>4 DEF Same
  <2> QED BY <1>1, <1>2, <2>1, <2>2, <2>5, <2>6, <2>7, GoesOn DEF WorldTyped
<1> QED BY <1>3, <1>4

\* A file is written only if it holds what the page was shown.
LEMMA WriteKeeps ==
  ASSUME ListInv, WriteFile
  PROVE  ListInv'
<1>0. req.step = "write" /\ Steps \subseteq Steps /\ "write" \in Steps /\ "commit" \in Steps
      /\ "apply" \in Steps
  BY DEF WriteFile, Steps
<1>1. /\ req \in Requests /\ req # NoReq /\ ChangeInOrder(req) /\ WorldTyped
      /\ catalog = req.snap.catalog
      /\ \A m \in Nodes \ req.disturbed : NodeTrue(req, m, file[m], acl[m], used[m])
  BY <1>0, InProgress
<1>2. UNCHANGED <<catalog, acl, pid, used, left>> BY DEF WriteFile
<1>3. /\ req.node \in Nodes /\ req.content \in Lists /\ req.file \in [Nodes -> FileStates]
      /\ req.runtime \in [Nodes -> RuntimeStates] /\ Nodes \subseteq Nat
      /\ req.mode \in {"runtime", "reload"}
  BY <1>1, RequestFields DEF Nodes
<1>4. CASE End(FALSE)
  <2>1. file' \in [Nodes -> Lists] BY <1>1, <1>3 DEF WriteFile, WorldTyped
  <2> QED BY <1>1, <1>2, <1>4, <2>1, Ended DEF WorldTyped
<1>5. CASE ~End(FALSE)
  <2> DEFINE n == req.node
             w == [req EXCEPT !.file = [req.file EXCEPT ![req.node] = "saved"]]
  <2>1. /\ file' = [file EXCEPT ![n] = req.content] /\ UNCHANGED page
        /\ req' = IF req.version[n] # 0 THEN [w EXCEPT !.step = "commit"]
                  ELSE IF req.mode = "reload" THEN [w EXCEPT !.step = "apply"]
                  ELSE Advance([w EXCEPT !.runtime[n] = "unused"])
    BY <1>5 DEF WriteFile
  <2>2. [req.file EXCEPT ![n] = "saved"] \in [Nodes -> FileStates]
    BY <1>3 DEF FileStates
  <2>3. /\ w \in Requests /\ w.file = [req.file EXCEPT ![n] = "saved"] /\ Same(w, req)
        /\ w.node = n /\ w.step = "write" /\ w.version = req.version /\ w.runtime = req.runtime
        /\ w.disturbed = req.disturbed
    BY <1>0, <1>1, <2>2 DEF Requests, Same
  <2> HIDE DEF w
  <2>4. /\ w.file[n] = "saved" /\ req.runtime[n] = "pending" /\ req.file[n] = "pending"
        /\ \A m \in Nodes : m # n => w.file[m] = req.file[m]
        /\ \A m \in Nodes : m > n => req.file[m] = "pending" /\ req.runtime[m] = "pending"
    BY <1>0, <1>1, <1>3, <2>3 DEF ChangeInOrder, Ahead
  <2>5. file'[n] = req.content /\ \A m \in Nodes : m # n => file'[m] = file[m]
    BY <1>1, <1>3, <2>1 DEF WorldTyped
  <2>6. file' \in [Nodes -> Lists] BY <1>1, <1>3, <2>1 DEF WorldTyped
  <2>7. Permitted(req) /\ (req.op = "save" => req.content # Absent) BY <1>0, <1>1 DEF ChangeInOrder
  <2>8. Permitted(w) BY <2>3, <2>7 DEF Permitted, Same
  <2>9. ASSUME req' \in Requests, Same(req', req), ChangeInOrder(req'), req'.file = w.file,
               \A m \in Nodes : m # n => req'.runtime[m] = req.runtime[m],
               req'.disturbed = req.disturbed, req'.step \notin {"check", "refresh"},
               \/ req'.runtime[n] = "pending"
               \/ req'.runtime[n] = "unused" /\ req.snap.acl[n] = Absent
        PROVE  ListInv'
    <3>1. ASSUME NEW m \in Nodes \ req'.disturbed
          PROVE  NodeTrue(req', m, file'[m], acl'[m], used'[m])
      <4>1. NodeTrue(req, m, file[m], acl[m], used[m]) BY <1>1, <2>9
      <4>2. CASE m = n
        <5>1. req'.file[m] = "saved" /\ file'[m] = req'.content
          BY <2>4, <2>5, <2>9, <4>2 DEF Same
        <5>2. acl[m] = req.snap.acl[m] BY <1>0, <2>4, <4>1, <4>2 DEF NodeTrue
        <5> QED BY <1>2, <2>9, <4>2, <5>1, <5>2 DEF NodeTrue
      <4>3. CASE m # n
        <5>1. req'.file[m] = req.file[m] /\ req'.runtime[m] = req.runtime[m]
          BY <2>4, <2>9, <4>3
        <5>2. NodeTrue(req', m, file[m], acl[m], used[m])
          BY <1>0, <1>1, <2>9, <4>1, <5>1, OtherNode
        <5> QED BY <1>2, <2>5, <4>3, <5>2
      <4> QED BY <4>2, <4>3
    <3>2. catalog' = req'.snap.catalog BY <1>1, <1>2, <2>9 DEF Same
    <3> QED BY <1>1, <1>2, <2>1, <2>6, <2>9, <3>1, <3>2, GoesOn DEF WorldTyped
  <2>10. CASE req.version[n] # 0 \/ req.mode = "reload"
    <3> DEFINE s == IF req.version[n] # 0 THEN "commit" ELSE "apply"
    <3>1. req' = [w EXCEPT !.step = s] /\ s \in Steps /\ s \in {"commit", "apply"}
      BY <1>0, <2>1, <2>10
    <3>2. s = "apply" => req.mode = "reload" BY <2>10
    <3> HIDE DEF s
    <3>3. /\ req' \in Requests /\ req'.step = s /\ Same(req', w) /\ req'.node = w.node
          /\ req'.version = w.version /\ req'.file = w.file /\ req'.runtime = w.runtime
          /\ req'.disturbed = w.disturbed
      BY <2>3, <3>1 DEF Requests, Steps, Same
    <3>4. Same(req', req) BY <2>3, <3>3 DEF Same
    <3>5. Permitted(req') BY <2>8, <3>3 DEF Permitted, Same
    <3>6. \A m \in Nodes : Ahead(req', m) => m > n BY <2>3, <3>1, <3>3 DEF Ahead
    <3>7. \A m \in Nodes : Ahead(req', m) => req'.file[m] = "pending" /\ req'.runtime[m] = "pending"
      BY <1>3, <2>3, <2>4, <3>3, <3>6
    <3>8. ChangeInOrder(req')
      BY <2>3, <2>4, <2>7, <3>1, <3>2, <3>3, <3>4, <3>5, <3>7 DEF ChangeInOrder, Same
    <3> QED BY <2>3, <2>4, <2>9, <3>1, <3>3, <3>4, <3>8
  <2>11. CASE req.version[n] = 0 /\ req.mode # "reload"
    <3> DEFINE g == [req.runtime EXCEPT ![n] = "unused"]
               u == [w EXCEPT !.runtime = g]
    <3>1. req' = Advance(u)
      <4>1. req' = Advance([w EXCEPT !.runtime[n] = "unused"]) BY <2>1, <2>11
      <4>2. [w EXCEPT !.runtime[n] = "unused"] = u BY <2>3
      <4> QED BY <4>1, <4>2
    <3>2. g \in [Nodes -> RuntimeStates] BY <1>3 DEF RuntimeStates
    <3>3. g[n] = "unused" /\ \A m \in Nodes : m # n => g[m] = req.runtime[m] BY <1>3
    <3> HIDE DEF g
    <3>4. /\ u \in Requests /\ u.runtime = g /\ Same(u, w) /\ u.node = w.node /\ u.step = w.step
          /\ u.version = w.version /\ u.file = w.file /\ u.disturbed = w.disturbed
      BY <2>3, <3>2 DEF Requests, Same
    <3> HIDE DEF u
    <3>5. Permitted(u) /\ (u.op = "save" => u.content # Absent)
      BY <2>3, <2>7, <2>8, <3>4 DEF Permitted, Same
    <3>6. \A m \in Nodes : m > u.node => u.file[m] = "pending" /\ u.runtime[m] = "pending"
      BY <1>3, <2>3, <2>4, <3>3, <3>4
    <3>7. /\ Advance(u) \in Requests /\ ChangeInOrder(Advance(u)) /\ Same(Advance(u), u)
          /\ Advance(u).step \in {"write", "catalog"}
          /\ Advance(u).file = u.file /\ Advance(u).runtime = u.runtime
          /\ Advance(u).disturbed = u.disturbed
      BY <3>4, <3>5, <3>6, Advanced
    <3>8. Same(req', req) BY <2>3, <3>1, <3>4, <3>7 DEF Same
    <3>9. req.snap.acl[n] = Absent BY <1>3, <2>7, <2>11 DEF Permitted
    <3> QED BY <2>3, <2>9, <3>1, <3>3, <3>4, <3>7, <3>8, <3>9
  <2> QED BY <1>3, <2>10, <2>11
<1> QED BY <1>4, <1>5
\* The running HAProxy of the node has the content, as far as nobody disturbed it.
LEMMA AppliedKeeps ==
  ASSUME ListInv, req.step \in {"verify", "apply"},
         req' = Advance([req EXCEPT !.runtime[req.node] = "applied"]),
         UNCHANGED <<catalog, file, used, page, left>>,
         pid' \in [Nodes -> 1..MaxPid], acl' \in [Nodes -> Lists],
         \A m \in Nodes : m # req.node => acl'[m] = acl[m],
         req.mode = "runtime" \/ used[req.node] => acl'[req.node] \in {req.content, file[req.node]}
  PROVE  ListInv'
<1>0. req.step \in Steps BY DEF Steps
<1>1. /\ req \in Requests /\ req # NoReq /\ ChangeInOrder(req) /\ WorldTyped
      /\ catalog = req.snap.catalog
      /\ \A m \in Nodes \ req.disturbed : NodeTrue(req, m, file[m], acl[m], used[m])
  BY <1>0, InProgress
<1>2. /\ req.node \in Nodes /\ req.file \in [Nodes -> FileStates]
      /\ req.runtime \in [Nodes -> RuntimeStates] /\ Nodes \subseteq Nat
  BY <1>1, RequestFields DEF Nodes
<1> DEFINE n == req.node
           g == [req.runtime EXCEPT ![n] = "applied"]
           u == [req EXCEPT !.runtime = g]
<1>3. req' = Advance(u) OBVIOUS
<1>4. g \in [Nodes -> RuntimeStates] BY <1>2 DEF RuntimeStates
<1>5. g[n] = "applied" /\ \A m \in Nodes : m # n => g[m] = req.runtime[m] BY <1>2
<1> HIDE DEF g
<1>6. /\ u \in Requests /\ u.runtime = g /\ Same(u, req) /\ u.node = n /\ u.step = req.step
      /\ u.version = req.version /\ u.file = req.file /\ u.disturbed = req.disturbed
  BY <1>1, <1>4 DEF Requests, Same
<1> HIDE DEF u
<1>7. /\ Permitted(req) /\ (req.op = "save" => req.content # Absent) /\ req.file[n] = "saved"
      /\ \A m \in Nodes : m > n => req.file[m] = "pending" /\ req.runtime[m] = "pending"
  BY <1>1 DEF ChangeInOrder, Ahead
<1>8. Permitted(u) /\ (u.op = "save" => u.content # Absent)
  BY <1>6, <1>7 DEF Permitted, Same
<1>9. \A m \in Nodes : m > u.node => u.file[m] = "pending" /\ u.runtime[m] = "pending"
  BY <1>2, <1>5, <1>6, <1>7
<1>10. /\ req' \in Requests /\ ChangeInOrder(req') /\ Same(req', req)
       /\ req'.step \in {"write", "catalog"}
       /\ req'.file = req.file /\ req'.runtime = g /\ req'.disturbed = req.disturbed
  <2>1. /\ Advance(u) \in Requests /\ ChangeInOrder(Advance(u)) /\ Same(Advance(u), u)
        /\ Advance(u).step \in {"write", "catalog"}
        /\ Advance(u).file = u.file /\ Advance(u).runtime = u.runtime
        /\ Advance(u).disturbed = u.disturbed
    BY <1>6, <1>8, <1>9, Advanced
  <2> QED BY <1>3, <1>6, <2>1 DEF Same
<1>11. ASSUME NEW m \in Nodes \ req'.disturbed
       PROVE  NodeTrue(req', m, file'[m], acl'[m], used'[m])
  <2>1. NodeTrue(req, m, file[m], acl[m], used[m]) BY <1>1, <1>10
  <2>2. CASE m = n
    <3>1. file[m] = req.content BY <1>7, <2>1, <2>2 DEF NodeTrue
    <3>2. req'.runtime[m] = "applied" /\ req'.file[m] = "saved" BY <1>5, <1>7, <1>10, <2>2
    <3> QED BY <1>10, <2>2, <3>1, <3>2 DEF NodeTrue, Same
  <2>3. CASE m # n
    <3>1. req'.file[m] = req.file[m] /\ req'.runtime[m] = req.runtime[m]
      BY <1>5, <1>10, <2>3
    <3>2. NodeTrue(req', m, file[m], acl[m], used[m])
      BY <1>1, <1>10, <2>1, <3>1, OtherNode
    <3> QED BY <2>3, <3>2
  <2> QED BY <2>2, <2>3
<1>12. catalog' = req'.snap.catalog BY <1>1, <1>10 DEF Same
<1> QED BY <1>1, <1>10, <1>11, <1>12, GoesOn DEF WorldTyped

LEMMA VerifyKeeps ==
  ASSUME ListInv, VerifyAcl
  PROVE  ListInv'
<1>0. req.step = "verify" /\ "verify" \in Steps BY DEF VerifyAcl, Steps
<1>1. req \in Requests /\ req # NoReq /\ WorldTyped BY <1>0, InProgress
<1>2. UNCHANGED <<catalog, file, acl, pid, used, left>> BY DEF VerifyAcl
<1>3. CASE End(FALSE) BY <1>1, <1>2, <1>3, Ended DEF WorldTyped
<1>4. CASE ~End(FALSE)
  <2>1. /\ req' = Advance([req EXCEPT !.runtime[req.node] = "applied"]) /\ UNCHANGED page
        /\ acl[req.node] = req.content
    BY <1>4 DEF VerifyAcl
  <2>2. acl'[req.node] \in {req.content, file[req.node]} BY <1>2, <2>1
  <2>3. \A m \in Nodes : m # req.node => acl'[m] = acl[m] BY <1>2
  <2>4. pid' \in [Nodes -> 1..MaxPid] /\ acl' \in [Nodes -> Lists] BY <1>1, <1>2 DEF WorldTyped
  <2> QED BY <1>0, <1>2, <2>1, <2>2, <2>3, <2>4, AppliedKeeps
<1> QED BY <1>3, <1>4

LEMMA RestartTyped ==
  ASSUME WorldTyped, NEW n \in Nodes, Restarted(n)
  PROVE  pid' \in [Nodes -> 1..MaxPid] /\ acl' \in [Nodes -> Lists]
<1>1. MaxPid \in Nat BY ListsAssumption
<1>2. pid[n] + 1 \in 1..MaxPid BY <1>1 DEF Restarted, WorldTyped
<1>3. pid' \in [Nodes -> 1..MaxPid] BY <1>2 DEF Restarted, WorldTyped
<1>4. acl' \in [Nodes -> Lists] BY DEF Restarted, WorldTyped, Lists
<1> QED BY <1>3, <1>4

LEMMA ReloadKeeps ==
  ASSUME ListInv, ApplyReload
  PROVE  ListInv'
<1>0. req.step = "apply" /\ "apply" \in Steps BY DEF ApplyReload, Steps
<1>1. req \in Requests /\ ChangeInOrder(req) /\ WorldTyped BY <1>0, InProgress
<1>2. req.node \in Nodes /\ req.mode = "reload" BY <1>0, <1>1, RequestFields DEF ChangeInOrder
<1>3. /\ Restarted(req.node) /\ UNCHANGED <<catalog, file, used, page, left>>
      /\ req' = Advance([req EXCEPT !.runtime[req.node] = "applied"])
  BY DEF ApplyReload
<1>4. pid' \in [Nodes -> 1..MaxPid] /\ acl' \in [Nodes -> Lists]
  BY <1>1, <1>2, <1>3, RestartTyped
<1>5. /\ \A m \in Nodes : m # req.node => acl'[m] = acl[m]
      /\ used[req.node] => acl'[req.node] = file[req.node]
  BY <1>1, <1>2, <1>3 DEF Restarted, WorldTyped
<1>6. req.mode = "runtime" \/ used[req.node] => acl'[req.node] \in {req.content, file[req.node]}
  BY <1>2, <1>5
<1> QED BY <1>0, <1>3, <1>4, <1>5, <1>6, AppliedKeeps

\* A version is committed in the process that prepared it, or the file is to be restored.
LEMMA CommitKeeps ==
  ASSUME ListInv, CommitAcl
  PROVE  ListInv'
<1>0. req.step = "commit" /\ "commit" \in Steps /\ "verify" \in Steps /\ "restore" \in Steps
  BY DEF CommitAcl, Steps
<1>1. /\ req \in Requests /\ req # NoReq /\ ChangeInOrder(req) /\ WorldTyped
      /\ catalog = req.snap.catalog
      /\ \A m \in Nodes \ req.disturbed : NodeTrue(req, m, file[m], acl[m], used[m])
  BY <1>0, InProgress
<1>2. /\ req.node \in Nodes /\ req.file \in [Nodes -> FileStates] /\ req.content \in Lists
      /\ req.runtime \in [Nodes -> RuntimeStates] /\ Nodes \subseteq Nat
  BY <1>1, RequestFields DEF Nodes
<1>3. UNCHANGED <<catalog, file, pid, used, page>> BY DEF CommitAcl, GoTo
<1>4. /\ Permitted(req) /\ req.file[req.node] = "saved" /\ req.runtime[req.node] = "pending"
      /\ \A m \in Nodes : m > req.node => req.file[m] = "pending" /\ req.runtime[m] = "pending"
  BY <1>0, <1>1 DEF ChangeInOrder, Ahead
<1> DEFINE n == req.node
<1>5. ASSUME req' \in Requests, Same(req', req), req'.step \in {"verify", "restore"},
             req'.node = n, req'.version = req.version, req'.disturbed = req.disturbed,
             \A m \in Nodes : m # n => /\ req'.file[m] = req.file[m]
                                       /\ req'.runtime[m] = req.runtime[m]
                                       /\ acl'[m] = acl[m],
             req'.step = "verify" => req'.file[n] = "saved" /\ req'.runtime[n] = "pending",
             NodeTrue(req', n, file[n], acl'[n], used[n]) \/ n \in req.disturbed,
             acl' \in [Nodes -> Lists], left' \in Remaining
      PROVE  ListInv'
  <2>1. \A m \in Nodes : Ahead(req', m) => m > n BY <1>5 DEF Ahead
  <2>2. \A m \in Nodes : Ahead(req', m) => req'.file[m] = "pending" /\ req'.runtime[m] = "pending"
    BY <1>2, <1>4, <1>5, <2>1
  <2>3. Permitted(req') BY <1>4, <1>5 DEF Permitted, Same
  <2>4. ChangeInOrder(req') BY <1>1, <1>5, <2>2, <2>3 DEF ChangeInOrder, Same
  <2>5. ASSUME NEW m \in Nodes \ req'.disturbed
        PROVE  NodeTrue(req', m, file'[m], acl'[m], used'[m])
    <3>1. CASE m = n BY <1>3, <1>5, <3>1
    <3>2. CASE m # n
      <4>1. NodeTrue(req, m, file[m], acl[m], used[m]) BY <1>1, <1>5
      <4>2. req'.file[m] = req.file[m] /\ req'.runtime[m] = req.runtime[m] BY <1>5, <3>2
      <4>3. NodeTrue(req', m, file[m], acl[m], used[m])
        BY <1>0, <1>1, <1>5, <4>1, <4>2, OtherNode
      <4> QED BY <1>3, <1>5, <3>2, <4>3
    <3> QED BY <3>1, <3>2
  <2>6. catalog' = req'.snap.catalog BY <1>1, <1>3, <1>5 DEF Same
  <2> QED BY <1>1, <1>3, <1>5, <2>4, <2>5, <2>6, GoesOn DEF WorldTyped
<1>6. CASE /\ acl' = [acl EXCEPT ![n] = req.content] /\ GoTo("verify") /\ UNCHANGED left
  <2>1. req' = [req EXCEPT !.step = "verify"] BY <1>6 DEF GoTo
  <2>2. /\ req' \in Requests /\ req'.step = "verify" /\ Same(req', req) /\ req'.node = n
        /\ req'.version = req.version /\ req'.file = req.file /\ req'.runtime = req.runtime
        /\ req'.disturbed = req.disturbed
    BY <1>0, <1>1, <2>1, ListStepWrite
  <2>3. NodeTrue(req', n, file[n], acl'[n], used[n]) \/ n \in req.disturbed
    <3>1. CASE n \in req.disturbed BY <3>1
    <3>2. CASE n \notin req.disturbed
      <4>1. file[n] = req.content BY <1>1, <1>2, <1>4, <3>2 DEF NodeTrue
      <4> QED BY <1>4, <2>2, <4>1 DEF NodeTrue, Same
    <3> QED BY <3>1, <3>2
  <2>4. acl' \in [Nodes -> Lists] /\ \A m \in Nodes : m # n => acl'[m] = acl[m]
    BY <1>1, <1>2, <1>6 DEF WorldTyped
  <2> QED BY <1>1, <1>4, <1>5, <1>6, <2>2, <2>3, <2>4 DEF WorldTyped
<1>7. CASE /\ \/ UNCHANGED left
              \/ Spend("faults")
           /\ req' = [req EXCEPT !.step = "restore", !.file[n] = "unknown", !.runtime[n] = "failed"]
           /\ UNCHANGED acl
  <2> DEFINE f == [req.file EXCEPT ![n] = "unknown"]
             g == [req.runtime EXCEPT ![n] = "failed"]
  <2>1. req' = [req EXCEPT !.step = "restore", !.file = f, !.runtime = g] BY <1>1, <1>7
  <2>2. f \in [Nodes -> FileStates] /\ g \in [Nodes -> RuntimeStates]
    BY <1>2 DEF FileStates, RuntimeStates
  <2>3. /\ f[n] = "unknown" /\ g[n] = "failed"
        /\ \A m \in Nodes : m # n => f[m] = req.file[m] /\ g[m] = req.runtime[m]
    BY <1>2
  <2> HIDE DEF f, g
  <2>4. /\ req' \in Requests /\ req'.step = "restore" /\ Same(req', req) /\ req'.node = n
        /\ req'.version = req.version /\ req'.file = f /\ req'.runtime = g
        /\ req'.disturbed = req.disturbed
    BY <1>0, <1>1, <2>1, <2>2 DEF Requests, Steps, Same
  <2>5. NodeTrue(req', n, file[n], acl'[n], used[n]) BY <2>3, <2>4 DEF NodeTrue
  <2>6. left' \in Remaining
    <3>1. left \in Remaining BY <1>1 DEF WorldTyped
    <3> QED BY <1>7, <3>1, SpendLeft
  <2>7. acl' \in [Nodes -> Lists] BY <1>1, <1>7 DEF WorldTyped
  <2> QED BY <1>5, <1>7, <2>3, <2>4, <2>5, <2>6, <2>7
<1> QED BY <1>6, <1>7 DEF CommitAcl
LEMMA RestoreKeeps ==
  ASSUME ListInv, RestoreFile
  PROVE  ListInv'
<1>0. req.step \in Steps BY DEF RestoreFile, Steps
<1>1. req \in Requests /\ req # NoReq /\ WorldTyped BY <1>0, InProgress
<1>2. req.node \in Nodes /\ req.snap \in Snapshots BY <1>1, RequestFields
<1>3. req.snap.file \in [Nodes -> Lists] BY <1>2, SnapshotFields
<1>4. file' \in [Nodes -> Lists] BY <1>1, <1>2, <1>3 DEF RestoreFile, WorldTyped
<1>5. End(FALSE) /\ UNCHANGED <<catalog, acl, pid, used, left>> BY DEF RestoreFile
<1> QED BY <1>1, <1>4, <1>5, Ended DEF WorldTyped

LEMMA CatalogKeeps ==
  ASSUME ListInv, WriteCatalog
  PROVE  ListInv'
<1>0. req.step \in Steps BY DEF WriteCatalog, Steps
<1>1. req \in Requests /\ req # NoReq /\ WorldTyped BY <1>0, InProgress
<1>2. catalog' \in Lists BY <1>1, RequestFields DEF WriteCatalog
<1>3. UNCHANGED <<file, acl, pid, used>> BY DEF WriteCatalog
<1>4. left' \in Remaining
  <2>1. left \in Remaining BY <1>1 DEF WorldTyped
  <2> QED BY <2>1, SpendLeft DEF WriteCatalog
<1>5. PICK ok \in BOOLEAN : End(ok) BY DEF WriteCatalog
<1> QED BY <1>1, <1>2, <1>3, <1>4, <1>5, Ended DEF WorldTyped

LEMMA FailKeeps ==
  ASSUME ListInv, ChangeFails
  PROVE  ListInv'
<1>1. req # NoReq BY DEF ChangeFails
<1>2. req \in Requests /\ WorldTyped BY <1>1, ListTyped DEF ListInv
<1>3. req.node \in Nodes /\ req.content \in Lists BY <1>2, RequestFields
<1>4. file' \in [Nodes -> Lists] /\ acl' \in [Nodes -> Lists]
  BY <1>2, <1>3 DEF ChangeFails, WorldTyped
<1>5. End(FALSE) /\ UNCHANGED <<catalog, pid, used>> BY DEF ChangeFails
<1>6. left' \in Remaining
  <2>1. left \in Remaining BY <1>2 DEF WorldTyped
  <2> QED BY <2>1, SpendLeft DEF ChangeFails
<1> QED BY <1>1, <1>2, <1>4, <1>5, <1>6, Ended DEF WorldTyped

-----------------------------------------------------------------------------
(* The administrators, and the steps that begin something. *)

\* What an administrator does to a node is not the report's to know.
LEMMA DisturbKeeps ==
  ASSUME ListInv, NEW n \in Nodes, Disturb(n),
         file' \in [Nodes -> Lists], acl' \in [Nodes -> Lists],
         pid' \in [Nodes -> 1..MaxPid], used' \in [Nodes -> BOOLEAN],
         \A m \in Nodes : m # n => file'[m] = file[m] /\ acl'[m] = acl[m] /\ used'[m] = used[m]
  PROVE  ListInv'
<1>1. WorldTyped /\ req \in Requests \cup {NoReq} BY ListTyped DEF ListInv
<1>2. UNCHANGED <<catalog, page>> BY DEF Disturb
<1>3. left' \in Remaining
  <2>1. left \in Remaining BY <1>1 DEF WorldTyped
  <2> QED BY <2>1, SpendLeft DEF Disturb
<1>4. CASE req = NoReq
  <2>1. req' = NoReq BY <1>4 DEF Disturb
  <2>2. ListTypeOK' BY <1>1, <1>2, <1>3, <2>1 DEF ListTypeOK, WorldTyped
  <2> QED BY <2>1, <2>2 DEF ListInv, CatalogSeen, ReportTrue, NoReq
<1>5. CASE req # NoReq
  <2>1. req \in Requests /\ ChangeInOrder(req) BY <1>1, <1>5 DEF ListInv
  <2>2. /\ req.step \in Steps /\ req.disturbed \in SUBSET Nodes BY <2>1, RequestFields
  <2>3. /\ req.step \notin {"check", "refresh"} => catalog = req.snap.catalog
        /\ \A m \in Nodes \ req.disturbed : NodeTrue(req, m, file[m], acl[m], used[m])
    BY <2>2, InProgress
  <2> DEFINE d == req.disturbed \cup {n}
  <2>4. req' = [req EXCEPT !.disturbed = d] BY <1>5 DEF Disturb
  <2>5. d \in SUBSET Nodes BY <2>2
  <2>6. /\ req' \in Requests /\ req'.disturbed = d /\ Same(req', req) /\ req'.node = req.node
        /\ req'.step = req.step /\ req'.version = req.version /\ req'.file = req.file
        /\ req'.runtime = req.runtime
    BY <2>1, <2>4, <2>5 DEF Requests, Same
  <2>7. ChangeInOrder(req') BY <2>1, <2>6 DEF ChangeInOrder, Ahead, Permitted, Same
  <2>8. ASSUME NEW m \in Nodes \ req'.disturbed
        PROVE  NodeTrue(req', m, file'[m], acl'[m], used'[m])
    <3>1. m # n /\ m \in Nodes \ req.disturbed BY <2>6
    <3>2. NodeTrue(req, m, file[m], acl[m], used[m]) BY <2>3, <3>1
    <3>3. file'[m] = file[m] /\ acl'[m] = acl[m] /\ used'[m] = used[m] BY <3>1
    <3> QED BY <2>6, <3>2, <3>3 DEF NodeTrue, Same
  <2>9. req'.step \notin {"check", "refresh"} => catalog' = req'.snap.catalog
    BY <1>2, <2>3, <2>6 DEF Same
  <2> QED BY <1>1, <1>2, <1>3, <2>6, <2>7, <2>8, <2>9, GoesOn DEF WorldTyped
<1> QED BY <1>4, <1>5

LEMMA AdministratorKeeps ==
  ASSUME ListInv, NEW n \in Nodes, EditFile(n) \/ EditAcl(n) \/ EditConfig(n) \/ ReloadHaproxy(n)
  PROVE  ListInv'
<1>1. WorldTyped BY ListTyped DEF ListInv
<1>2. CASE EditFile(n)
  <2>1. /\ file' \in [Nodes -> Lists] /\ \A m \in Nodes : m # n => file'[m] = file[m]
    BY <1>1, <1>2 DEF EditFile, WorldTyped
  <2>2. Disturb(n) /\ UNCHANGED <<acl, pid, used>> BY <1>2 DEF EditFile
  <2> QED BY <1>1, <2>1, <2>2, DisturbKeeps DEF WorldTyped
<1>3. CASE EditAcl(n)
  <2>1. /\ acl' \in [Nodes -> Lists] /\ \A m \in Nodes : m # n => acl'[m] = acl[m]
    BY <1>1, <1>3 DEF EditAcl, WorldTyped, Lists
  <2>2. Disturb(n) /\ UNCHANGED <<file, pid, used>> BY <1>3 DEF EditAcl
  <2> QED BY <1>1, <2>1, <2>2, DisturbKeeps DEF WorldTyped
<1>4. CASE EditConfig(n)
  <2>1. /\ used' \in [Nodes -> BOOLEAN] /\ \A m \in Nodes : m # n => used'[m] = used[m]
    BY <1>1, <1>4 DEF EditConfig, WorldTyped
  <2>2. Disturb(n) /\ UNCHANGED <<file, acl, pid>> BY <1>4 DEF EditConfig
  <2> QED BY <1>1, <2>1, <2>2, DisturbKeeps DEF WorldTyped
<1>5. CASE ReloadHaproxy(n)
  <2>1. Restarted(n) /\ Disturb(n) /\ UNCHANGED <<file, used>> BY <1>5 DEF ReloadHaproxy
  <2>2. pid' \in [Nodes -> 1..MaxPid] /\ acl' \in [Nodes -> Lists] BY <1>1, <2>1, RestartTyped
  <2>3. \A m \in Nodes : m # n => acl'[m] = acl[m] BY <1>1, <2>1 DEF Restarted, WorldTyped
  <2> QED BY <1>1, <2>1, <2>2, <2>3, DisturbKeeps DEF WorldTyped
<1> QED BY <1>2, <1>3, <1>4, <1>5
LEMMA PageKeeps ==
  ASSUME ListInv, NEW p \in Pages,
         \/ OpenEditor(p) \/ CloseEditor(p) \/ CheckNew(p) \/ Refetch(p) \/ ConfirmRemove(p)
  PROVE  ListInv'
<1>1. WorldTyped BY ListTyped DEF ListInv
<1>2. Revision \in Snapshots BY <1>1, RevisionTyped
<1>3. UNCHANGED <<catalog, file, acl, pid, used, req, left>>
  BY DEF OpenEditor, CloseEditor, CheckNew, Refetch, ConfirmRemove
<1>4. \/ \E mode \in {"editing", "creating", "removing"} : Show(p, mode, Revision)
      \/ \E mode \in {"closed", "editing"} : Show(p, mode, NoSnap)
  BY DEF OpenEditor, CloseEditor, CheckNew, Refetch, ConfirmRemove
<1>5. page' \in [Pages -> Editors]
  BY <1>1, <1>2, <1>4, Shown DEF WorldTyped
<1> QED BY <1>3, <1>5, PageOnly

LEMMA SpentChanges ==
  ASSUME WorldTyped, Spend("changes")
  PROVE  left' \in Remaining
BY SpendLeft DEF WorldTyped

LEMMA SaveKeeps ==
  ASSUME ListInv, NEW p \in Pages, SendSave(p)
  PROVE  ListInv'
<1>1. WorldTyped BY ListTyped DEF ListInv
<1>2. page[p] \in Editors /\ page[p].snap # NoSnap BY <1>1 DEF WorldTyped, SendSave
<1>3. page[p].snap \in Snapshots BY <1>2 DEF Editors
<1>4. PICK c \in Contents : req' = NewRequest(p, "save", c, "runtime", page[p].snap)
  BY DEF SendSave
<1>5. c \in Lists /\ c # Absent BY ListsAssumption DEF Lists
<1>6. Fresh(req') BY <1>3, <1>4, <1>5, NewRequestFits
<1>7. page' \in [Pages -> Editors]
  <2>1. Show(p, "sending", page[p].snap) BY DEF SendSave
  <2> QED BY <1>1, <1>3, <2>1, Shown DEF WorldTyped
<1>8. UNCHANGED <<catalog, file, acl, pid, used>> BY DEF SendSave
<1>9. left' \in Remaining BY <1>1, SpentChanges DEF SendSave
<1> QED BY <1>6, <1>7, <1>8, <1>9, Requested

LEMMA RemoveKeeps ==
  ASSUME ListInv, NEW p \in Pages, SendRemove(p)
  PROVE  ListInv'
<1>1. WorldTyped BY ListTyped DEF ListInv
<1>2. page[p] \in Editors /\ page[p].mode = "removing" BY <1>1 DEF WorldTyped, SendRemove
<1>3. page[p].snap \in Snapshots BY <1>2 DEF Editors
<1>4. req' = NewRequest(p, "delete", Absent, "runtime", page[p].snap) BY DEF SendRemove
<1>5. Absent \in Lists BY DEF Lists
<1>6. Fresh(req') BY <1>3, <1>4, <1>5, NewRequestFits
<1>7. page' \in [Pages -> Editors] BY <1>1 DEF SendRemove, WorldTyped
<1>8. UNCHANGED <<catalog, file, acl, pid, used>> BY DEF SendRemove
<1>9. left' \in Remaining BY <1>1, SpentChanges DEF SendRemove
<1> QED BY <1>6, <1>7, <1>8, <1>9, Requested

LEMMA LegacyKeeps ==
  ASSUME ListInv, LegacyChange
  PROVE  ListInv'
<1>1. WorldTyped BY ListTyped DEF ListInv
<1>2. Revision \in Snapshots BY <1>1, RevisionTyped
<1>3. Absent \in Lists /\ \A c \in Contents : c \in Lists /\ c # Absent
  BY ListsAssumption DEF Lists
<1>4. CASE \E c \in Contents, mode \in {"runtime", "reload"} :
              req' = NewRequest(NoPage, "save", c, mode, Revision)
  <2>1. PICK c \in Contents, mode \in {"runtime", "reload"} :
           req' = NewRequest(NoPage, "save", c, mode, Revision)
    BY <1>4
  <2>2. Fresh(NewRequest(NoPage, "save", c, mode, Revision)) BY <1>2, <1>3, NewRequestFits
  <2>3. Fresh(req') BY <2>1, <2>2
  <2>4. page' \in [Pages -> Editors] BY <1>1 DEF LegacyChange, WorldTyped
  <2>5. UNCHANGED <<catalog, file, acl, pid, used>> BY DEF LegacyChange
  <2>6. left' \in Remaining BY <1>1, SpentChanges DEF LegacyChange
  <2> QED BY <2>3, <2>4, <2>5, <2>6, Requested
<1>5. CASE req' = NewRequest(NoPage, "delete", Absent, "runtime", Revision)
  <2>2. Fresh(NewRequest(NoPage, "delete", Absent, "runtime", Revision))
    BY <1>2, <1>3, NewRequestFits
  <2>3. Fresh(req') BY <1>5, <2>2
  <2>4. page' \in [Pages -> Editors] BY <1>1 DEF LegacyChange, WorldTyped
  <2>5. UNCHANGED <<catalog, file, acl, pid, used>> BY DEF LegacyChange
  <2>6. left' \in Remaining BY <1>1, SpentChanges DEF LegacyChange
  <2> QED BY <2>3, <2>4, <2>5, <2>6, Requested
<1> QED BY <1>4, <1>5 DEF LegacyChange

LEMMA CreateKeeps ==
  ASSUME ListInv, CreateEmpty
  PROVE  ListInv'
<1>1. WorldTyped /\ req = NoReq BY ListTyped DEF ListInv, CreateEmpty
<1>2. catalog' \in Lists BY ListsAssumption DEF CreateEmpty, Lists
<1>3. left' \in Remaining BY <1>1, SpentChanges DEF CreateEmpty
<1>4. UNCHANGED <<file, acl, pid, used, page, req>> BY DEF CreateEmpty
<1>5. ListTypeOK' BY <1>1, <1>2, <1>3, <1>4 DEF ListTypeOK, WorldTyped
<1> QED BY <1>1, <1>4, <1>5 DEF ListInv, CatalogSeen, ReportTrue, NoReq

-----------------------------------------------------------------------------
(* The invariant. *)

LEMMA ListInitially == ListInit => ListInv
<1> SUFFICES ASSUME ListInit PROVE ListInv
  OBVIOUS
<1>1. 1 \in 1..MaxPid BY ListsAssumption
<1>2. /\ catalog \in Lists /\ file \in [Nodes -> Lists] /\ acl \in [Nodes -> Lists]
      /\ used \in [Nodes -> BOOLEAN]
  BY DEF ListInit, Lists
<1>3. pid \in [Nodes -> 1..MaxPid] BY <1>1 DEF ListInit
<1>4. page \in [Pages -> Editors]
  <2>1. [mode |-> "closed", snap |-> NoSnap] \in Editors BY DEF Editors
  <2> QED BY <2>1 DEF ListInit
<1>5. left \in Remaining BY ListsAssumption DEF ListInit, Remaining
<1>6. req = NoReq BY DEF ListInit
<1>7. ListTypeOK BY <1>2, <1>3, <1>4, <1>5, <1>6 DEF ListTypeOK
<1> QED BY <1>6, <1>7 DEF ListInv, CatalogSeen, ReportTrue, NoReq

LEMMA ListKeeps == ListInv /\ [ListNext]_listVars => ListInv'
<1> SUFFICES ASSUME ListInv, [ListNext]_listVars PROVE ListInv'
  OBVIOUS
<1>1. CASE \E p \in Pages : \/ OpenEditor(p) \/ CloseEditor(p) \/ CheckNew(p) \/ Refetch(p)
                            \/ ConfirmRemove(p)
  BY <1>1, PageKeeps
<1>2. CASE \E p \in Pages : SendSave(p) BY <1>2, SaveKeeps
<1>3. CASE \E p \in Pages : SendRemove(p) BY <1>3, RemoveKeeps
<1>4. CASE LegacyChange BY <1>4, LegacyKeeps
<1>5. CASE CreateEmpty BY <1>5, CreateKeeps
<1>6. CASE CheckRevision BY <1>6, CheckKeeps
<1>7. CASE RefreshRevision BY <1>7, RefreshKeeps
<1>8. CASE WriteFile BY <1>8, WriteKeeps
<1>9. CASE CommitAcl BY <1>9, CommitKeeps
<1>10. CASE RestoreFile BY <1>10, RestoreKeeps
<1>11. CASE VerifyAcl BY <1>11, VerifyKeeps
<1>12. CASE ApplyReload BY <1>12, ReloadKeeps
<1>13. CASE WriteCatalog BY <1>13, CatalogKeeps
<1>14. CASE ChangeFails BY <1>14, FailKeeps
<1>15. CASE \E n \in Nodes : EditFile(n) \/ EditAcl(n) \/ EditConfig(n) \/ ReloadHaproxy(n)
  BY <1>15, AdministratorKeeps
<1>16. CASE UNCHANGED listVars
  <2>1. UNCHANGED <<catalog, file, acl, pid, used, req, left>> /\ page' = page
    BY <1>16 DEF listVars
  <2>2. page' \in [Pages -> Editors] BY <2>1 DEF ListInv, ListTypeOK
  <2> QED BY <2>1, <2>2, PageOnly
<1> QED BY <1>1, <1>2, <1>3, <1>4, <1>5, <1>6, <1>7, <1>8, <1>9, <1>10, <1>11, <1>12, <1>13,
          <1>14, <1>15, <1>16 DEF ListNext
-----------------------------------------------------------------------------
(* What the steps of a change may not do. *)

NothingBlind ==
    /\ \A n \in Nodes : ByChange /\ file'[n] # file[n] => file[n] \in {req.snap.file[n], req.content}
    /\ catalog' # catalog /\ req # NoReq => catalog = req.snap.catalog
UsedKept ==
    \A n \in Nodes : ByChange /\ used[n] /\ file[n] # Absent /\ file'[n] = Absent
          => req.snap.file[n] = Absent

\* Every file but that of the node a change has come to is left alone by the change.
LEMMA WrittenFile ==
  ASSUME ListInv, req.step = "write", Expected(req.node, req.snap.file[req.node]),
         file' = [file EXCEPT ![req.node] = req.content]
  PROVE  /\ \A n \in Nodes : file'[n] # file[n] => file[n] = req.snap.file[n]
         /\ \A n \in Nodes : used[n] /\ file[n] # Absent => file'[n] # Absent
<1>0. req.step \in Steps BY DEF Steps
<1>1. req \in Requests /\ ChangeInOrder(req) /\ WorldTyped BY <1>0, InProgress
<1>2. req.node \in Nodes /\ req.op \in {"save", "delete"} BY <1>1, RequestFields
<1>3. used[req.node] => req.content # Absent
  <2>1. Permitted(req) /\ (req.op = "save" => req.content # Absent) BY <1>1 DEF ChangeInOrder
  <2> QED BY <1>2, <2>1 DEF Permitted, Expected
<1> QED BY <1>1, <1>2, <1>3 DEF Expected, WorldTyped

LEMMA StepHonest ==
  ASSUME ListInv, [ListNext]_listVars
  PROVE  NothingBlind /\ UsedKept
<1>1. CASE WriteFile
  <2>1. CASE UNCHANGED file
    BY <1>1, <2>1 DEF WriteFile, NothingBlind, UsedKept
  <2>2. CASE ~UNCHANGED file
    <3>1. /\ req.step = "write" /\ Expected(req.node, req.snap.file[req.node])
          /\ file' = [file EXCEPT ![req.node] = req.content]
      BY <1>1, <2>2 DEF WriteFile
    <3> QED BY <1>1, <3>1, WrittenFile DEF NothingBlind, UsedKept, WriteFile
  <2> QED BY <2>1, <2>2
<1>2. CASE RestoreFile
  <2>0. req.step \in Steps BY <1>2 DEF RestoreFile, Steps
  <2>1. req \in Requests /\ WorldTyped BY <2>0, InProgress
  <2>2. req.node \in Nodes BY <2>1, RequestFields
  <2>3. \A n \in Nodes : file'[n] # file[n] => file[n] = req.content /\ file'[n] = req.snap.file[n]
    BY <1>2, <2>1, <2>2 DEF RestoreFile, Expected, WorldTyped
  <2> QED BY <1>2, <2>3 DEF RestoreFile, NothingBlind, UsedKept
<1>3. CASE ChangeFails
  <2>1. CASE UNCHANGED file
    BY <1>3, <2>1 DEF ChangeFails, NothingBlind, UsedKept
  <2>2. CASE ~UNCHANGED file
    <3>1. /\ req.step = "write" /\ Expected(req.node, req.snap.file[req.node])
          /\ file' = [file EXCEPT ![req.node] = req.content]
      BY <1>3, <2>2 DEF ChangeFails
    <3> QED BY <1>3, <3>1, WrittenFile DEF NothingBlind, UsedKept, ChangeFails
  <2> QED BY <2>1, <2>2
<1>4. CASE WriteCatalog
  <2>1. req.step = "catalog" /\ UNCHANGED file BY <1>4 DEF WriteCatalog
  <2>2. catalog = req.snap.catalog BY <2>1 DEF ListInv, CatalogSeen
  <2> QED BY <2>1, <2>2 DEF NothingBlind, UsedKept
<1>5. CASE \E n \in Nodes : EditFile(n)
  <2>1. Spend("foreign") /\ UNCHANGED catalog BY <1>5 DEF EditFile, Disturb
  <2>2. left \in Remaining BY DEF ListInv, ListTypeOK
  <2>3. ~ByChange BY <2>1, <2>2, SpendLeft DEF ByChange
  <2> QED BY <2>1, <2>3 DEF NothingBlind, UsedKept
<1>6. CASE CreateEmpty
  BY <1>6 DEF CreateEmpty, NothingBlind, UsedKept
<1>7. CASE UNCHANGED <<catalog, file>>
  BY <1>7 DEF NothingBlind, UsedKept
<1>8. \/ WriteFile \/ RestoreFile \/ ChangeFails \/ WriteCatalog
      \/ \E n \in Nodes : EditFile(n)
      \/ CreateEmpty \/ UNCHANGED <<catalog, file>>
  <2>1. ASSUME NEW p \in Pages,
               \/ OpenEditor(p) \/ CloseEditor(p) \/ CheckNew(p) \/ Refetch(p)
               \/ ConfirmRemove(p) \/ SendSave(p) \/ SendRemove(p)
        PROVE  UNCHANGED <<catalog, file>>
    BY <2>1 DEF OpenEditor, CloseEditor, CheckNew, Refetch, ConfirmRemove, SendSave, SendRemove
  <2>2. ASSUME LegacyChange \/ CheckRevision \/ RefreshRevision \/ CommitAcl \/ VerifyAcl \/ ApplyReload
        PROVE  UNCHANGED <<catalog, file>>
    BY <2>2 DEF LegacyChange, CheckRevision, RefreshRevision, CommitAcl, VerifyAcl, ApplyReload
  <2>3. ASSUME NEW n \in Nodes, EditAcl(n) \/ EditConfig(n) \/ ReloadHaproxy(n)
        PROVE  UNCHANGED <<catalog, file>>
    BY <2>3 DEF EditAcl, EditConfig, ReloadHaproxy, Disturb
  <2>4. UNCHANGED listVars => UNCHANGED <<catalog, file>> BY DEF listVars
  <2> QED BY <2>1, <2>2, <2>3, <2>4 DEF ListNext
<1> QED BY <1>1, <1>2, <1>3, <1>4, <1>5, <1>6, <1>7, <1>8

-----------------------------------------------------------------------------
\* Whatever the pages, the administrators and the faults do, the list in every place, the
\* editors and the change being applied are of their types.
THEOREM ListTypeCorrect == ListSpec => []ListTypeOK
<1>1. ListSpec => []ListInv BY ListInitially, ListKeeps, PTL DEF ListSpec
<1>2. ListInv => ListTypeOK BY DEF ListInv
<1> QED BY <1>1, <1>2, PTL

\* A change of an address list overwrites no file and no catalogue entry its page was not
\* shown, deletes no file in use, and reports the truth about every node nobody else touched:
\* change, its steps and its failures.
THEOREM ListsHonest == ListSpec => ListChangesHonest
<1>1. ListSpec => []ListInv BY ListInitially, ListKeeps, PTL DEF ListSpec
<1>2. ListInv => ReportTrue BY DEF ListInv
<1>3. ListInv /\ [ListNext]_listVars
      => /\ [/\ \A n \in Nodes : ByChange /\ file'[n] # file[n] =>
                   file[n] \in {req.snap.file[n], req.content}
             /\ catalog' # catalog /\ req # NoReq => catalog = req.snap.catalog]_listVars
         /\ [\A n \in Nodes : ByChange /\ used[n] /\ file[n] # Absent /\ file'[n] = Absent
                => req.snap.file[n] = Absent]_listVars
  BY StepHonest DEF NothingBlind, UsedKept
<1> QED BY <1>1, <1>2, <1>3, PTL
        DEF ListSpec, ListChangesHonest, NodesKept, NoBlindOverwrite, UsedListKept
-----------------------------------------------------------------------------
(* Certificates. *)

\* How an operation proceeds: the phase is decided once, and every server is finished in the
\* way that was decided.
Finishes == {"commit", "rollback"}
WayOf(r) == \E d \in Finishes : \A s \in Servers : r.target[s].finished \in {"none", d}
InOrder(r, u) ==
    /\ r.status = "none" => u.step = "none" /\ r.phase = "apply"
    /\ u.step \in {"apply", "deploy", "abort"} => r.phase = "apply"
    /\ u.step = "finish" => r.phase \in Finishes
    /\ u.step # "none" => r.status = "running"
    /\ r.phase = "done" => /\ r.status \in {"completed", "failed"} /\ WayOf(r)
                           /\ \A s \in Servers : r.target[s].started => r.target[s].finished # "none"
    /\ r.phase = "apply" => \A s \in Servers : r.target[s].finished = "none"
    /\ r.phase \in Finishes => \A s \in Servers : r.target[s].finished \in {"none", r.phase}
    /\ r.phase = "commit" => \A s \in Servers : r.target[s].started
    /\ u.step = "deploy" => r.target[u.at].started /\ r.target[u.at].status = "applying"
    /\ r.phase = "apply" => \A s \in Servers : r.target[s].status = "applied" => r.target[s].started

\* A journal belongs to an operation that has begun on the server and not finished there.
JournalOpen(j, s) ==
    j # NoJournal => /\ row[j.op].status # "none" /\ j.new = row[j.op].cert
                     /\ row[j.op].target[s].started /\ row[j.op].target[s].finished = "none"

\* What is on a server whose files no administrator has edited.
Certain(j, s) == \/ row[j.op].phase = "commit"
                 \/ row[j.op].phase = "apply" /\ row[j.op].target[s].status = "applied"
HostFits(s) ==
    /\ journal[s] = NoJournal => mem[s] = disk[s]
    /\ journal[s] # NoJournal => /\ {disk[s], mem[s]} \subseteq {journal[s].old, journal[s].new}
                                 /\ Certain(journal[s], s) => {disk[s], mem[s]} = {journal[s].new}

\* The certificate a server will have when the operation that holds it is finished there.
Value(s) ==
    IF journal[s] = NoJournal THEN disk[s]
    ELSE IF row[journal[s].op].phase = "commit" THEN journal[s].new ELSE journal[s].old

\* Two servers that will differ are the business of an operation that is committed on one and
\* waits for the other.
Waiting(r, t) == r.phase = "commit" /\ r.target[t].finished = "none"
Waits(s, t)   == \E o \in Ops : row[o].cert = Value(s) /\ Waiting(row[o], t)
Settled(s, t) == Value(s) = Value(t) \/ Waits(s, t) \/ Waits(t, s)

CertInv ==
    /\ CertTypeOK
    /\ \A o \in Ops : InOrder(row[o], run[o])
    /\ \A s \in Servers : JournalOpen(journal[s], s)
    /\ Untouched => /\ \A s \in Servers : HostFits(s)
                    /\ \A s, t \in Servers : Settled(s, t)

-----------------------------------------------------------------------------
(* The rows. *)

Entries  == [op : Ops, old : Certs, new : Certs]
Rows     == [status : {"none", "created", "running", "completed", "failed"},
             phase : {"apply", "commit", "rollback", "done"},
             cert : Certs, revision : Certs, target : [Servers -> Targets]]
Runs     == [step : {"none", "apply", "deploy", "abort", "finish"}, at : Servers,
             tried : SUBSET Servers]
BudgetTyped == budget \in [CertKinds -> Nat] /\ \A k \in CertKinds : budget[k] <= CertBound[k]
HostTyped ==
    /\ disk \in [Servers -> Certs] /\ mem \in [Servers -> Certs]
    /\ journal \in [Servers -> Entries \cup {NoJournal}]
    /\ applied \in [Servers -> Certs \cup {NoCert}]
    /\ undone \in [Servers -> [op : Ops, cert : Certs] \cup {NoReceipt}]
WorkTyped == row \in [Ops -> Rows] /\ run \in [Ops -> Runs]

LEMMA Typed == CertTypeOK <=> HostTyped /\ WorkTyped /\ BudgetTyped
BY DEF CertTypeOK, HostTyped, WorkTyped, BudgetTyped, Entries, Rows, Runs

LEMMA TypedNext == CertTypeOK' <=> HostTyped' /\ WorkTyped' /\ BudgetTyped'
BY DEF CertTypeOK, HostTyped, WorkTyped, BudgetTyped, Entries, Rows, Runs

LEMMA RowFields ==
  ASSUME NEW r \in Rows, NEW s \in Servers
  PROVE  /\ r.status \in {"none", "created", "running", "completed", "failed"}
         /\ r.phase \in {"apply", "commit", "rollback", "done"}
         /\ r.cert \in Certs /\ r.revision \in Certs
         /\ r.target \in [Servers -> Targets] /\ r.target[s] \in Targets
         /\ r.target[s].started \in BOOLEAN /\ r.target[s].finished \in {"none", "commit", "rollback"}
BY DEF Rows, Targets

LEMMA RunFields ==
  ASSUME NEW u \in Runs
  PROVE  /\ u.step \in {"none", "apply", "deploy", "abort", "finish"}
         /\ u.at \in Servers /\ u.tried \in SUBSET Servers
BY DEF Runs

LEMMA JournalFields ==
  ASSUME NEW j \in Entries \cup {NoJournal}
  PROVE  /\ j = NoJournal <=> j.op \notin Ops
         /\ j # NoJournal => /\ j \in Entries /\ j.op \in Ops /\ j.old \in Certs /\ j.new \in Certs
BY CertificateAssumption DEF Entries, NoJournal

\* A row of which only the status of one target was written, and one without a worker.
OnlyStatus(n, r, s) ==
    /\ n.status = r.status /\ n.phase = r.phase /\ n.cert = r.cert /\ n.revision = r.revision
    /\ \A t \in Servers : /\ n.target[t].started = r.target[t].started
                          /\ n.target[t].finished = r.target[t].finished
                          /\ t # s => n.target[t].status = r.target[t].status

TargetStatus == {"pending", "applying", "applied", "failed", "rolled_back", "not_applied"}

WritesStatus(o, s, x) == row' = [row EXCEPT ![o].target[s].status = x]

LEMMA StatusWrite ==
  ASSUME row \in [Ops -> Rows], NEW o \in Ops, NEW s \in Servers, NEW x \in TargetStatus,
         WritesStatus(o, s, x)
  PROVE  /\ row' \in [Ops -> Rows] /\ \A q \in Ops : q # o => row'[q] = row[q]
         /\ OnlyStatus(row'[o], row[o], s) /\ row'[o].target[s].status = x
<1>1. row[o] \in Rows OBVIOUS
<1> DEFINE t == [row[o].target EXCEPT ![s].status = x]
           w == [row[o] EXCEPT !.target = t]
<1>2. row' = [row EXCEPT ![o] = w] BY <1>1 DEF WritesStatus
<1>3. row[o].target \in [Servers -> Targets] BY <1>1 DEF Rows
<1>4. /\ t \in [Servers -> Targets]
      /\ \A y \in Servers : /\ t[y].started = row[o].target[y].started
                            /\ t[y].finished = row[o].target[y].finished
                            /\ t[y].status = IF y = s THEN x ELSE row[o].target[y].status
  BY <1>3 DEF Targets, TargetStatus
<1> HIDE DEF t
<1>5. /\ w \in Rows /\ w.target = t /\ w.status = row[o].status /\ w.phase = row[o].phase
      /\ w.cert = row[o].cert /\ w.revision = row[o].revision
  BY <1>1, <1>4 DEF Rows
<1> HIDE DEF w
<1> QED BY <1>2, <1>4, <1>5 DEF OnlyStatus

LEMMA StepWrite ==
  ASSUME run \in [Ops -> Runs], NEW o \in Ops,
         NEW x \in {"none", "apply", "deploy", "abort", "finish"},
         run' = [run EXCEPT ![o].step = x]
  PROVE  /\ run' \in [Ops -> Runs] /\ \A q \in Ops : q # o => run'[q] = run[q]
         /\ run'[o].step = x /\ run'[o].at = run[o].at /\ run'[o].tried = run[o].tried
BY DEF Runs

LEMMA RunGone ==
  ASSUME run \in [Ops -> Runs], NEW o \in Ops, run' = [run EXCEPT ![o] = NoRun]
  PROVE  /\ run' \in [Ops -> Runs] /\ \A q \in Ops : q # o => run'[q] = run[q]
         /\ run'[o].step = "none" /\ run'[o] = NoRun
BY CertificateAssumption DEF Runs, NoRun, Servers

\* What is spent is never given back.
LEMMA SpentTyped ==
  ASSUME BudgetTyped, NEW k \in CertKinds \ {"total"}, Spent(k)
  PROVE  BudgetTyped' /\ (Untouched' => Untouched) /\ (k = "foreign" => ~Untouched')
<1>1. /\ budget[k] > 0 /\ budget["total"] > 0
      /\ budget' = [budget EXCEPT ![k] = @ - 1, !["total"] = @ - 1]
  BY DEF Spent
<1>2. /\ budget \in [CertKinds -> Nat] /\ CertBound["foreign"] = MaxForeign
      /\ "total" \in CertKinds /\ "foreign" \in CertKinds /\ k # "total"
      /\ \A x \in CertKinds : CertBound[x] \in Nat
  BY CertificateAssumption DEF BudgetTyped, CertKinds, CertBound
<1>3. \A x \in CertKinds : budget'[x] = IF x \in {k, "total"} THEN budget[x] - 1 ELSE budget[x]
  BY <1>1, <1>2
<1>4. \A x \in CertKinds : budget[x] \in Nat /\ budget'[x] \in Nat /\ budget'[x] <= budget[x]
  BY <1>1, <1>2, <1>3
<1>5. budget' \in [CertKinds -> Nat] BY <1>1, <1>2, <1>4
<1>6. BudgetTyped'
  <2>1. ASSUME NEW x \in CertKinds PROVE budget'[x] <= CertBound[x]
    <3>1. budget[x] <= CertBound[x] /\ CertBound[x] \in Nat BY <1>2 DEF BudgetTyped
    <3> QED BY <1>4, <3>1
  <2> QED BY <1>5, <2>1 DEF BudgetTyped
<1>7. budget["foreign"] <= MaxForeign BY <1>2 DEF BudgetTyped
<1>8. Untouched' => Untouched BY <1>2, <1>4, <1>7, CertificateAssumption DEF Untouched
<1>9. k = "foreign" => ~Untouched'
  BY <1>2, <1>3, <1>4, <1>7, CertificateAssumption DEF Untouched
<1> QED BY <1>6, <1>8, <1>9

-----------------------------------------------------------------------------
(* What the servers will have. *)

\* Every operation that waits goes on waiting, unless what it waits for has come.
LEMMA SettledStill ==
  ASSUME \A s \in Servers : Value(s)' = Value(s),
         \A q \in Ops, t \in Servers :
             Waiting(row[q], t) => \/ row'[q].cert = row[q].cert /\ Waiting(row'[q], t)
                                   \/ row[q].cert = Value(t),
         NEW s \in Servers, NEW t \in Servers, Settled(s, t)
  PROVE  Settled(s, t)'
<1>1. ASSUME NEW x \in Servers, NEW y \in Servers, Waits(x, y)
      PROVE  Waits(x, y)' \/ Value(x) = Value(y)
  <2>1. PICK o \in Ops : row[o].cert = Value(x) /\ Waiting(row[o], y) BY <1>1 DEF Waits
  <2>2. CASE row'[o].cert = row[o].cert /\ Waiting(row'[o], y) BY <2>1, <2>2 DEF Waits, Waiting
  <2>3. CASE row[o].cert = Value(y) BY <2>1, <2>3
  <2> QED BY <2>1, <2>2, <2>3
<1>2. Value(s)' = Value(s) /\ Value(t)' = Value(t) OBVIOUS
<1> QED BY <1>1, <1>2 DEF Settled

\* What a step makes of the row of an operation o, as far as the servers are concerned.
Carried(o) ==
    /\ \A q \in Ops : q # o => row'[q] = row[q]
    /\ row'[o].phase = "commit" <=> row[o].phase = "commit"
    /\ row[o].status # "none" => row'[o].status # "none" /\ row'[o].cert = row[o].cert
    /\ row[o].phase = "commit" => row'[o].cert = row[o].cert
    /\ \A t \in Servers : /\ row'[o].target[t].finished = row[o].target[t].finished
                          /\ row[o].target[t].started => row'[o].target[t].started

\* A step that leaves the servers alone.
LEMMA WorldStill ==
  ASSUME CertInv, UNCHANGED host, NEW o \in Ops, Carried(o), Untouched' => Untouched,
         \A s \in Servers : journal[s].op = o /\ row'[o].phase = "apply"
                            /\ row'[o].target[s].status = "applied"
                                => row[o].phase = "apply" /\ row[o].target[s].status = "applied"
  PROVE  /\ \A s \in Servers : JournalOpen(journal[s], s)'
         /\ Untouched' => /\ \A s \in Servers : HostFits(s)'
                          /\ \A s, t \in Servers : Settled(s, t)'
<1>1. \A s \in Servers : journal[s] \in Entries \cup {NoJournal} /\ JournalOpen(journal[s], s)
  BY Typed DEF CertInv, HostTyped
<1>2. UNCHANGED <<disk, mem, journal>> BY DEF host
<1>3. \A s \in Servers : JournalOpen(journal[s], s)'
  <2> SUFFICES ASSUME NEW s \in Servers, journal[s] # NoJournal
               PROVE  JournalOpen(journal[s], s)'
    BY <1>2 DEF JournalOpen
  <2>1. journal[s].op \in Ops BY <1>1, JournalFields
  <2>2. CASE journal[s].op = o BY <1>1, <1>2, <2>2 DEF JournalOpen, Carried
  <2>3. CASE journal[s].op # o BY <1>1, <1>2, <2>1, <2>3 DEF JournalOpen, Carried
  <2> QED BY <2>2, <2>3
<1>4. \A s \in Servers : Value(s)' = Value(s)
  <2> SUFFICES ASSUME NEW s \in Servers PROVE Value(s)' = Value(s) OBVIOUS
  <2>1. CASE journal[s] = NoJournal BY <1>2, <2>1 DEF Value
  <2>2. CASE journal[s] # NoJournal
    <3>1. journal[s].op \in Ops BY <1>1, <2>2, JournalFields
    <3>2. row'[journal[s].op].phase = "commit" <=> row[journal[s].op].phase = "commit"
      BY <3>1 DEF Carried
    <3> QED BY <1>2, <2>2, <3>2 DEF Value
  <2> QED BY <2>1, <2>2
<1>5. ASSUME Untouched', NEW s \in Servers PROVE HostFits(s)'
  <2>1. HostFits(s) BY <1>5 DEF CertInv
  <2>2. CASE journal[s] = NoJournal BY <1>2, <2>1, <2>2 DEF HostFits
  <2>3. CASE journal[s] # NoJournal
    <3>1. journal[s].op \in Ops BY <1>1, <2>3, JournalFields
    <3>2. Certain(journal[s], s)' => Certain(journal[s], s)
      <4>1. CASE journal[s].op = o BY <1>2, <4>1 DEF Certain, Carried
      <4>2. CASE journal[s].op # o BY <1>2, <3>1, <4>2 DEF Certain, Carried
      <4> QED BY <4>1, <4>2
    <3> QED BY <1>2, <2>1, <2>3, <3>2 DEF HostFits
  <2> QED BY <2>2, <2>3
<1>6. ASSUME Untouched', NEW s \in Servers, NEW t \in Servers PROVE Settled(s, t)'
  <2>1. Settled(s, t) BY <1>6 DEF CertInv
  <2>2. \A q \in Ops, y \in Servers : Waiting(row[q], y)
                  => row'[q].cert = row[q].cert /\ Waiting(row'[q], y)
    BY DEF Waiting, Carried
  <2> QED BY <1>4, <2>1, <2>2, SettledStill
<1> QED BY <1>3, <1>5, <1>6

-----------------------------------------------------------------------------
(* The steps that leave the servers alone. *)

LEMMA RowStep ==
  ASSUME CertInv, UNCHANGED host, NEW o \in Ops, WorkTyped', BudgetTyped',
         Untouched' => Untouched, Carried(o), \A q \in Ops : q # o => run'[q] = run[q],
         InOrder(row'[o], run'[o]),
         \A s \in Servers : journal[s].op = o /\ row'[o].phase = "apply"
                            /\ row'[o].target[s].status = "applied"
                                => row[o].phase = "apply" /\ row[o].target[s].status = "applied"
  PROVE  CertInv'
<1>1. HostTyped' BY Typed DEF CertInv, HostTyped, host
<1>2. CertTypeOK' BY <1>1, TypedNext
<1>3. \A q \in Ops : InOrder(row'[q], run'[q]) BY DEF CertInv, Carried
<1> QED BY <1>2, <1>3, WorldStill DEF CertInv

LEMMA EnqueueKeeps ==
  ASSUME CertInv, NEW o \in Ops, EnqueueUpdate(o)
  PROVE  CertInv'
<1>1. HostTyped /\ WorkTyped /\ BudgetTyped BY Typed DEF CertInv
<1>2. PICK c \in Certs : row' = [row EXCEPT ![o].status = "created", ![o].cert = c,
                                            ![o].revision = disk[1]]
  BY DEF EnqueueUpdate
<1>3. UNCHANGED <<host, run, budget>> /\ row[o].status = "none" BY DEF EnqueueUpdate
<1>4. row[o] \in Rows /\ disk[1] \in Certs
  BY <1>1, CertificateAssumption DEF WorkTyped, HostTyped, Servers
<1> DEFINE w == [row[o] EXCEPT !.status = "created", !.cert = c, !.revision = disk[1]]
<1>5. row' = [row EXCEPT ![o] = w] BY <1>1, <1>2 DEF WorkTyped
<1>6. /\ w \in Rows /\ w.status = "created" /\ w.cert = c /\ w.phase = row[o].phase
      /\ w.target = row[o].target
  BY <1>4 DEF Rows
<1> HIDE DEF w
<1>7. row' \in [Ops -> Rows] /\ row'[o] = w /\ \A q \in Ops : q # o => row'[q] = row[q]
  BY <1>1, <1>5, <1>6 DEF WorkTyped
<1>8. InOrder(row[o], run[o]) BY DEF CertInv
<1>9. row[o].phase = "apply" BY <1>3, <1>8 DEF InOrder
<1>10. InOrder(row'[o], run'[o]) BY <1>3, <1>6, <1>7, <1>8, <1>9 DEF InOrder
<1>11. Carried(o) BY <1>3, <1>6, <1>7, <1>9 DEF Carried
<1>12. WorkTyped' /\ BudgetTyped' /\ (Untouched' => Untouched)
  BY <1>1, <1>3, <1>7 DEF WorkTyped, BudgetTyped, Untouched
<1> QED BY <1>3, <1>6, <1>7, <1>9, <1>10, <1>11, <1>12, RowStep

LEMMA ExecuteKeeps ==
  ASSUME CertInv, NEW o \in Ops, ExecuteUpdate(o)
  PROVE  CertInv'
<1>1. HostTyped /\ WorkTyped /\ BudgetTyped BY Typed DEF CertInv
<1>2. /\ row[o].status \in {"created", "running"} /\ run[o] = NoRun
      /\ row' = [row EXCEPT ![o].status = "running"] /\ UNCHANGED <<host, budget>>
  BY DEF ExecuteUpdate
<1>3. PICK x : x = IF row[o].phase = "apply" THEN "apply" ELSE "finish" OBVIOUS
<1>4. run' = [run EXCEPT ![o].step = x] BY <1>3 DEF ExecuteUpdate
<1>5. /\ run' \in [Ops -> Runs] /\ run'[o].step = x
      /\ \A q \in Ops : q # o => run'[q] = run[q]
  BY <1>1, <1>3, <1>4, StepWrite DEF WorkTyped
<1>6. row[o] \in Rows BY <1>1 DEF WorkTyped
<1> DEFINE w == [row[o] EXCEPT !.status = "running"]
<1>7. /\ w \in Rows /\ w.status = "running" /\ w.cert = row[o].cert /\ w.phase = row[o].phase
      /\ w.target = row[o].target
  BY <1>6 DEF Rows
<1>8. row' = [row EXCEPT ![o] = w] BY <1>1, <1>2 DEF WorkTyped
<1> HIDE DEF w
<1>9. row' \in [Ops -> Rows] /\ row'[o] = w /\ \A q \in Ops : q # o => row'[q] = row[q]
  BY <1>1, <1>7, <1>8 DEF WorkTyped
<1>10. InOrder(row[o], run[o]) /\ row[o].phase \in {"apply", "commit", "rollback", "done"}
  BY <1>6 DEF CertInv, Rows
<1>11. InOrder(row'[o], run'[o])
  BY <1>2, <1>3, <1>5, <1>7, <1>9, <1>10 DEF InOrder, Finishes
<1>12. Carried(o) BY <1>2, <1>7, <1>9 DEF Carried
<1>13. WorkTyped' /\ BudgetTyped' /\ (Untouched' => Untouched)
  BY <1>1, <1>2, <1>5, <1>9 DEF WorkTyped, BudgetTyped, Untouched
<1> QED BY <1>2, <1>5, <1>7, <1>9, <1>11, <1>12, <1>13, RowStep

LEMMA RetryKeeps ==
  ASSUME CertInv, NEW o \in Ops, RetryUpdate(o)
  PROVE  CertInv'
<1>1. HostTyped /\ WorkTyped /\ BudgetTyped BY Typed DEF CertInv
<1>2. /\ row[o].status = "failed" /\ row[o].phase \in {"commit", "rollback"} /\ Spent("retries")
      /\ row' = [row EXCEPT ![o].status = "created"] /\ UNCHANGED <<host, run>>
  BY DEF RetryUpdate
<1>3. row[o] \in Rows BY <1>1 DEF WorkTyped
<1> DEFINE w == [row[o] EXCEPT !.status = "created"]
<1>4. /\ w \in Rows /\ w.status = "created" /\ w.cert = row[o].cert /\ w.phase = row[o].phase
      /\ w.target = row[o].target
  BY <1>3 DEF Rows
<1>5. row' = [row EXCEPT ![o] = w] BY <1>1, <1>2 DEF WorkTyped
<1> HIDE DEF w
<1>6. row' \in [Ops -> Rows] /\ row'[o] = w /\ \A q \in Ops : q # o => row'[q] = row[q]
  BY <1>1, <1>4, <1>5 DEF WorkTyped
<1>7. InOrder(row[o], run[o]) BY DEF CertInv
<1>8. InOrder(row'[o], run'[o]) BY <1>2, <1>4, <1>6, <1>7 DEF InOrder, Finishes
<1>9. Carried(o) BY <1>2, <1>4, <1>6 DEF Carried
<1>10. BudgetTyped' /\ (Untouched' => Untouched) BY <1>1, <1>2, SpentTyped DEF CertKinds
<1>11. WorkTyped' BY <1>1, <1>2, <1>6 DEF WorkTyped
<1> QED BY <1>2, <1>4, <1>6, <1>8, <1>9, <1>10, <1>11, RowStep

\* The worker has gone, or what it has to do is read anew: the row stays.
LEMMA RunStep ==
  ASSUME CertInv, UNCHANGED <<host, row>>, NEW o \in Ops, run' \in [Ops -> Runs],
         \A q \in Ops : q # o => run'[q] = run[q],
         NEW k \in CertKinds \ {"total"}, Spent(k),
         \/ run'[o].step = "none"
         \/ run'[o].step = "abort" /\ run[o].step \in {"apply", "abort"}
  PROVE  CertInv'
<1>1. HostTyped /\ WorkTyped /\ BudgetTyped BY Typed DEF CertInv
<1>2. InOrder(row[o], run[o]) BY DEF CertInv
<1>3. InOrder(row'[o], run'[o]) BY <1>2 DEF InOrder
<1>4. Carried(o) BY DEF Carried
<1>5. WorkTyped' BY <1>1 DEF WorkTyped
<1>6. BudgetTyped' /\ (Untouched' => Untouched) BY <1>1, SpentTyped
<1> QED BY <1>3, <1>4, <1>5, <1>6, RowStep

LEMMA GoneKeeps ==
  ASSUME CertInv, NEW o \in Ops, WorkerGone(o)
  PROVE  CertInv'
<1>1. WorkTyped BY Typed DEF CertInv
<1>2. Spent("crashes") /\ run' = [run EXCEPT ![o] = NoRun] /\ UNCHANGED <<host, row>>
  BY DEF WorkerGone
<1> QED BY <1>1, <1>2, RunGone, RunStep DEF WorkTyped, CertKinds

LEMMA CannotKeeps ==
  ASSUME CertInv, NEW o \in Ops, CannotApply(o)
  PROVE  CertInv'
<1>1. WorkTyped BY Typed DEF CertInv
<1>2. /\ run[o].step = "apply" /\ Spent("faults") /\ run' = [run EXCEPT ![o].step = "abort"]
      /\ UNCHANGED <<host, row>>
  BY DEF CannotApply
<1>3. /\ run' \in [Ops -> Runs] /\ run'[o].step = "abort"
      /\ \A q \in Ops : q # o => run'[q] = run[q]
  BY <1>1, <1>2, StepWrite DEF WorkTyped
<1> QED BY <1>2, <1>3, RunStep DEF CertKinds

LEMMA BeginKeeps ==
  ASSUME CertInv, NEW o \in Ops, BeginTarget(o)
  PROVE  CertInv'
<1>1. HostTyped /\ WorkTyped /\ BudgetTyped BY Typed DEF CertInv
<1>2. PICK s \in Servers :
        /\ row' = [row EXCEPT ![o].target[s].status = "applying", ![o].target[s].started = TRUE]
        /\ run' = [run EXCEPT ![o].step = "deploy", ![o].at = s]
  BY DEF BeginTarget
<1>3. run[o].step = "apply" /\ UNCHANGED <<host, budget>> BY DEF BeginTarget
<1>4. row[o] \in Rows /\ run[o] \in Runs BY <1>1 DEF WorkTyped
<1> DEFINE t == [row[o].target EXCEPT ![s].status = "applying", ![s].started = TRUE]
           w == [row[o] EXCEPT !.target = t]
           u == [run[o] EXCEPT !.step = "deploy", !.at = s]
<1>5. row' = [row EXCEPT ![o] = w] /\ run' = [run EXCEPT ![o] = u]
  <2>1. run' = [run EXCEPT ![o] = u] BY <1>1, <1>2 DEF WorkTyped
  <2>2. row[o].target \in [Servers -> Targets] BY <1>4 DEF Rows
  <2>3. row' = [row EXCEPT ![o] = w] BY <1>1, <1>2, <1>4, <2>2 DEF WorkTyped, Rows, Targets
  <2> QED BY <2>1, <2>3
<1>6. row[o].target \in [Servers -> Targets] BY <1>4 DEF Rows
<1>7. /\ t \in [Servers -> Targets] /\ t[s].started /\ t[s].status = "applying"
      /\ \A y \in Servers : /\ t[y].finished = row[o].target[y].finished
                            /\ row[o].target[y].started => t[y].started
                            /\ y # s => t[y] = row[o].target[y]
  BY <1>6 DEF Targets
<1> HIDE DEF t
<1>8. /\ w \in Rows /\ w.target = t /\ w.status = row[o].status /\ w.phase = row[o].phase
      /\ w.cert = row[o].cert
  BY <1>4, <1>7 DEF Rows
<1>9. u \in Runs /\ u.step = "deploy" /\ u.at = s BY <1>4 DEF Runs
<1> HIDE DEF w, u
<1>10. /\ row' \in [Ops -> Rows] /\ row'[o] = w /\ \A q \in Ops : q # o => row'[q] = row[q]
       /\ run' \in [Ops -> Runs] /\ run'[o] = u /\ \A q \in Ops : q # o => run'[q] = run[q]
  BY <1>1, <1>5, <1>8, <1>9 DEF WorkTyped
<1>11. InOrder(row[o], run[o]) BY DEF CertInv
<1>12. row[o].phase = "apply" /\ row[o].status = "running" BY <1>3, <1>11 DEF InOrder
<1>13. InOrder(row'[o], run'[o])
  BY <1>7, <1>8, <1>9, <1>10, <1>11, <1>12 DEF InOrder, Finishes
<1>14. Carried(o) BY <1>7, <1>8, <1>10 DEF Carried
<1>15. \A y \in Servers : row'[o].target[y].status = "applied" => row[o].target[y].status = "applied"
  BY <1>7, <1>8, <1>10
<1>16. WorkTyped' /\ BudgetTyped' /\ (Untouched' => Untouched)
  BY <1>1, <1>3, <1>10 DEF WorkTyped, BudgetTyped, Untouched
<1> QED BY <1>3, <1>10, <1>12, <1>13, <1>14, <1>15, <1>16, RowStep

LEMMA AbortKeeps ==
  ASSUME CertInv, NEW o \in Ops, AbortUpdate(o)
  PROVE  CertInv'
<1>1. HostTyped /\ WorkTyped /\ BudgetTyped BY Typed DEF CertInv
<1>2. row[o] \in Rows BY <1>1 DEF WorkTyped
<1> DEFINE t == [s \in Servers |-> IF row[o].target[s].started THEN row[o].target[s]
                                   ELSE [row[o].target[s] EXCEPT !.status = "not_applied"]]
           w == [row[o] EXCEPT !.phase = "rollback", !.target = t]
<1>3. /\ run[o].step = "abort" /\ run' = [run EXCEPT ![o].step = "finish"]
      /\ UNCHANGED <<host, budget>>
  BY DEF AbortUpdate
<1>4. row' = [row EXCEPT ![o] = w] BY <1>1, <1>2 DEF AbortUpdate, WorkTyped
<1>5. row[o].target \in [Servers -> Targets] BY <1>2 DEF Rows
<1>6. /\ t \in [Servers -> Targets]
      /\ \A y \in Servers : /\ t[y].finished = row[o].target[y].finished
                            /\ row[o].target[y].started => t[y].started
  BY <1>5 DEF Targets
<1> HIDE DEF t
<1>7. /\ w \in Rows /\ w.target = t /\ w.status = row[o].status /\ w.phase = "rollback"
      /\ w.cert = row[o].cert
  BY <1>2, <1>6 DEF Rows
<1> HIDE DEF w
<1>8. row' \in [Ops -> Rows] /\ row'[o] = w /\ \A q \in Ops : q # o => row'[q] = row[q]
  BY <1>1, <1>4, <1>7 DEF WorkTyped
<1>9. /\ run' \in [Ops -> Runs] /\ run'[o].step = "finish"
      /\ \A q \in Ops : q # o => run'[q] = run[q]
  BY <1>1, <1>3, StepWrite DEF WorkTyped
<1>10. InOrder(row[o], run[o]) BY DEF CertInv
<1>11. row[o].phase = "apply" /\ row[o].status = "running" BY <1>3, <1>10 DEF InOrder
<1>12. InOrder(row'[o], run'[o]) BY <1>6, <1>7, <1>8, <1>9, <1>10, <1>11 DEF InOrder, Finishes
<1>13. Carried(o) BY <1>6, <1>7, <1>8, <1>11 DEF Carried
<1>14. WorkTyped' /\ BudgetTyped' /\ (Untouched' => Untouched)
  BY <1>1, <1>3, <1>8, <1>9 DEF WorkTyped, BudgetTyped, Untouched
<1> QED BY <1>3, <1>7, <1>8, <1>9, <1>12, <1>13, <1>14, RowStep

\* The decision gives every server that the operation holds its new certificate at once; the
\* operation waits for the others.
LEMMA DecideKeeps ==
  ASSUME CertInv, NEW o \in Ops, DecideCommit(o)
  PROVE  CertInv'
<1>1. HostTyped /\ WorkTyped /\ BudgetTyped BY Typed DEF CertInv
<1>2. /\ run[o].step = "apply" /\ ToApply(o) = {}
      /\ row' = [row EXCEPT ![o].phase = "commit"]
      /\ run' = [run EXCEPT ![o].step = "finish"] /\ UNCHANGED <<host, budget>>
  BY DEF DecideCommit
<1>3. row[o] \in Rows BY <1>1 DEF WorkTyped
<1> DEFINE w == [row[o] EXCEPT !.phase = "commit"]
<1>4. row' = [row EXCEPT ![o] = w] BY <1>1, <1>2 DEF WorkTyped
<1>5. /\ w \in Rows /\ w.target = row[o].target /\ w.status = row[o].status /\ w.phase = "commit"
      /\ w.cert = row[o].cert
  BY <1>3 DEF Rows
<1> HIDE DEF w
<1>6. row' \in [Ops -> Rows] /\ row'[o] = w /\ \A q \in Ops : q # o => row'[q] = row[q]
  BY <1>1, <1>4, <1>5 DEF WorkTyped
<1>7. /\ run' \in [Ops -> Runs] /\ run'[o].step = "finish"
      /\ \A q \in Ops : q # o => run'[q] = run[q]
  BY <1>1, <1>2, StepWrite DEF WorkTyped
<1>8. InOrder(row[o], run[o]) BY DEF CertInv
<1>9. row[o].phase = "apply" /\ row[o].status = "running" BY <1>2, <1>8 DEF InOrder
<1>10. \A s \in Servers : /\ row[o].target[s].status = "applied" /\ row[o].target[s].started
                          /\ row[o].target[s].finished = "none"
  BY <1>2, <1>8, <1>9 DEF ToApply, InOrder
<1>11. \A q \in Ops : InOrder(row'[q], run'[q])
  <2>1. InOrder(row'[o], run'[o]) BY <1>5, <1>6, <1>7, <1>8, <1>9, <1>10 DEF InOrder, Finishes
  <2> QED BY <1>6, <1>7, <2>1 DEF CertInv
<1>12. UNCHANGED <<disk, mem, journal>> /\ HostTyped' BY <1>1, <1>2 DEF host, HostTyped
<1>13. WorkTyped' /\ BudgetTyped' /\ (Untouched' => Untouched)
  BY <1>1, <1>2, <1>6, <1>7 DEF WorkTyped, BudgetTyped, Untouched
<1>14. \A s \in Servers : journal[s] \in Entries \cup {NoJournal} /\ JournalOpen(journal[s], s)
  BY <1>1 DEF CertInv, HostTyped
<1>15. \A s \in Servers : JournalOpen(journal[s], s)'
  <2> SUFFICES ASSUME NEW s \in Servers, journal[s] # NoJournal
               PROVE  JournalOpen(journal[s], s)'
    BY <1>12 DEF JournalOpen
  <2>1. journal[s].op \in Ops BY <1>14, JournalFields
  <2>2. CASE journal[s].op = o BY <1>5, <1>6, <1>12, <1>14, <2>2 DEF JournalOpen
  <2>3. CASE journal[s].op # o BY <1>6, <1>12, <1>14, <2>1, <2>3 DEF JournalOpen
  <2> QED BY <2>2, <2>3
<1>16. ASSUME Untouched', NEW s \in Servers PROVE HostFits(s)'
  <2>1. HostFits(s) BY <1>13, <1>16 DEF CertInv
  <2>2. CASE journal[s] = NoJournal BY <1>12, <2>1, <2>2 DEF HostFits
  <2>3. CASE journal[s] # NoJournal
    <3>1. journal[s].op \in Ops BY <1>14, <2>3, JournalFields
    <3>2. Certain(journal[s], s)' => Certain(journal[s], s)
      <4>1. CASE journal[s].op = o BY <1>9, <1>10, <4>1 DEF Certain
      <4>2. CASE journal[s].op # o BY <1>6, <1>12, <3>1, <4>2 DEF Certain
      <4> QED BY <4>1, <4>2
    <3> QED BY <1>12, <2>1, <2>3, <3>2 DEF HostFits
  <2> QED BY <2>2, <2>3
<1>17. ASSUME Untouched', NEW s \in Servers, NEW t \in Servers PROVE Settled(s, t)'
  <2>1. \A x \in Servers : Value(x)' = IF journal[x].op = o THEN row[o].cert ELSE Value(x)
    <3> SUFFICES ASSUME NEW x \in Servers
                 PROVE  Value(x)' = IF journal[x].op = o THEN row[o].cert ELSE Value(x)
      OBVIOUS
    <3>1. CASE journal[x].op = o
      <4>1. journal[x] # NoJournal BY <1>14, <3>1, JournalFields
      <4>2. journal[x].new = row[o].cert BY <1>14, <3>1, <4>1 DEF JournalOpen
      <4> QED BY <1>5, <1>6, <1>12, <3>1, <4>1, <4>2 DEF Value
    <3>2. CASE journal[x] # NoJournal /\ journal[x].op # o
      <4>1. journal[x].op \in Ops BY <1>14, <3>2, JournalFields
      <4> QED BY <1>6, <1>12, <3>2, <4>1 DEF Value
    <3>3. CASE journal[x] = NoJournal
      <4>1. journal[x].op # o BY <1>14, <3>3, JournalFields
      <4> QED BY <1>12, <3>3, <4>1 DEF Value
    <3> QED BY <3>1, <3>2, <3>3
  <2>2. \A y \in Servers : Waiting(row'[o], y) /\ row'[o].cert = row[o].cert
    BY <1>5, <1>6, <1>10 DEF Waiting
  <2>3. ASSUME NEW x \in Servers, NEW y \in Servers, journal[x].op = o PROVE Waits(x, y)'
    <3>1. Value(x)' = row[o].cert BY <2>1, <2>3
    <3> QED BY <2>2, <3>1 DEF Waits, Waiting
  <2>4. ASSUME NEW x \in Servers, NEW y \in Servers, journal[x].op # o, Waits(x, y)
        PROVE  Waits(x, y)'
    <3>1. PICK q \in Ops : row[q].cert = Value(x) /\ Waiting(row[q], y) BY <2>4 DEF Waits
    <3>2. q # o BY <1>9, <3>1 DEF Waiting
    <3>3. row'[q] = row[q] /\ Value(x)' = Value(x) BY <1>6, <2>1, <2>4, <3>2
    <3> QED BY <3>1, <3>3 DEF Waits, Waiting
  <2>5. Settled(s, t) BY <1>13, <1>17 DEF CertInv
  <2>6. CASE journal[s].op = o \/ journal[t].op = o BY <2>3, <2>6 DEF Settled
  <2>7. CASE journal[s].op # o /\ journal[t].op # o BY <2>1, <2>4, <2>5, <2>7 DEF Settled
  <2> QED BY <2>6, <2>7
<1>18. CertTypeOK' BY <1>12, <1>13, TypedNext
<1> QED BY <1>11, <1>15, <1>16, <1>17, <1>18 DEF CertInv

\* An operation ends when it waits for no server and holds none.
LEMMA EndKeeps ==
  ASSUME CertInv, NEW o \in Ops, EndUpdate(o)
  PROVE  CertInv'
<1>1. HostTyped /\ WorkTyped /\ BudgetTyped BY Typed DEF CertInv
<1>2. /\ run[o].step = "finish" /\ run' = [run EXCEPT ![o] = NoRun] /\ UNCHANGED <<host, budget>>
  BY DEF EndUpdate
<1>3. row[o] \in Rows BY <1>1 DEF WorkTyped
<1>4. /\ run' \in [Ops -> Runs] /\ run'[o].step = "none"
      /\ \A q \in Ops : q # o => run'[q] = run[q]
  BY <1>1, <1>2, RunGone DEF WorkTyped
<1>5. InOrder(row[o], run[o]) BY DEF CertInv
<1>6. row[o].phase \in Finishes /\ row[o].status = "running" BY <1>2, <1>5 DEF InOrder
<1>7. BudgetTyped' /\ (Untouched' => Untouched) BY <1>1, <1>2 DEF BudgetTyped, Untouched
<1>8. CASE ToFinish(o) # {}
  <2> DEFINE w == [row[o] EXCEPT !.status = "failed"]
  <2>1. row' = [row EXCEPT ![o] = w] BY <1>1, <1>8 DEF EndUpdate, WorkTyped
  <2>2. /\ w \in Rows /\ w.status = "failed" /\ w.cert = row[o].cert /\ w.phase = row[o].phase
        /\ w.target = row[o].target
    BY <1>3 DEF Rows
  <2> HIDE DEF w
  <2>3. row' \in [Ops -> Rows] /\ row'[o] = w /\ \A q \in Ops : q # o => row'[q] = row[q]
    BY <1>1, <2>1, <2>2 DEF WorkTyped
  <2>4. InOrder(row'[o], run'[o]) BY <1>4, <1>5, <1>6, <2>2, <2>3 DEF InOrder, Finishes
  <2>5. Carried(o) BY <2>2, <2>3 DEF Carried
  <2>6. WorkTyped' BY <1>4, <2>3 DEF WorkTyped
  <2> QED BY <1>2, <1>4, <1>6, <1>7, <2>2, <2>3, <2>4, <2>5, <2>6, RowStep DEF Finishes
<1>9. CASE ToFinish(o) = {}
  <2> DEFINE x == IF row[o].phase = "commit" THEN "completed" ELSE "failed"
             w == [row[o] EXCEPT !.phase = "done", !.status = x]
  <2>1. row' = [row EXCEPT ![o] = w] BY <1>1, <1>9 DEF EndUpdate, WorkTyped
  <2>2. /\ w \in Rows /\ w.status \in {"completed", "failed"} /\ w.cert = row[o].cert
        /\ w.phase = "done" /\ w.target = row[o].target
    BY <1>3 DEF Rows
  <2> HIDE DEF x, w
  <2>3. row' \in [Ops -> Rows] /\ row'[o] = w /\ \A q \in Ops : q # o => row'[q] = row[q]
    BY <1>1, <2>1, <2>2 DEF WorkTyped
  <2>4. \A s \in Servers : row[o].target[s].started => row[o].target[s].finished = row[o].phase
    BY <1>9 DEF ToFinish
  <2>5. \A q \in Ops : InOrder(row'[q], run'[q])
    <3>1. WayOf(row'[o]) BY <1>5, <1>6, <2>2, <2>3 DEF InOrder, WayOf
    <3>2. InOrder(row'[o], run'[o])
      BY <1>4, <1>6, <2>2, <2>3, <2>4, <3>1 DEF InOrder, Finishes
    <3> QED BY <1>4, <2>3, <3>2 DEF CertInv
  <2>6. WorkTyped' BY <1>4, <2>3 DEF WorkTyped
  <2>7. UNCHANGED <<disk, mem, journal>> /\ HostTyped' BY <1>1, <1>2 DEF host, HostTyped
  <2>8. \A s \in Servers : journal[s] \in Entries \cup {NoJournal} /\ JournalOpen(journal[s], s)
    BY <1>1 DEF CertInv, HostTyped
  <2>9. \A s \in Servers : journal[s] # NoJournal => journal[s].op \in Ops /\ journal[s].op # o
    <3> SUFFICES ASSUME NEW s \in Servers, journal[s] # NoJournal
                 PROVE  journal[s].op \in Ops /\ journal[s].op # o
      OBVIOUS
    <3>1. journal[s].op \in Ops BY <2>8, JournalFields
    <3>2. journal[s].op # o BY <1>6, <2>4, <2>8 DEF JournalOpen, Finishes
    <3> QED BY <3>1, <3>2
  <2>10. \A s \in Servers : journal[s] # NoJournal => row'[journal[s].op] = row[journal[s].op]
    BY <2>3, <2>9
  <2>11. \A s \in Servers : JournalOpen(journal[s], s)' BY <2>7, <2>8, <2>10 DEF JournalOpen
  <2>12. \A s \in Servers : HostFits(s) => HostFits(s)'
    BY <2>7, <2>10 DEF HostFits, Certain
  <2>13. \A s \in Servers : Value(s)' = Value(s)
    <3> SUFFICES ASSUME NEW s \in Servers PROVE Value(s)' = Value(s) OBVIOUS
    <3>1. CASE journal[s] = NoJournal BY <2>7, <3>1 DEF Value
    <3>2. CASE journal[s] # NoJournal
      <4>1. row'[journal[s].op] = row[journal[s].op] BY <2>10, <3>2
      <4> QED BY <2>7, <3>2, <4>1 DEF Value
    <3> QED BY <3>1, <3>2
  <2>14. \A q \in Ops, t \in Servers :
             Waiting(row[q], t) => row'[q].cert = row[q].cert /\ Waiting(row'[q], t)
    <3> SUFFICES ASSUME NEW q \in Ops, NEW t \in Servers, Waiting(row[q], t)
                 PROVE  row'[q].cert = row[q].cert /\ Waiting(row'[q], t)
      OBVIOUS
    <3>1. q # o BY <1>5, <2>4 DEF Waiting, InOrder
    <3> QED BY <2>3, <3>1
  <2>15. ASSUME Untouched', NEW s \in Servers, NEW t \in Servers PROVE Settled(s, t)'
    <3>1. Settled(s, t) BY <1>7, <2>15 DEF CertInv
    <3> QED BY <2>13, <2>14, <3>1, SettledStill
  <2>16. CertTypeOK' BY <1>7, <2>6, <2>7, TypedNext
  <2> QED BY <1>7, <2>5, <2>11, <2>12, <2>15, <2>16 DEF CertInv
<1> QED BY <1>8, <1>9

-----------------------------------------------------------------------------
(* The deployment. *)

\* What becomes of the row and of its worker after a deployment that succeeded, or did not.
Answered(o, s, ok) ==
    /\ WorkTyped' /\ BudgetTyped' /\ (Untouched' => Untouched)
    /\ Carried(o) /\ row'[o].phase = "apply"
    /\ \A q \in Ops : q # o => run'[q] = run[q]
    /\ InOrder(row'[o], run'[o])
    /\ \A t \in Servers : t # s => row'[o].target[t].status = row[o].target[t].status
    /\ ~ok => row'[o].target[s].status # "applied"

LEMMA Deploying ==
  ASSUME CertInv, NEW o \in Ops, run[o].step = "deploy", NEW s, s = run[o].at
  PROVE  /\ s \in Servers /\ row[o] \in Rows /\ run[o] \in Runs
         /\ row[o].phase = "apply" /\ row[o].status = "running" /\ row[o].target[s].started
         /\ row[o].target[s].status = "applying" /\ row[o].target[s].finished = "none"
<1>1. WorkTyped BY Typed DEF CertInv
<1>2. row[o] \in Rows /\ run[o] \in Runs /\ s \in Servers BY <1>1, RunFields DEF WorkTyped
<1>3. InOrder(row[o], run[o]) BY DEF CertInv
<1> QED BY <1>2, <1>3 DEF InOrder

\* The answer is written to the row, and the worker goes on.
LEMMA AnswerWritten ==
  ASSUME CertInv, NEW o \in Ops, run[o].step = "deploy", NEW s, s = run[o].at,
         NEW ok \in BOOLEAN, NEW x, x = IF ok THEN "applied" ELSE "failed",
         WritesStatus(o, s, x),
         NEW y \in {"apply", "abort"}, run' = [run EXCEPT ![o].step = y],
         BudgetTyped', Untouched' => Untouched
  PROVE  Answered(o, s, ok)
<1>1. WorkTyped BY Typed DEF CertInv
<1>2. /\ s \in Servers /\ row[o].phase = "apply" /\ row[o].status = "running"
      /\ row[o].target[s].started /\ row[o].target[s].finished = "none"
  BY Deploying
<1>3. x \in TargetStatus BY DEF TargetStatus
<1>4. /\ row' \in [Ops -> Rows] /\ \A q \in Ops : q # o => row'[q] = row[q]
      /\ OnlyStatus(row'[o], row[o], s) /\ row'[o].target[s].status = x
  <2>1. row \in [Ops -> Rows] /\ s \in Servers BY <1>1, <1>2 DEF WorkTyped
  <2> QED BY <1>3, <2>1, StatusWrite
<1>5. /\ run' \in [Ops -> Runs] /\ run'[o].step = y /\ \A q \in Ops : q # o => run'[q] = run[q]
  BY <1>1, StepWrite DEF WorkTyped
<1>6. InOrder(row[o], run[o]) BY DEF CertInv
<1>7. Carried(o) BY <1>4 DEF Carried, OnlyStatus
<1>8. InOrder(row'[o], run'[o])
  <2>1. /\ row'[o].phase = "apply" /\ row'[o].status = "running" /\ run'[o].step \in {"apply", "abort"}
    BY <1>2, <1>4, <1>5 DEF OnlyStatus
  <2>2. \A t \in Servers : row'[o].target[t].finished = "none"
    BY <1>2, <1>4, <1>6 DEF OnlyStatus, InOrder
  <2>3. ASSUME NEW t \in Servers, row'[o].target[t].status = "applied"
        PROVE  row'[o].target[t].started
    BY <1>2, <1>4, <1>6, <2>3 DEF OnlyStatus, InOrder
  <2> QED BY <2>1, <2>2, <2>3 DEF InOrder, Finishes
<1>9. WorkTyped' BY <1>4, <1>5 DEF WorkTyped
<1>10. row'[o].phase = "apply" BY <1>2, <1>4 DEF OnlyStatus
<1> QED BY <1>4, <1>5, <1>7, <1>8, <1>9, <1>10 DEF Answered, OnlyStatus

LEMMA DeployRecorded ==
  ASSUME CertInv, NEW o \in Ops, run[o].step = "deploy", NEW s, s = run[o].at,
         NEW ok \in BOOLEAN, RecordDeploy(o, s, ok)
  PROVE  Answered(o, s, ok)
<1>1. WorkTyped /\ BudgetTyped BY Typed DEF CertInv
<1>2. CASE /\ row' = [row EXCEPT ![o].target[s].status = IF ok THEN "applied" ELSE "failed"]
           /\ run' = [run EXCEPT ![o].step = IF ok THEN "apply" ELSE "abort"]
           /\ UNCHANGED budget
  <2>1. BudgetTyped' /\ (Untouched' => Untouched) BY <1>1, <1>2 DEF BudgetTyped, Untouched
  <2>2. PICK x : x = IF ok THEN "applied" ELSE "failed" OBVIOUS
  <2>3. PICK y \in {"apply", "abort"} : y = IF ok THEN "apply" ELSE "abort" OBVIOUS
  <2>4. WritesStatus(o, s, x) BY <1>2, <2>2 DEF WritesStatus
  <2>5. run' = [run EXCEPT ![o].step = y] BY <1>2, <2>3
  <2> QED BY <2>1, <2>2, <2>4, <2>5, AnswerWritten
<1>3. CASE Spent("crashes") /\ run' = [run EXCEPT ![o] = NoRun] /\ UNCHANGED row
  <2>1. BudgetTyped' /\ (Untouched' => Untouched) BY <1>1, <1>3, SpentTyped DEF CertKinds
  <2>2. /\ run' \in [Ops -> Runs] /\ run'[o].step = "none"
        /\ \A q \in Ops : q # o => run'[q] = run[q]
    BY <1>1, <1>3, RunGone DEF WorkTyped
  <2>3. InOrder(row[o], run[o]) BY DEF CertInv
  <2>4. row[o].phase = "apply" /\ row[o].target[s].status = "applying" BY Deploying
  <2>5. InOrder(row'[o], run'[o]) BY <1>3, <2>2, <2>3, <2>4 DEF InOrder
  <2>6. Carried(o) BY <1>3 DEF Carried
  <2>7. WorkTyped' BY <1>1, <1>3, <2>2 DEF WorkTyped
  <2> QED BY <1>3, <2>1, <2>2, <2>4, <2>5, <2>6, <2>7 DEF Answered
<1> QED BY <1>2, <1>3 DEF RecordDeploy

\* The journal with which a deployment begins keeps the certificate the server had.
LEMMA Begun ==
  ASSUME CertInv, NEW o \in Ops, NEW s \in Servers, ~Refuses(o, s), row[o].phase = "apply"
  PROVE  /\ journal[s] = NoJournal \/ journal[s].op = o
         /\ JournalFor(o, s) \in Entries /\ JournalFor(o, s).op = o
         /\ JournalFor(o, s).new = row[o].cert /\ JournalFor(o, s).old = Value(s)
         /\ Untouched => {disk[s], mem[s]} \subseteq {JournalFor(o, s).old, JournalFor(o, s).new}
<1>1. HostTyped /\ WorkTyped BY Typed DEF CertInv
<1>2. journal[s] \in Entries \cup {NoJournal} /\ disk[s] \in Certs /\ row[o].cert \in Certs
  BY <1>1, RowFields DEF HostTyped, WorkTyped
<1>3. CASE journal[s] = NoJournal
  <2>1. ~Owned(o, s) BY <1>2, <1>3, JournalFields DEF Owned
  <2>2. JournalFor(o, s) = [op |-> o, old |-> disk[s], new |-> row[o].cert]
    BY <2>1 DEF JournalFor
  <2>3. Untouched => mem[s] = disk[s] BY <1>3 DEF CertInv, HostFits
  <2> QED BY <1>2, <1>3, <2>2, <2>3 DEF Entries, Value
<1>4. CASE journal[s] # NoJournal
  <2>1. Owned(o, s) BY <1>4 DEF Refuses
  <2>2. JournalFor(o, s) = journal[s] /\ journal[s].op = o BY <2>1 DEF JournalFor, Owned
  <2>3. JournalOpen(journal[s], s) BY DEF CertInv
  <2>4. journal[s].new = row[o].cert BY <1>4, <2>2, <2>3 DEF JournalOpen
  <2>5. Untouched => {disk[s], mem[s]} \subseteq {journal[s].old, journal[s].new}
    BY <1>4 DEF CertInv, HostFits
  <2>6. Value(s) = journal[s].old BY <1>4, <2>2 DEF Value
  <2> QED BY <1>2, <1>4, <2>2, <2>4, <2>5, <2>6
<1> QED BY <1>3, <1>4

\* A deployment that has begun, however far it got.
LEMMA DeployWorld ==
  ASSUME CertInv, NEW o \in Ops, NEW s \in Servers, Carried(o), Untouched' => Untouched,
         row[o].phase = "apply", row'[o].phase = "apply", row[o].status # "none",
         row[o].target[s].started, row[o].target[s].finished = "none",
         \A t \in Servers : t # s => row'[o].target[t].status = row[o].target[t].status,
         \A t \in Servers : t # s => /\ disk'[t] = disk[t] /\ mem'[t] = mem[t]
                                     /\ journal'[t] = journal[t],
         ~Refuses(o, s), NEW j, j = JournalFor(o, s),
         \/ /\ journal'[s] = j /\ disk'[s] \in {disk[s], row[o].cert} /\ mem'[s] = mem[s]
            /\ row'[o].target[s].status # "applied"
         \/ journal'[s] = NoJournal /\ disk'[s] = j.old /\ mem'[s] = j.old
         \/ journal'[s] = j /\ disk'[s] = row[o].cert /\ mem'[s] = row[o].cert
  PROVE  /\ \A t \in Servers : JournalOpen(journal[t], t)'
         /\ Untouched' => /\ \A t \in Servers : HostFits(t)'
                          /\ \A t, x \in Servers : Settled(t, x)'
<1>1. HostTyped /\ WorkTyped BY Typed DEF CertInv
<1>2. \A t \in Servers : journal[t] \in Entries \cup {NoJournal} /\ JournalOpen(journal[t], t)
  BY <1>1 DEF CertInv, HostTyped
<1>3. /\ j \in Entries /\ j.op = o /\ j.new = row[o].cert /\ j.old = Value(s)
      /\ Untouched => {disk[s], mem[s]} \subseteq {j.old, j.new}
  BY Begun
<1>4. j # NoJournal BY <1>3, JournalFields
<1>5. row'[o].cert = row[o].cert /\ row'[o].status # "none" BY DEF Carried
<1>6. \A t \in Servers : t # s /\ journal[t] # NoJournal => journal[t].op \in Ops
  BY <1>2, JournalFields
<1>7. \A t \in Servers : JournalOpen(journal[t], t)'
  <2>1. JournalOpen(journal[s], s)' BY <1>3, <1>4, <1>5 DEF JournalOpen, Carried
  <2>2. ASSUME NEW t \in Servers, t # s PROVE JournalOpen(journal[t], t)'
    <3>1. CASE journal[t] = NoJournal BY <2>2, <3>1 DEF JournalOpen
    <3>2. CASE journal[t] # NoJournal /\ journal[t].op = o
      BY <1>2, <2>2, <3>2 DEF JournalOpen, Carried
    <3>3. CASE journal[t] # NoJournal /\ journal[t].op # o
      BY <1>2, <1>6, <2>2, <3>3 DEF JournalOpen, Carried
    <3> QED BY <3>1, <3>2, <3>3
  <2> QED BY <2>1, <2>2
<1>8. ASSUME Untouched', NEW t \in Servers PROVE HostFits(t)'
  <2>1. CASE t = s
    <3>1. CASE journal'[s] = j /\ disk'[s] \in {disk[s], row[o].cert} /\ mem'[s] = mem[s]
               /\ row'[o].target[s].status # "applied"
      <4>1. ~Certain(journal[s], s)' BY <1>3, <3>1 DEF Certain
      <4>2. {disk'[s], mem'[s]} \subseteq {j.old, j.new} BY <1>3, <1>8, <3>1
      <4> QED BY <1>4, <2>1, <3>1, <4>1, <4>2 DEF HostFits
    <3>2. CASE journal'[s] = NoJournal /\ disk'[s] = j.old /\ mem'[s] = j.old
      BY <2>1, <3>2 DEF HostFits
    <3>3. CASE journal'[s] = j /\ disk'[s] = row[o].cert /\ mem'[s] = row[o].cert
      BY <1>3, <1>4, <2>1, <3>3 DEF HostFits
    <3> QED BY <3>1, <3>2, <3>3
  <2>2. CASE t # s
    <3>1. HostFits(t) BY <1>8 DEF CertInv
    <3>2. CASE journal[t] = NoJournal BY <2>2, <3>1, <3>2 DEF HostFits
    <3>3. CASE journal[t] # NoJournal
      <4>1. Certain(journal[t], t)' => Certain(journal[t], t)
        BY <1>6, <2>2, <3>3 DEF Certain, Carried
      <4> QED BY <2>2, <3>1, <3>3, <4>1 DEF HostFits
    <3> QED BY <3>2, <3>3
  <2> QED BY <2>1, <2>2
<1>9. \A t \in Servers : Value(t)' = Value(t)
  <2>1. Value(s)' = Value(s)
    <3>1. CASE journal'[s] = j
      <4>1. journal'[s] # NoJournal /\ row'[journal'[s].op].phase # "commit" BY <1>3, <1>4, <3>1
      <4> QED BY <1>3, <3>1, <4>1 DEF Value
    <3>2. CASE journal'[s] = NoJournal /\ disk'[s] = j.old BY <1>3, <3>2 DEF Value
    <3> QED BY <3>1, <3>2
  <2>2. ASSUME NEW t \in Servers, t # s PROVE Value(t)' = Value(t)
    <3>1. CASE journal[t] = NoJournal BY <2>2, <3>1 DEF Value
    <3>2. CASE journal[t] # NoJournal
      <4>1. row'[journal[t].op].phase = "commit" <=> row[journal[t].op].phase = "commit"
        BY <1>6, <2>2, <3>2 DEF Carried
      <4> QED BY <2>2, <3>2, <4>1 DEF Value
    <3> QED BY <3>1, <3>2
  <2> QED BY <2>1, <2>2
<1>10. ASSUME Untouched', NEW t \in Servers, NEW x \in Servers PROVE Settled(t, x)'
  <2>1. Settled(t, x) BY <1>10 DEF CertInv
  <2>2. \A q \in Ops, y \in Servers : Waiting(row[q], y)
                  => row'[q].cert = row[q].cert /\ Waiting(row'[q], y)
    BY DEF Waiting, Carried
  <2> QED BY <1>9, <2>1, <2>2, SettledStill
<1> QED BY <1>7, <1>8, <1>10

LEMMA DeployStays ==
  ASSUME CertInv, NEW o \in Ops, run[o].step = "deploy", NEW s, s = run[o].at,
         NEW ok \in BOOLEAN, Answered(o, s, ok), UNCHANGED host, ok => journal[s] = NoJournal
  PROVE  CertInv'
<1>1. HostTyped BY Typed DEF CertInv
<1>2. row[o].phase = "apply" BY Deploying
<1>3. \A t \in Servers : journal[t] = NoJournal => journal[t].op # o
  BY <1>1, JournalFields DEF HostTyped
<1>4. ASSUME NEW t \in Servers, journal[t].op = o, row'[o].target[t].status = "applied"
      PROVE  row[o].target[t].status = "applied"
  <2>1. CASE t # s BY <1>4, <2>1 DEF Answered
  <2>2. CASE t = s BY <1>3, <1>4, <2>2 DEF Answered
  <2> QED BY <2>1, <2>2
<1> QED BY <1>2, <1>4, RowStep DEF Answered

\* How a deployment ends on its server: stopped half-way, undone or installed.
DeployEnds(o, s, j, ok) ==
    /\ HostTyped'
    /\ \A t \in Servers : t # s => /\ disk'[t] = disk[t] /\ mem'[t] = mem[t]
                                   /\ journal'[t] = journal[t]
    /\ \/ /\ journal'[s] = j /\ disk'[s] \in {disk[s], row[o].cert} /\ mem'[s] = mem[s] /\ ~ok
       \/ journal'[s] = NoJournal /\ disk'[s] = j.old /\ mem'[s] = j.old
       \/ journal'[s] = j /\ disk'[s] = row[o].cert /\ mem'[s] = row[o].cert

LEMMA DeployChanges ==
  ASSUME CertInv, NEW o \in Ops, run[o].step = "deploy", NEW s, s = run[o].at,
         NEW ok \in BOOLEAN, Answered(o, s, ok), ~Refuses(o, s),
         NEW j, j = JournalFor(o, s), DeployEnds(o, s, j, ok)
  PROVE  CertInv'
<1>0. /\ HostTyped'
      /\ \A t \in Servers : t # s => /\ disk'[t] = disk[t] /\ mem'[t] = mem[t]
                                     /\ journal'[t] = journal[t]
      /\ \/ /\ journal'[s] = j /\ disk'[s] \in {disk[s], row[o].cert} /\ mem'[s] = mem[s] /\ ~ok
         \/ journal'[s] = NoJournal /\ disk'[s] = j.old /\ mem'[s] = j.old
         \/ journal'[s] = j /\ disk'[s] = row[o].cert /\ mem'[s] = row[o].cert
  BY DEF DeployEnds
<1>1. /\ s \in Servers /\ row[o].phase = "apply" /\ row[o].status # "none"
      /\ row[o].target[s].started /\ row[o].target[s].finished = "none"
  BY Deploying
<1>2. /\ Carried(o) /\ (Untouched' => Untouched) /\ row'[o].phase = "apply"
      /\ \A t \in Servers : t # s => row'[o].target[t].status = row[o].target[t].status
      /\ ~ok => row'[o].target[s].status # "applied"
      /\ \A q \in Ops : q # o => run'[q] = run[q]
      /\ InOrder(row'[o], run'[o])
  BY DEF Answered
<1>3. /\ \A t \in Servers : JournalOpen(journal[t], t)'
      /\ Untouched' => /\ \A t \in Servers : HostFits(t)'
                       /\ \A t, x \in Servers : Settled(t, x)'
  <2>1. \/ /\ journal'[s] = j /\ disk'[s] \in {disk[s], row[o].cert} /\ mem'[s] = mem[s]
           /\ row'[o].target[s].status # "applied"
        \/ journal'[s] = NoJournal /\ disk'[s] = j.old /\ mem'[s] = j.old
        \/ journal'[s] = j /\ disk'[s] = row[o].cert /\ mem'[s] = row[o].cert
    BY <1>0, <1>2
  <2> QED BY <1>0, <1>1, <1>2, <2>1, DeployWorld
<1>4. CertTypeOK' BY <1>0, TypedNext DEF Answered
<1>5. \A q \in Ops : InOrder(row'[q], run'[q]) BY <1>2 DEF CertInv, Carried
<1> QED BY <1>3, <1>4, <1>5 DEF CertInv

\* What each end of a deployment leaves on its server, and nowhere else.
LEMMA Deployed ==
  ASSUME CertInv, NEW o \in Ops, run[o].step = "deploy", NEW s, s = run[o].at, ~Refuses(o, s),
         NEW j, j = JournalFor(o, s)
  PROVE  /\ Installed(o, s) =>
               /\ HostTyped' /\ journal'[s] = j /\ disk'[s] = row[o].cert /\ mem'[s] = row[o].cert
               /\ \A t \in Servers : t # s => /\ disk'[t] = disk[t] /\ mem'[t] = mem[t]
                                              /\ journal'[t] = journal[t]
         /\ Killed(o, s) =>
               /\ HostTyped' /\ journal'[s] = j /\ disk'[s] \in {disk[s], row[o].cert}
               /\ mem'[s] = mem[s]
               /\ \A t \in Servers : t # s => /\ disk'[t] = disk[t] /\ mem'[t] = mem[t]
                                              /\ journal'[t] = journal[t]
         /\ Undone(s, j.old) /\ UNCHANGED undone =>
               /\ HostTyped' /\ journal'[s] = NoJournal /\ disk'[s] = j.old /\ mem'[s] = j.old
               /\ \A t \in Servers : t # s => /\ disk'[t] = disk[t] /\ mem'[t] = mem[t]
                                              /\ journal'[t] = journal[t]
<1>1. s \in Servers /\ row[o] \in Rows /\ row[o].phase = "apply" BY Deploying
<1>2. HostTyped BY Typed DEF CertInv
<1>3. j \in Entries /\ row[o].cert \in Certs BY <1>1, Begun, RowFields
<1>4. j.old \in Certs BY <1>3 DEF Entries
<1>5. ASSUME Installed(o, s)
      PROVE  /\ HostTyped' /\ journal'[s] = j /\ disk'[s] = row[o].cert /\ mem'[s] = row[o].cert
             /\ \A t \in Servers : t # s => /\ disk'[t] = disk[t] /\ mem'[t] = mem[t]
                                            /\ journal'[t] = journal[t]
  BY <1>1, <1>2, <1>3, <1>5 DEF Installed, HostTyped
<1>6. ASSUME Killed(o, s)
      PROVE  /\ HostTyped' /\ journal'[s] = j /\ disk'[s] \in {disk[s], row[o].cert}
             /\ mem'[s] = mem[s]
             /\ \A t \in Servers : t # s => /\ disk'[t] = disk[t] /\ mem'[t] = mem[t]
                                            /\ journal'[t] = journal[t]
  BY <1>1, <1>2, <1>3, <1>6 DEF Killed, HostTyped
<1>7. ASSUME Undone(s, j.old), UNCHANGED undone
      PROVE  /\ HostTyped' /\ journal'[s] = NoJournal /\ disk'[s] = j.old /\ mem'[s] = j.old
             /\ \A t \in Servers : t # s => /\ disk'[t] = disk[t] /\ mem'[t] = mem[t]
                                            /\ journal'[t] = journal[t]
  BY <1>1, <1>2, <1>4, <1>7 DEF Undone, HostTyped
<1> QED BY <1>5, <1>6, <1>7

LEMMA DeployKeeps ==
  ASSUME CertInv, NEW o \in Ops, DeployTarget(o)
  PROVE  CertInv'
<1>1. PICK s : s = run[o].at OBVIOUS
<1>2. run[o].step = "deploy" BY DEF DeployTarget
<1>3. CASE AlreadyThere(o, s)
  <2>1. UNCHANGED host /\ RecordDeploy(o, s, TRUE) BY <1>1, <1>3 DEF DeployTarget
  <2>2. Answered(o, s, TRUE) BY <1>1, <1>2, <2>1, DeployRecorded
  <2>3. journal[s] = NoJournal BY <1>3 DEF AlreadyThere
  <2> QED BY <1>1, <1>2, <2>1, <2>2, <2>3, DeployStays
<1>4. CASE ~AlreadyThere(o, s) /\ Refuses(o, s)
  <2>1. UNCHANGED host /\ RecordDeploy(o, s, FALSE) BY <1>1, <1>4 DEF DeployTarget
  <2>2. Answered(o, s, FALSE) BY <1>1, <1>2, <2>1, DeployRecorded
  <2> QED BY <1>1, <1>2, <2>1, <2>2, DeployStays
<1>5. CASE ~AlreadyThere(o, s) /\ ~Refuses(o, s) /\ mem[s] \notin {JournalFor(o, s).old, row[o].cert}
  <2>1. /\ journal' = [journal EXCEPT ![s] = JournalFor(o, s)]
        /\ UNCHANGED <<disk, mem, applied, undone>> /\ RecordDeploy(o, s, FALSE)
    BY <1>1, <1>5 DEF DeployTarget
  <2>2. Answered(o, s, FALSE) BY <1>1, <1>2, <2>1, DeployRecorded
  <2>3. Killed(o, s) BY <2>1 DEF Killed
  <2>4. PICK j : j = JournalFor(o, s) OBVIOUS
  <2>5. /\ HostTyped' /\ journal'[s] = j /\ disk'[s] \in {disk[s], row[o].cert} /\ mem'[s] = mem[s]
        /\ \A t \in Servers : t # s => /\ disk'[t] = disk[t] /\ mem'[t] = mem[t]
                                       /\ journal'[t] = journal[t]
    BY <1>1, <1>2, <1>5, <2>3, <2>4, Deployed
  <2>6. DeployEnds(o, s, j, FALSE) BY <2>5 DEF DeployEnds
  <2> QED BY <1>1, <1>2, <1>5, <2>2, <2>4, <2>6, DeployChanges
<1>6. CASE ~AlreadyThere(o, s) /\ ~Refuses(o, s) /\ mem[s] \in {JournalFor(o, s).old, row[o].cert}
  <2>1. Installed(o, s) /\ RecordDeploy(o, s, TRUE) BY <1>1, <1>6 DEF DeployTarget
  <2>2. Answered(o, s, TRUE) BY <1>1, <1>2, <2>1, DeployRecorded
  <2>3. PICK j : j = JournalFor(o, s) OBVIOUS
  <2>4. /\ HostTyped' /\ journal'[s] = j /\ disk'[s] = row[o].cert /\ mem'[s] = row[o].cert
        /\ \A t \in Servers : t # s => /\ disk'[t] = disk[t] /\ mem'[t] = mem[t]
                                       /\ journal'[t] = journal[t]
    BY <1>1, <1>2, <1>6, <2>1, <2>3, Deployed
  <2>5. DeployEnds(o, s, j, TRUE) BY <2>4 DEF DeployEnds
  <2> QED BY <1>1, <1>2, <1>6, <2>2, <2>3, <2>5, DeployChanges
<1> QED BY <1>3, <1>4, <1>5, <1>6

LEMMA DeployFailsKeeps ==
  ASSUME CertInv, NEW o \in Ops, DeployFails(o)
  PROVE  CertInv'
<1>1. PICK s : s = run[o].at OBVIOUS
<1>2. run[o].step = "deploy" /\ Spent("faults") /\ run' = [run EXCEPT ![o].step = "abort"]
  BY DEF DeployFails
<1>3. WritesStatus(o, s, "failed") BY <1>1 DEF DeployFails, WritesStatus
<1>4. BudgetTyped' /\ (Untouched' => Untouched)
  <2>1. BudgetTyped BY Typed DEF CertInv
  <2> QED BY <1>2, <2>1, SpentTyped DEF CertKinds
<1>5. Answered(o, s, FALSE) BY <1>1, <1>2, <1>3, <1>4, AnswerWritten
<1>6. PICK j : j = JournalFor(o, s) OBVIOUS
<1>7. \/ UNCHANGED host
      \/ ~Refuses(o, s) /\ Undone(s, j.old) /\ UNCHANGED undone
      \/ ~Refuses(o, s) /\ Killed(o, s)
      \/ ~Refuses(o, s) /\ Installed(o, s)
  BY <1>1, <1>6 DEF DeployFails
<1>8. CASE UNCHANGED host BY <1>1, <1>2, <1>5, <1>8, DeployStays
<1>9. CASE ~Refuses(o, s) /\ Undone(s, j.old) /\ UNCHANGED undone
  <2>1. /\ HostTyped' /\ journal'[s] = NoJournal /\ disk'[s] = j.old /\ mem'[s] = j.old
        /\ \A t \in Servers : t # s => /\ disk'[t] = disk[t] /\ mem'[t] = mem[t]
                                       /\ journal'[t] = journal[t]
    BY <1>1, <1>2, <1>6, <1>9, Deployed
  <2>2. DeployEnds(o, s, j, FALSE) BY <2>1 DEF DeployEnds
  <2> QED BY <1>1, <1>2, <1>5, <1>6, <1>9, <2>2, DeployChanges
<1>10. CASE ~Refuses(o, s) /\ Killed(o, s)
  <2>1. /\ HostTyped' /\ journal'[s] = j /\ disk'[s] \in {disk[s], row[o].cert} /\ mem'[s] = mem[s]
        /\ \A t \in Servers : t # s => /\ disk'[t] = disk[t] /\ mem'[t] = mem[t]
                                       /\ journal'[t] = journal[t]
    BY <1>1, <1>2, <1>6, <1>10, Deployed
  <2>2. DeployEnds(o, s, j, FALSE) BY <2>1 DEF DeployEnds
  <2> QED BY <1>1, <1>2, <1>5, <1>6, <1>10, <2>2, DeployChanges
<1>11. CASE ~Refuses(o, s) /\ Installed(o, s)
  <2>1. /\ HostTyped' /\ journal'[s] = j /\ disk'[s] = row[o].cert /\ mem'[s] = row[o].cert
        /\ \A t \in Servers : t # s => /\ disk'[t] = disk[t] /\ mem'[t] = mem[t]
                                       /\ journal'[t] = journal[t]
    BY <1>1, <1>2, <1>6, <1>11, Deployed
  <2>2. DeployEnds(o, s, j, FALSE) BY <2>1 DEF DeployEnds
  <2> QED BY <1>1, <1>2, <1>5, <1>6, <1>11, <2>2, DeployChanges
<1> QED BY <1>7, <1>8, <1>9, <1>10, <1>11

-----------------------------------------------------------------------------
(* The servers are finished. *)

\* What becomes of the row and of its worker after a server was finished, or was not.
Concluded(o, s, ok) ==
    /\ WorkTyped' /\ BudgetTyped' /\ (Untouched' => Untouched)
    /\ \A q \in Ops : q # o => row'[q] = row[q] /\ run'[q] = run[q]
    /\ InOrder(row'[o], run'[o])
    /\ row'[o].phase = row[o].phase /\ row'[o].cert = row[o].cert /\ row'[o].status # "none"
    /\ \A t \in Servers : /\ row[o].target[t].started => row'[o].target[t].started
                          /\ t # s \/ ~ok => row'[o].target[t].finished = row[o].target[t].finished

LEMMA Finishing ==
  ASSUME CertInv, NEW o \in Ops, run[o].step = "finish", NEW s \in Servers, First(s, Untried(o))
  PROVE  /\ row[o] \in Rows /\ run[o] \in Runs
         /\ row[o].phase \in Finishes /\ row[o].status = "running" /\ row[o].target[s].started
         /\ row[o].target[s].finished = "none"
<1>1. WorkTyped BY Typed DEF CertInv
<1>2. row[o] \in Rows /\ run[o] \in Runs BY <1>1 DEF WorkTyped
<1>3. InOrder(row[o], run[o]) BY DEF CertInv
<1>4. row[o].target[s].started /\ row[o].target[s].finished # row[o].phase
  BY DEF First, Untried, ToFinish
<1> QED BY <1>2, <1>3, <1>4 DEF InOrder

LEMMA TriedWrite ==
  ASSUME run \in [Ops -> Runs], NEW o \in Ops, NEW s \in Servers,
         run' = [run EXCEPT ![o].tried = @ \cup {s}]
  PROVE  /\ run' \in [Ops -> Runs] /\ \A q \in Ops : q # o => run'[q] = run[q]
         /\ run'[o].step = run[o].step
BY DEF Runs

\* A server that could not be finished.
LEMMA FailureWritten ==
  ASSUME CertInv, NEW o \in Ops, run[o].step = "finish", NEW s \in Servers,
         First(s, Untried(o)), NEW ok \in BOOLEAN, WritesStatus(o, s, "failed"),
         run' = [run EXCEPT ![o].tried = @ \cup {s}], BudgetTyped', Untouched' => Untouched
  PROVE  Concluded(o, s, ok)
<1>1. WorkTyped BY Typed DEF CertInv
<1>2. /\ row[o].phase \in Finishes /\ row[o].status = "running" /\ row[o].target[s].started
      /\ row[o].target[s].finished = "none"
  BY Finishing
<1>3. /\ row' \in [Ops -> Rows] /\ \A q \in Ops : q # o => row'[q] = row[q]
      /\ OnlyStatus(row'[o], row[o], s)
  <2>1. row \in [Ops -> Rows] /\ "failed" \in TargetStatus BY <1>1 DEF WorkTyped, TargetStatus
  <2> QED BY <2>1, StatusWrite
<1>4. /\ run' \in [Ops -> Runs] /\ run'[o].step = "finish"
      /\ \A q \in Ops : q # o => run'[q] = run[q]
  BY <1>1, TriedWrite DEF WorkTyped
<1>5. InOrder(row[o], run[o]) BY DEF CertInv
<1>6. InOrder(row'[o], run'[o])
  <2>1. row'[o].phase = row[o].phase /\ row'[o].status = "running" BY <1>2, <1>3 DEF OnlyStatus
  <2>2. \A t \in Servers : /\ row'[o].target[t].finished = row[o].target[t].finished
                           /\ row'[o].target[t].started = row[o].target[t].started
    BY <1>3 DEF OnlyStatus
  <2> QED BY <1>2, <1>4, <1>5, <2>1, <2>2 DEF InOrder, Finishes
<1>7. WorkTyped' BY <1>3, <1>4 DEF WorkTyped
<1> QED BY <1>2, <1>3, <1>4, <1>6, <1>7 DEF Concluded, OnlyStatus

LEMMA SuccessWritten ==
  ASSUME CertInv, NEW o \in Ops, run[o].step = "finish", NEW s \in Servers,
         First(s, Untried(o)), NEW x \in TargetStatus,
         row' = [row EXCEPT ![o].target[s].finished = row[o].phase, ![o].target[s].status = x],
         run' = [run EXCEPT ![o].tried = @ \cup {s}], BudgetTyped', Untouched' => Untouched
  PROVE  Concluded(o, s, TRUE)
<1>1. WorkTyped BY Typed DEF CertInv
<1>2. /\ row[o] \in Rows /\ row[o].phase \in Finishes /\ row[o].status = "running"
      /\ row[o].target[s].started
  BY Finishing
<1>3. row[o].target \in [Servers -> Targets] BY <1>2 DEF Rows
<1> DEFINE d == row[o].phase
           t == [row[o].target EXCEPT ![s].finished = d, ![s].status = x]
           w == [row[o] EXCEPT !.target = t]
<1>4. row' = [row EXCEPT ![o] = w] BY <1>1, <1>2, <1>3 DEF WorkTyped, Rows, Targets
<1>5. /\ t \in [Servers -> Targets]
      /\ \A y \in Servers : /\ t[y].started = row[o].target[y].started
                            /\ t[y].finished = IF y = s THEN d ELSE row[o].target[y].finished
  BY <1>2, <1>3 DEF Targets, TargetStatus, Finishes
<1> HIDE DEF t
<1>6. /\ w \in Rows /\ w.target = t /\ w.status = row[o].status /\ w.phase = row[o].phase
      /\ w.cert = row[o].cert
  BY <1>2, <1>5 DEF Rows
<1> HIDE DEF w
<1>7. row' \in [Ops -> Rows] /\ row'[o] = w /\ \A q \in Ops : q # o => row'[q] = row[q]
  BY <1>1, <1>4, <1>6 DEF WorkTyped
<1>8. /\ run' \in [Ops -> Runs] /\ run'[o].step = "finish"
      /\ \A q \in Ops : q # o => run'[q] = run[q]
  BY <1>1, TriedWrite DEF WorkTyped
<1>9. InOrder(row[o], run[o]) BY DEF CertInv
<1>10. /\ row'[o].phase = row[o].phase /\ row'[o].status = "running" /\ row'[o].cert = row[o].cert
       /\ \A y \in Servers :
             /\ row'[o].target[y].started = row[o].target[y].started
             /\ row'[o].target[y].finished = IF y = s THEN row[o].phase ELSE row[o].target[y].finished
  BY <1>2, <1>5, <1>6, <1>7
<1> HIDE DEF d
<1>11. InOrder(row'[o], run'[o])
  <2>1. \A y \in Servers : row'[o].target[y].finished \in {"none", row[o].phase}
    BY <1>2, <1>9, <1>10 DEF InOrder
  <2>2. row[o].phase = "commit" => \A y \in Servers : row'[o].target[y].started
    BY <1>9, <1>10 DEF InOrder
  <2> QED BY <1>2, <1>8, <1>10, <2>1, <2>2 DEF InOrder, Finishes
<1>12. WorkTyped' BY <1>7, <1>8 DEF WorkTyped
<1>13. \A q \in Ops : q # o => row'[q] = row[q] /\ run'[q] = run[q] BY <1>7, <1>8
<1>14. /\ row'[o].phase = row[o].phase /\ row'[o].cert = row[o].cert /\ row'[o].status # "none"
       /\ \A y \in Servers :
             /\ row[o].target[y].started => row'[o].target[y].started
             /\ y # s \/ ~TRUE => row'[o].target[y].finished = row[o].target[y].finished
  BY <1>10
<1> QED BY <1>11, <1>12, <1>13, <1>14 DEF Concluded

LEMMA FinishRecorded ==
  ASSUME CertInv, NEW o \in Ops, run[o].step = "finish", NEW s \in Servers,
         First(s, Untried(o)), NEW ok \in BOOLEAN, RecordFinish(o, s, ok)
  PROVE  Concluded(o, s, ok)
<1>1. WorkTyped /\ BudgetTyped BY Typed DEF CertInv
<1>2. CASE UNCHANGED budget /\ run' = [run EXCEPT ![o].tried = @ \cup {s}] /\ ok
           /\ row' = [row EXCEPT ![o].target[s].finished = row[o].phase,
                                 ![o].target[s].status =
                                     IF row[o].phase = "commit" THEN "applied" ELSE "rolled_back"]
  <2>1. PICK x \in TargetStatus : x = IF row[o].phase = "commit" THEN "applied" ELSE "rolled_back"
    BY DEF TargetStatus
  <2>2. BudgetTyped' /\ (Untouched' => Untouched) BY <1>1, <1>2 DEF BudgetTyped, Untouched
  <2>3. row' = [row EXCEPT ![o].target[s].finished = row[o].phase, ![o].target[s].status = x]
    BY <1>2, <2>1
  <2>4. Concluded(o, s, TRUE) BY <1>2, <2>2, <2>3, SuccessWritten
  <2> QED BY <1>2, <2>4 DEF Concluded
<1>3. CASE UNCHANGED budget /\ run' = [run EXCEPT ![o].tried = @ \cup {s}] /\ ~ok
           /\ row' = [row EXCEPT ![o].target[s].status = "failed"]
  <2>1. BudgetTyped' /\ (Untouched' => Untouched) BY <1>1, <1>3 DEF BudgetTyped, Untouched
  <2>2. WritesStatus(o, s, "failed") BY <1>3 DEF WritesStatus
  <2> QED BY <1>3, <2>1, <2>2, FailureWritten
<1>4. CASE Spent("crashes") /\ run' = [run EXCEPT ![o] = NoRun] /\ UNCHANGED row
  <2>1. BudgetTyped' /\ (Untouched' => Untouched) BY <1>1, <1>4, SpentTyped DEF CertKinds
  <2>2. /\ run' \in [Ops -> Runs] /\ run'[o].step = "none"
        /\ \A q \in Ops : q # o => run'[q] = run[q]
    BY <1>1, <1>4, RunGone DEF WorkTyped
  <2>3. InOrder(row[o], run[o]) /\ row[o].phase \in Finishes /\ row[o].status = "running"
    BY Finishing DEF CertInv
  <2>4. InOrder(row'[o], run'[o]) BY <1>4, <2>2, <2>3 DEF InOrder
  <2>5. WorkTyped' BY <1>1, <1>4, <2>2 DEF WorkTyped
  <2> QED BY <1>4, <2>1, <2>2, <2>3, <2>4, <2>5 DEF Concluded
<1> QED BY <1>2, <1>3, <1>4 DEF RecordFinish

\* What a finish does to its server: nothing; a commit drops the journal of a certificate that
\* is there; a rollback puts the old one back, or has restored the file only.
Finished(o, s, ok) ==
    \/ /\ disk'[s] = disk[s] /\ mem'[s] = mem[s] /\ journal'[s] = journal[s]
       /\ ok => journal[s] = NoJournal /\ (row[o].phase = "commit" => disk[s] = row[o].cert)
    \/ /\ journal[s].op = o /\ row[o].phase = "commit"
       /\ disk[s] = journal[s].new /\ mem[s] = journal[s].new
       /\ disk'[s] = disk[s] /\ mem'[s] = mem[s] /\ journal'[s] = NoJournal
    \/ /\ journal[s].op = o /\ row[o].phase = "rollback"
       /\ disk'[s] = journal[s].old /\ mem'[s] = journal[s].old /\ journal'[s] = NoJournal
    \/ /\ journal[s].op = o /\ row[o].phase = "rollback" /\ ~ok
       /\ disk'[s] = journal[s].old /\ mem'[s] = mem[s] /\ journal'[s] = journal[s]

Elsewhere(s) == \A t \in Servers : t # s => /\ disk'[t] = disk[t] /\ mem'[t] = mem[t]
                                            /\ journal'[t] = journal[t]

LEMMA FinishWorld ==
  ASSUME CertInv, NEW o \in Ops, run[o].step = "finish", NEW s \in Servers, First(s, Untried(o)),
         NEW ok \in BOOLEAN, Concluded(o, s, ok), Finished(o, s, ok), Elsewhere(s), HostTyped'
  PROVE  CertInv'
<1>1. HostTyped BY Typed DEF CertInv
<1>2. \A t \in Servers : journal[t] \in Entries \cup {NoJournal} /\ JournalOpen(journal[t], t)
  BY <1>1 DEF CertInv, HostTyped
<1>3. \A t \in Servers : /\ journal[t] # NoJournal => journal[t].op \in Ops
                         /\ journal[t].op = o => journal[t] # NoJournal
  BY <1>2, JournalFields
<1>4. /\ row[o].phase \in Finishes /\ row[o].status = "running" /\ row[o].target[s].started
      /\ row[o].target[s].finished = "none"
  BY Finishing
<1>5. /\ \A q \in Ops : row'[q].phase = row[q].phase /\ row'[q].cert = row[q].cert
      /\ \A q \in Ops : q # o => row'[q] = row[q]
  BY DEF Concluded
<1>6. CertTypeOK' BY TypedNext DEF Concluded
<1>7. \A q \in Ops : InOrder(row'[q], run'[q]) BY DEF CertInv, Concluded
<1>8. \A t \in Servers : JournalOpen(journal[t], t)'
  <2> SUFFICES ASSUME NEW t \in Servers, journal'[t] # NoJournal
               PROVE  JournalOpen(journal[t], t)'
    BY DEF JournalOpen
  <2>1. journal'[t] = journal[t] /\ (t = s /\ journal[t].op = o => ~ok)
    <3>1. CASE t = s BY <1>3, <3>1 DEF Finished
    <3>2. CASE t # s BY <3>2 DEF Elsewhere
    <3> QED BY <3>1, <3>2
  <2>2. JournalOpen(journal[t], t) /\ journal[t] # NoJournal /\ journal[t].op \in Ops
    BY <1>2, <1>3, <2>1
  <2>3. CASE journal[t].op = o
    <3>1. /\ row'[o].target[t].started
          /\ row'[o].target[t].finished = "none" /\ row'[o].status # "none"
      BY <2>1, <2>2, <2>3 DEF Concluded, JournalOpen
    <3> QED BY <1>5, <2>1, <2>2, <2>3, <3>1 DEF JournalOpen
  <2>4. CASE journal[t].op # o BY <1>5, <2>1, <2>2, <2>4 DEF JournalOpen
  <2> QED BY <2>3, <2>4
<1>9. ASSUME Untouched', NEW t \in Servers PROVE HostFits(t)'
  <2>1. HostFits(t) BY <1>9 DEF CertInv, Concluded
  <2>2. journal[t] # NoJournal /\ journal'[t] = journal[t]
            => (Certain(journal[t], t)' => Certain(journal[t], t))
    <3> SUFFICES ASSUME journal[t] # NoJournal, journal'[t] = journal[t], Certain(journal[t], t)'
                 PROVE  Certain(journal[t], t)
      OBVIOUS
    <3>1. journal[t].op \in Ops BY <1>3
    <3>2. CASE journal[t].op = o BY <1>4, <1>5, <3>2 DEF Certain, Finishes
    <3>3. CASE journal[t].op # o BY <1>5, <3>1, <3>3 DEF Certain
    <3> QED BY <3>2, <3>3
  <2>3. CASE disk'[t] = disk[t] /\ mem'[t] = mem[t] /\ journal'[t] = journal[t]
    BY <2>1, <2>2, <2>3 DEF HostFits
  <2>4. CASE journal'[t] = NoJournal /\ mem'[t] = disk'[t] BY <2>4 DEF HostFits
  <2>5. CASE /\ journal[t].op = o /\ row[o].phase = "rollback"
             /\ disk'[t] = journal[t].old /\ mem'[t] = mem[t] /\ journal'[t] = journal[t]
    <3>1. journal[t] # NoJournal BY <1>3, <2>5
    <3>2. ~Certain(journal[t], t)' BY <1>5, <2>5 DEF Certain
    <3> QED BY <2>1, <2>5, <3>1, <3>2 DEF HostFits
  <2>6. \/ disk'[t] = disk[t] /\ mem'[t] = mem[t] /\ journal'[t] = journal[t]
        \/ journal'[t] = NoJournal /\ mem'[t] = disk'[t]
        \/ /\ journal[t].op = o /\ row[o].phase = "rollback"
           /\ disk'[t] = journal[t].old /\ mem'[t] = mem[t] /\ journal'[t] = journal[t]
    BY DEF Finished, Elsewhere
  <2> QED BY <2>3, <2>4, <2>5, <2>6
<1>10. \A t \in Servers : Value(t)' = Value(t)
  <2> SUFFICES ASSUME NEW t \in Servers PROVE Value(t)' = Value(t) OBVIOUS
  <2>1. CASE disk'[t] = disk[t] /\ journal'[t] = journal[t]
    <3>1. CASE journal[t] = NoJournal BY <2>1, <3>1 DEF Value
    <3>2. CASE journal[t] # NoJournal
      <4>1. row'[journal[t].op].phase = row[journal[t].op].phase BY <1>3, <1>5, <3>2
      <4> QED BY <2>1, <3>2, <4>1 DEF Value
    <3> QED BY <3>1, <3>2
  <2>2. CASE /\ journal[t].op = o /\ row[o].phase = "commit" /\ disk[t] = journal[t].new
             /\ disk'[t] = disk[t] /\ journal'[t] = NoJournal
    BY <1>3, <2>2 DEF Value
  <2>3. CASE /\ journal[t].op = o /\ row[o].phase = "rollback"
             /\ disk'[t] = journal[t].old /\ journal'[t] = NoJournal
    BY <1>3, <2>3 DEF Value
  <2>4. CASE /\ journal[t].op = o /\ row[o].phase = "rollback"
             /\ disk'[t] = journal[t].old /\ journal'[t] = journal[t]
    BY <1>3, <1>5, <2>4 DEF Value
  <2>5. \/ disk'[t] = disk[t] /\ journal'[t] = journal[t]
        \/ /\ journal[t].op = o /\ row[o].phase = "commit" /\ disk[t] = journal[t].new
           /\ disk'[t] = disk[t] /\ journal'[t] = NoJournal
        \/ /\ journal[t].op = o /\ row[o].phase = "rollback"
           /\ disk'[t] = journal[t].old /\ journal'[t] = NoJournal
        \/ /\ journal[t].op = o /\ row[o].phase = "rollback"
           /\ disk'[t] = journal[t].old /\ journal'[t] = journal[t]
    BY DEF Finished, Elsewhere
  <2> QED BY <2>1, <2>2, <2>3, <2>4, <2>5
<1>11. \A q \in Ops, t \in Servers :
           Waiting(row[q], t) => \/ row'[q].cert = row[q].cert /\ Waiting(row'[q], t)
                                 \/ row[q].cert = Value(t)
  <2> SUFFICES ASSUME NEW q \in Ops, NEW t \in Servers, Waiting(row[q], t), ~Waiting(row'[q], t)
               PROVE  row[q].cert = Value(t)
    BY <1>5
  <2>1. q = o /\ t = s /\ ok BY <1>5 DEF Waiting, Concluded
  <2>2. row[o].phase = "commit" BY <2>1 DEF Waiting
  <2>3. CASE journal[s] = NoJournal /\ disk[s] = row[o].cert BY <2>1, <2>3 DEF Value
  <2>4. CASE journal[s].op = o
    <3>1. journal[s] # NoJournal /\ JournalOpen(journal[s], s) BY <1>2, <1>3, <2>4
    <3> QED BY <2>1, <2>2, <2>4, <3>1 DEF Value, JournalOpen
  <2> QED BY <2>1, <2>2, <2>3, <2>4 DEF Finished
<1>12. ASSUME Untouched', NEW t \in Servers, NEW x \in Servers PROVE Settled(t, x)'
  <2>1. Settled(t, x) BY <1>12 DEF CertInv, Concluded
  <2> QED BY <1>10, <1>11, <2>1, SettledStill
<1> QED BY <1>6, <1>7, <1>8, <1>9, <1>12 DEF CertInv

LEMMA FinishStays ==
  ASSUME CertInv, NEW o \in Ops, run[o].step = "finish", NEW s \in Servers, First(s, Untried(o)),
         NEW ok \in BOOLEAN, Concluded(o, s, ok), UNCHANGED <<disk, mem, journal>>, HostTyped',
         ok => journal[s] = NoJournal /\ (row[o].phase = "commit" => disk[s] = row[o].cert)
  PROVE  CertInv'
<1>1. Finished(o, s, ok) /\ Elsewhere(s) BY DEF Finished, Elsewhere
<1> QED BY <1>1, FinishWorld

\* What a rollback puts back is what the journal of the operation holds.
LEMMA UndoneHere ==
  ASSUME CertInv, NEW o \in Ops, NEW s \in Servers, journal[s].op = o,
         NoteUndo(o, s), Undone(s, journal[s].old)
  PROVE  /\ HostTyped' /\ Elsewhere(s) /\ journal'[s] = NoJournal
         /\ disk'[s] = journal[s].old /\ mem'[s] = journal[s].old
<1>1. HostTyped BY Typed DEF CertInv
<1>2. journal[s] \in Entries \cup {NoJournal} BY <1>1 DEF HostTyped
<1>3. journal[s].old \in Certs BY <1>2, JournalFields
<1>4. PICK c \in Certs : c = journal[s].old BY <1>3
<1>5. Undone(s, c) /\ undone' = [undone EXCEPT ![s] = [op |-> o, cert |-> c]]
  BY <1>4 DEF NoteUndo
<1>6. /\ disk' \in [Servers -> Certs] /\ mem' \in [Servers -> Certs]
      /\ journal' \in [Servers -> Entries \cup {NoJournal}]
      /\ applied' \in [Servers -> Certs \cup {NoCert}]
      /\ undone' \in [Servers -> [op : Ops, cert : Certs] \cup {NoReceipt}]
  BY <1>1, <1>5 DEF HostTyped, Undone
<1>7. Elsewhere(s) /\ journal'[s] = NoJournal /\ disk'[s] = c /\ mem'[s] = c
  BY <1>1, <1>5 DEF HostTyped, Undone, Elsewhere
<1> QED BY <1>4, <1>6, <1>7 DEF HostTyped

\* A commit that finds its certificate drops the journal.
LEMMA Dropped ==
  ASSUME CertInv, NEW s \in Servers, journal' = [journal EXCEPT ![s] = NoJournal],
         UNCHANGED <<disk, mem, applied, undone>>
  PROVE  HostTyped' /\ Elsewhere(s) /\ journal'[s] = NoJournal
<1>1. HostTyped BY Typed DEF CertInv
<1> QED BY <1>1 DEF HostTyped, Elsewhere

LEMMA FinishKeeps ==
  ASSUME CertInv, NEW o \in Ops, FinishTarget(o)
  PROVE  CertInv'
<1>1. run[o].step = "finish" BY DEF FinishTarget
<1>2. PICK s \in Servers : First(s, Untried(o)) /\ Finish(o, s) BY DEF FinishTarget
<1>3. HostTyped BY Typed DEF CertInv
<1>4. row[o].phase \in Finishes BY <1>1, <1>2, Finishing
<1>5. CASE journal[s] = NoJournal
  <2>1. PICK ok \in BOOLEAN : ok = ReceiptAgrees(o, s) BY DEF ReceiptAgrees
  <2>2. UNCHANGED host /\ RecordFinish(o, s, ok) BY <1>2, <1>5, <2>1 DEF Finish
  <2>3. Concluded(o, s, ok) BY <1>1, <1>2, <2>2, FinishRecorded
  <2>4. ok /\ row[o].phase = "commit" => disk[s] = row[o].cert BY <2>1 DEF ReceiptAgrees
  <2>5. UNCHANGED <<disk, mem, journal>> /\ HostTyped' BY <1>3, <2>2 DEF host, HostTyped
  <2> QED BY <1>1, <1>2, <1>5, <2>3, <2>4, <2>5, FinishStays
<1>6. CASE journal[s] # NoJournal /\ ~Owned(o, s)
  <2>1. UNCHANGED host /\ RecordFinish(o, s, FALSE) BY <1>2, <1>6 DEF Finish
  <2>2. Concluded(o, s, FALSE) BY <1>1, <1>2, <2>1, FinishRecorded
  <2>3. UNCHANGED <<disk, mem, journal>> /\ HostTyped' BY <1>3, <2>1 DEF host, HostTyped
  <2> QED BY <1>1, <1>2, <2>2, <2>3, FinishStays
<1>7. CASE journal[s] # NoJournal /\ Owned(o, s) /\ row[o].phase = "commit"
  <2>1. /\ journal' = IF CanCommit(o, s) THEN [journal EXCEPT ![s] = NoJournal] ELSE journal
        /\ UNCHANGED <<disk, mem, applied, undone>> /\ RecordFinish(o, s, CanCommit(o, s))
    BY <1>2, <1>7 DEF Finish
  <2>2. CASE CanCommit(o, s)
    <3>1. RecordFinish(o, s, TRUE)
      <4>1. PICK ok \in BOOLEAN : ok = CanCommit(o, s) BY DEF CanCommit
      <4>2. ok = TRUE BY <2>2, <4>1
      <4> QED BY <2>1, <4>1, <4>2
    <3>2. Concluded(o, s, TRUE) BY <1>1, <1>2, <3>1, FinishRecorded
    <3>3. HostTyped' /\ Elsewhere(s) /\ journal'[s] = NoJournal BY <2>1, <2>2, Dropped
    <3>4. Finished(o, s, TRUE) BY <1>7, <2>1, <2>2, <3>3 DEF Finished, CanCommit, Owned
    <3> QED BY <1>1, <1>2, <3>2, <3>3, <3>4, FinishWorld
  <2>3. CASE ~CanCommit(o, s)
    <3>1. RecordFinish(o, s, FALSE)
      <4>1. PICK ok \in BOOLEAN : ok = CanCommit(o, s) BY DEF CanCommit
      <4>2. ok = FALSE BY <2>3, <4>1
      <4> QED BY <2>1, <4>1, <4>2
    <3>2. Concluded(o, s, FALSE) BY <1>1, <1>2, <3>1, FinishRecorded
    <3>3. HostTyped' /\ journal' = journal BY <1>3, <2>1, <2>3 DEF HostTyped
    <3> QED BY <1>1, <1>2, <2>1, <3>2, <3>3, FinishStays
  <2> QED BY <2>2, <2>3
<1>8. CASE journal[s] # NoJournal /\ Owned(o, s) /\ row[o].phase = "rollback"
  <2>1. NoteUndo(o, s) /\ RecordFinish(o, s, CanUndo(o, s))
    BY <1>2, <1>8 DEF Finish
  <2>2. CASE CanUndo(o, s)
    <3>1. RecordFinish(o, s, TRUE)
      <4>1. PICK ok \in BOOLEAN : ok = CanUndo(o, s) BY DEF CanUndo
      <4>2. ok = TRUE BY <2>2, <4>1
      <4> QED BY <2>1, <4>1, <4>2
    <3>2. Concluded(o, s, TRUE) BY <1>1, <1>2, <3>1, FinishRecorded
    <3>3. Undone(s, journal[s].old) BY <1>2, <1>8, <2>2 DEF Finish
    <3>4. /\ HostTyped' /\ Elsewhere(s) /\ journal'[s] = NoJournal
          /\ disk'[s] = journal[s].old /\ mem'[s] = journal[s].old
      BY <1>8, <2>1, <3>3, UndoneHere DEF Owned
    <3>5. Finished(o, s, TRUE) BY <1>8, <3>4 DEF Finished, Owned
    <3> QED BY <1>1, <1>2, <3>2, <3>4, <3>5, FinishWorld
  <2>3. CASE ~CanUndo(o, s)
    <3>1. RecordFinish(o, s, FALSE)
      <4>1. PICK ok \in BOOLEAN : ok = CanUndo(o, s) BY DEF CanUndo
      <4>2. ok = FALSE BY <2>3, <4>1
      <4> QED BY <2>1, <4>1, <4>2
    <3>2. Concluded(o, s, FALSE) BY <1>1, <1>2, <3>1, FinishRecorded
    <3>3. UNCHANGED <<disk, mem, journal, applied>> BY <1>2, <1>8, <2>3 DEF Finish
    <3>4. HostTyped'
      <4>1. journal[s] \in Entries \cup {NoJournal} BY <1>3 DEF HostTyped
      <4>2. journal[s].old \in Certs BY <1>8, <4>1, JournalFields
      <4>3. undone' \in [Servers -> [op : Ops, cert : Certs] \cup {NoReceipt}]
        BY <1>3, <2>1, <4>2 DEF HostTyped, NoteUndo
      <4> QED BY <1>3, <3>3, <4>3 DEF HostTyped
    <3> QED BY <1>1, <1>2, <3>2, <3>3, <3>4, FinishStays
  <2> QED BY <2>2, <2>3
<1> QED BY <1>4, <1>5, <1>6, <1>7, <1>8 DEF Finishes

LEMMA FinishFailsKeeps ==
  ASSUME CertInv, NEW o \in Ops, FinishFails(o)
  PROVE  CertInv'
<1>1. run[o].step = "finish" /\ Spent("faults") BY DEF FinishFails
<1>2. PICK s \in Servers :
        /\ First(s, Untried(o))
        /\ \/ UNCHANGED host
           \/ /\ Owned(o, s) /\ row[o].phase = "commit" /\ CanCommit(o, s)
              /\ journal' = [journal EXCEPT ![s] = NoJournal]
              /\ UNCHANGED <<disk, mem, applied, undone>>
           \/ /\ Owned(o, s) /\ row[o].phase = "rollback" /\ CanUndo(o, s)
              /\ NoteUndo(o, s)
              /\ \/ Undone(s, journal[s].old)
                 \/ /\ disk' = [disk EXCEPT ![s] = journal[s].old]
                    /\ UNCHANGED <<mem, journal, applied>>
        /\ row' = [row EXCEPT ![o].target[s].status = "failed"]
        /\ run' = [run EXCEPT ![o].tried = @ \cup {s}]
  BY DEF FinishFails
<1>3. HostTyped /\ BudgetTyped BY Typed DEF CertInv
<1>4. BudgetTyped' /\ (Untouched' => Untouched) BY <1>1, <1>3, SpentTyped DEF CertKinds
<1>5. WritesStatus(o, s, "failed") BY <1>2 DEF WritesStatus
<1>6. Concluded(o, s, FALSE) BY <1>1, <1>2, <1>4, <1>5, FailureWritten
<1>7. CASE UNCHANGED host
  <2>1. UNCHANGED <<disk, mem, journal>> /\ HostTyped' BY <1>3, <1>7 DEF host, HostTyped
  <2> QED BY <1>1, <1>2, <1>6, <2>1, FinishStays
<1>8. CASE /\ Owned(o, s) /\ row[o].phase = "commit" /\ CanCommit(o, s)
           /\ journal' = [journal EXCEPT ![s] = NoJournal]
           /\ UNCHANGED <<disk, mem, applied, undone>>
  <2>1. HostTyped' /\ Elsewhere(s) /\ journal'[s] = NoJournal BY <1>8, Dropped
  <2>2. Finished(o, s, FALSE) BY <1>8, <2>1 DEF Finished, CanCommit, Owned
  <2> QED BY <1>1, <1>2, <1>6, <2>1, <2>2, FinishWorld
<1>9. CASE /\ Owned(o, s) /\ row[o].phase = "rollback" /\ NoteUndo(o, s)
           /\ Undone(s, journal[s].old)
  <2>1. /\ HostTyped' /\ Elsewhere(s) /\ journal'[s] = NoJournal
        /\ disk'[s] = journal[s].old /\ mem'[s] = journal[s].old
    BY <1>9, UndoneHere DEF Owned
  <2>2. Finished(o, s, FALSE) BY <1>9, <2>1 DEF Finished, Owned
  <2> QED BY <1>1, <1>2, <1>6, <2>1, <2>2, FinishWorld
<1>10. CASE /\ Owned(o, s) /\ row[o].phase = "rollback" /\ NoteUndo(o, s)
            /\ disk' = [disk EXCEPT ![s] = journal[s].old]
            /\ UNCHANGED <<mem, journal, applied>>
  <2>1. journal[s] \in Entries \cup {NoJournal} BY <1>3 DEF HostTyped
  <2>2. journal[s].old \in Certs BY <1>10, <2>1, JournalFields DEF Owned
  <2>3. undone' \in [Servers -> [op : Ops, cert : Certs] \cup {NoReceipt}]
    BY <1>3, <1>10, <2>2 DEF HostTyped, NoteUndo
  <2>4. disk' \in [Servers -> Certs] /\ disk'[s] = journal[s].old /\ Elsewhere(s)
    BY <1>3, <1>10, <2>2 DEF HostTyped, Elsewhere
  <2>5. HostTyped' BY <1>3, <1>10, <2>3, <2>4 DEF HostTyped
  <2>6. Finished(o, s, FALSE) BY <1>10, <2>4 DEF Finished, Owned
  <2> QED BY <1>1, <1>2, <1>6, <2>4, <2>5, <2>6, FinishWorld
<1> QED BY <1>2, <1>7, <1>8, <1>9, <1>10

-----------------------------------------------------------------------------
(* The administrators. *)

LEMMA EditKeeps ==
  ASSUME CertInv, NEW s \in Servers, EditCertificate(s)
  PROVE  CertInv' /\ ~Untouched'
<1>1. HostTyped /\ WorkTyped /\ BudgetTyped BY Typed DEF CertInv
<1>2. Spent("foreign") /\ UNCHANGED <<journal, applied, undone, row, run>> BY DEF EditCertificate
<1>3. BudgetTyped' /\ ~Untouched' BY <1>1, <1>2, SpentTyped DEF CertKinds
<1>4. disk' \in [Servers -> Certs] /\ mem' \in [Servers -> Certs]
  BY <1>1 DEF EditCertificate, HostTyped
<1>5. HostTyped' /\ WorkTyped' BY <1>1, <1>2, <1>4 DEF HostTyped, WorkTyped
<1>6. CertTypeOK' BY <1>3, <1>5, TypedNext
<1>7. \A o \in Ops : InOrder(row'[o], run'[o]) BY <1>2 DEF CertInv
<1>8. \A t \in Servers : JournalOpen(journal[t], t)' BY <1>2 DEF CertInv, JournalOpen
<1> QED BY <1>3, <1>6, <1>7, <1>8 DEF CertInv

LEMMA RestartKeeps ==
  ASSUME CertInv, NEW s \in Servers, RestartHaproxy(s)
  PROVE  CertInv'
<1>1. HostTyped /\ WorkTyped /\ BudgetTyped BY Typed DEF CertInv
<1>2. /\ mem' = [mem EXCEPT ![s] = disk[s]]
      /\ UNCHANGED <<disk, journal, applied, undone, row, run, budget>>
  BY DEF RestartHaproxy
<1>3. /\ mem' \in [Servers -> Certs] /\ mem'[s] = disk[s]
      /\ \A t \in Servers : t # s => mem'[t] = mem[t]
  BY <1>1, <1>2 DEF HostTyped
<1>4. HostTyped' /\ WorkTyped' /\ BudgetTyped'
  BY <1>1, <1>2, <1>3 DEF HostTyped, WorkTyped, BudgetTyped
<1>5. CertTypeOK' BY <1>4, TypedNext
<1>6. \A o \in Ops : InOrder(row'[o], run'[o]) BY <1>2 DEF CertInv
<1>7. \A t \in Servers : JournalOpen(journal[t], t)' BY <1>2 DEF CertInv, JournalOpen
<1>8. Untouched' => Untouched BY <1>2 DEF Untouched
<1>9. ASSUME Untouched', NEW t \in Servers PROVE HostFits(t)'
  <2>1. HostFits(t) BY <1>8, <1>9 DEF CertInv
  <2>2. Certain(journal[t], t)' = Certain(journal[t], t) BY <1>2 DEF Certain
  <2>3. CASE t = s BY <1>2, <1>3, <2>1, <2>2, <2>3 DEF HostFits
  <2>4. CASE t # s BY <1>2, <1>3, <2>1, <2>2, <2>4 DEF HostFits
  <2> QED BY <2>3, <2>4
<1>10. ASSUME Untouched', NEW t \in Servers, NEW x \in Servers PROVE Settled(t, x)'
  <2>1. Settled(t, x) BY <1>8, <1>10 DEF CertInv
  <2>2. \A y \in Servers : Value(y)' = Value(y) BY <1>2 DEF Value
  <2>3. \A q \in Ops, y \in Servers : Waiting(row[q], y)
                  => row'[q].cert = row[q].cert /\ Waiting(row'[q], y)
    BY <1>2
  <2> QED BY <2>1, <2>2, <2>3, SettledStill
<1> QED BY <1>5, <1>6, <1>7, <1>9, <1>10 DEF CertInv

-----------------------------------------------------------------------------
(* The invariant and what follows from it. *)

LEMMA CertInitially ==
  ASSUME CertInit
  PROVE  CertInv
<1>1. /\ disk = [s \in Servers |-> Original] /\ mem = disk
      /\ journal = [s \in Servers |-> NoJournal]
      /\ applied = [s \in Servers |-> NoCert] /\ undone = [s \in Servers |-> NoReceipt]
      /\ run = [o \in Ops |-> NoRun] /\ budget = CertBound
  BY DEF CertInit
<1>2. Original \in Certs /\ 1 \in Servers BY CertificateAssumption DEF Servers
<1> DEFINE t == [s \in Servers |-> NewTarget]
           w == [status |-> "none", phase |-> "apply", cert |-> Original,
                 revision |-> Original, target |-> t]
<1>3. row = [o \in Ops |-> w] BY DEF CertInit
<1>4. t \in [Servers -> Targets] /\ \A s \in Servers : t[s] = NewTarget
  BY DEF Targets, NewTarget
<1> HIDE DEF t
<1>5. w \in Rows /\ w.status = "none" /\ w.phase = "apply" /\ w.target = t
  BY <1>2, <1>4 DEF Rows
<1> HIDE DEF w
<1>6. NoRun \in Runs /\ NoRun.step = "none" BY <1>2 DEF Runs, NoRun
<1>7. HostTyped BY <1>1, <1>2 DEF HostTyped
<1>8. WorkTyped BY <1>1, <1>3, <1>5, <1>6 DEF WorkTyped
<1>9. BudgetTyped
  <2>1. CertBound \in [CertKinds -> Nat] BY CertificateAssumption DEF CertBound, CertKinds
  <2> HIDE DEF CertBound
  <2> QED BY <1>1, <2>1 DEF BudgetTyped
<1>10. \A o \in Ops : InOrder(row[o], run[o])
  <2> SUFFICES ASSUME NEW o \in Ops PROVE InOrder(row[o], run[o]) OBVIOUS
  <2>1. row[o] = w /\ run[o].step = "none" BY <1>1, <1>3, <1>6
  <2>2. \A s \in Servers : w.target[s].finished = "none" /\ w.target[s].status = "pending"
    BY <1>4, <1>5 DEF NewTarget
  <2> QED BY <1>5, <2>1, <2>2 DEF InOrder, Finishes
<1>11. \A s \in Servers : JournalOpen(journal[s], s) BY <1>1 DEF JournalOpen
<1>12. \A s \in Servers : HostFits(s) BY <1>1 DEF HostFits
<1>13. \A s, x \in Servers : Settled(s, x) BY <1>1 DEF Settled, Value
<1> QED BY <1>7, <1>8, <1>9, <1>10, <1>11, <1>12, <1>13, Typed DEF CertInv

LEMMA CertKeeps ==
  ASSUME CertInv, [CertNext]_certVars
  PROVE  CertInv'
<1>1. CASE UNCHANGED certVars
  <2>1. UNCHANGED <<disk, mem, journal, applied, undone, row, run, budget>> BY <1>1 DEF certVars
  <2>2. CertTypeOK' BY <2>1 DEF CertInv, CertTypeOK
  <2>3. \A o \in Ops : InOrder(row'[o], run'[o]) BY <2>1 DEF CertInv
  <2>4. \A s \in Servers : JournalOpen(journal[s], s)' BY <2>1 DEF CertInv, JournalOpen
  <2>5. \A s \in Servers : HostFits(s) => HostFits(s)' BY <2>1 DEF HostFits, Certain
  <2>6. \A s, t \in Servers : Settled(s, t) => Settled(s, t)'
    BY <2>1 DEF Settled, Value, Waits, Waiting
  <2>7. Untouched' => Untouched BY <2>1 DEF Untouched
  <2> QED BY <2>2, <2>3, <2>4, <2>5, <2>6, <2>7 DEF CertInv
<1>2. ASSUME NEW o \in Ops, EnqueueUpdate(o) PROVE CertInv' BY <1>2, EnqueueKeeps
<1>3. ASSUME NEW o \in Ops, ExecuteUpdate(o) PROVE CertInv' BY <1>3, ExecuteKeeps
<1>4. ASSUME NEW o \in Ops, RetryUpdate(o) PROVE CertInv' BY <1>4, RetryKeeps
<1>5. ASSUME NEW o \in Ops, WorkerGone(o) PROVE CertInv' BY <1>5, GoneKeeps
<1>6. ASSUME NEW o \in Ops, BeginTarget(o) PROVE CertInv' BY <1>6, BeginKeeps
<1>7. ASSUME NEW o \in Ops, CannotApply(o) PROVE CertInv' BY <1>7, CannotKeeps
<1>8. ASSUME NEW o \in Ops, DeployTarget(o) PROVE CertInv' BY <1>8, DeployKeeps
<1>9. ASSUME NEW o \in Ops, DeployFails(o) PROVE CertInv' BY <1>9, DeployFailsKeeps
<1>10. ASSUME NEW o \in Ops, AbortUpdate(o) PROVE CertInv' BY <1>10, AbortKeeps
<1>11. ASSUME NEW o \in Ops, DecideCommit(o) PROVE CertInv' BY <1>11, DecideKeeps
<1>12. ASSUME NEW o \in Ops, FinishTarget(o) PROVE CertInv' BY <1>12, FinishKeeps
<1>13. ASSUME NEW o \in Ops, FinishFails(o) PROVE CertInv' BY <1>13, FinishFailsKeeps
<1>14. ASSUME NEW o \in Ops, EndUpdate(o) PROVE CertInv' BY <1>14, EndKeeps
<1>15. ASSUME NEW s \in Servers, EditCertificate(s) PROVE CertInv' BY <1>15, EditKeeps
<1>16. ASSUME NEW s \in Servers, RestartHaproxy(s) PROVE CertInv' BY <1>16, RestartKeeps
<1> QED
  BY <1>1, <1>2, <1>3, <1>4, <1>5, <1>6, <1>7, <1>8, <1>9, <1>10, <1>11, <1>12, <1>13, <1>14,
     <1>15, <1>16 DEF CertNext

\* Once no operation is open, no journal is left and nothing waits.
LEMMA InvAtomic ==
  ASSUME CertInv
  PROVE  UpdateAtomic
<1>1. HostTyped /\ WorkTyped BY Typed DEF CertInv
<1>2. \A s \in Servers : journal[s] \in Entries \cup {NoJournal} /\ JournalOpen(journal[s], s)
  BY <1>1 DEF CertInv, HostTyped
<1>3. \A o \in Ops : InOrder(row[o], run[o]) /\ row[o] \in Rows BY <1>1 DEF CertInv, WorkTyped
<1>4. ASSUME NEW o \in Ops, NEW s \in Servers, row[o].phase = "done" PROVE journal[s].op # o
  <2> SUFFICES ASSUME journal[s].op = o PROVE FALSE OBVIOUS
  <2>1. journal[s] # NoJournal BY <1>2, JournalFields
  <2>2. row[o].target[s].started /\ row[o].target[s].finished = "none"
    BY <1>2, <2>1 DEF JournalOpen
  <2> QED BY <1>3, <1>4, <2>2 DEF InOrder
<1>5. JournalsReleased BY <1>4 DEF JournalsReleased
<1>6. DecisionAtomic
  <2> SUFFICES ASSUME NEW o \in Ops, NEW s \in Servers, NEW t \in Servers,
                      row[o].target[s].finished = "commit", row[o].target[t].finished = "rollback"
               PROVE  FALSE
    BY DEF DecisionAtomic
  <2>1. row[o].phase \in {"apply", "commit", "rollback", "done"} BY <1>3, RowFields
  <2> QED BY <1>3, <2>1 DEF InOrder, WayOf, Finishes
<1>7. FleetAgrees
  <2> SUFFICES ASSUME Untouched, \A o \in Ops : Over(o), NEW s \in Servers
               PROVE  disk[s] = disk[1] /\ mem[s] = disk[1]
    BY DEF FleetAgrees
  <2>1. 1 \in Servers BY CertificateAssumption DEF Servers
  <2>2. \A t \in Servers : journal[t] = NoJournal
    <3> SUFFICES ASSUME NEW t \in Servers, journal[t] # NoJournal PROVE FALSE OBVIOUS
    <3>1. journal[t].op \in Ops BY <1>2, JournalFields
    <3>2. row[journal[t].op].status # "none" BY <1>2 DEF JournalOpen
    <3> QED BY <1>4, <3>1, <3>2 DEF Over
  <2>3. \A t \in Servers : Value(t) = disk[t] /\ mem[t] = disk[t]
    BY <2>2 DEF CertInv, HostFits, Value
  <2>4. \A o \in Ops, t \in Servers : ~Waiting(row[o], t)
    BY <1>3 DEF Over, Waiting, InOrder
  <2>5. Settled(s, 1) BY <2>1 DEF CertInv
  <2>6. ~Waits(s, 1) /\ ~Waits(1, s) BY <2>1, <2>4 DEF Waits
  <2>7. Value(s) = Value(1) BY <2>5, <2>6 DEF Settled
  <2> QED BY <2>1, <2>3, <2>7
<1> QED BY <1>5, <1>6, <1>7 DEF UpdateAtomic

\* A file that an operation changes is one that its journal holds.
LEMMA EditStep ==
  ASSUME CertInv, [CertNext]_certVars, NEW s \in Servers, journal[s] # NoJournal,
         disk'[s] # disk[s], budget'["foreign"] = budget["foreign"]
  PROVE  disk[s] \in {journal[s].old, journal[s].new}
<1>1. HostTyped /\ BudgetTyped BY Typed DEF CertInv
<1>2. ~UNCHANGED disk /\ ~UNCHANGED host /\ ~UNCHANGED certVars BY DEF host, certVars
<1>3. ASSUME NEW o \in Ops, NEW x \in Servers, ~Refuses(o, x),
             \A t \in Servers : t # x => disk'[t] = disk[t]
      PROVE  disk[s] \in {journal[s].old, journal[s].new}
  <2>1. x = s BY <1>3
  <2> QED BY <1>3, <2>1 DEF Refuses
<1>4. ASSUME NEW o \in Ops, NEW x \in Servers, CanUndo(o, x),
             \A t \in Servers : t # x => disk'[t] = disk[t]
      PROVE  disk[s] \in {journal[s].old, journal[s].new}
  <2>1. x = s BY <1>4
  <2> QED BY <1>4, <2>1 DEF CanUndo
<1>5. ASSUME NEW o \in Ops, DeployTarget(o) PROVE disk[s] \in {journal[s].old, journal[s].new}
  <2>1. PICK x \in Servers : x = run[o].at BY <1>5, Deploying DEF DeployTarget
  <2>2. ~Refuses(o, x) /\ Installed(o, x) BY <1>2, <1>5, <2>1 DEF DeployTarget
  <2>3. \A t \in Servers : t # x => disk'[t] = disk[t] BY <1>1, <2>2 DEF Installed, HostTyped
  <2> QED BY <1>3, <2>2, <2>3
<1>6. ASSUME NEW o \in Ops, DeployFails(o) PROVE disk[s] \in {journal[s].old, journal[s].new}
  <2>1. PICK x \in Servers : x = run[o].at BY <1>6, Deploying DEF DeployFails
  <2>2. PICK j : j = JournalFor(o, x) OBVIOUS
  <2>3. /\ ~Refuses(o, x)
        /\ Undone(x, j.old) \/ Killed(o, x) \/ Installed(o, x)
    BY <1>2, <1>6, <2>1, <2>2 DEF DeployFails
  <2>4. \A t \in Servers : t # x => disk'[t] = disk[t]
    BY <1>1, <2>3 DEF Installed, Killed, Undone, HostTyped
  <2> QED BY <1>3, <2>3, <2>4
<1>7. ASSUME NEW o \in Ops, FinishTarget(o) PROVE disk[s] \in {journal[s].old, journal[s].new}
  <2>1. PICK x \in Servers : Finish(o, x) BY <1>7 DEF FinishTarget
  <2>2. CanUndo(o, x) /\ Undone(x, journal[x].old) BY <1>2, <2>1 DEF Finish
  <2>3. \A t \in Servers : t # x => disk'[t] = disk[t] BY <1>1, <2>2 DEF Undone, HostTyped
  <2> QED BY <1>4, <2>2, <2>3
<1>8. ASSUME NEW o \in Ops, FinishFails(o) PROVE disk[s] \in {journal[s].old, journal[s].new}
  <2>1. PICK x \in Servers :
          /\ CanUndo(o, x)
          /\ Undone(x, journal[x].old) \/ disk' = [disk EXCEPT ![x] = journal[x].old]
    BY <1>2, <1>8 DEF FinishFails
  <2>2. \A t \in Servers : t # x => disk'[t] = disk[t] BY <1>1, <2>1 DEF Undone, HostTyped
  <2> QED BY <1>4, <2>1, <2>2
<1>9. ASSUME NEW x \in Servers, EditCertificate(x) PROVE FALSE
  <2>1. /\ budget["foreign"] > 0
        /\ budget' = [budget EXCEPT !["foreign"] = @ - 1, !["total"] = @ - 1]
    BY <1>9 DEF EditCertificate, Spent
  <2>2. budget \in [CertKinds -> Nat] /\ "foreign" \in CertKinds BY <1>1 DEF BudgetTyped, CertKinds
  <2>3. budget'["foreign"] = budget["foreign"] - 1 /\ budget["foreign"] \in Nat BY <2>1, <2>2
  <2> QED BY <2>3
<1>10. CertNext BY <1>2
<1> QED
  BY <1>2, <1>5, <1>6, <1>7, <1>8, <1>9, <1>10
  DEF CertNext, EnqueueUpdate, ExecuteUpdate, RetryUpdate, WorkerGone, BeginTarget, CannotApply,
      AbortUpdate, DecideCommit, EndUpdate, RestartHaproxy

\* Every reachable state is well-typed: the rows, their phases and targets, the journals and the
\* receipts on the servers, and what is left of each bound.
THEOREM CertTypeCorrect == CertSpec => []CertTypeOK
<1>1. CertInit => CertInv BY CertInitially
<1>2. CertInv /\ [CertNext]_certVars => CertInv' BY CertKeeps
<1>3. CertInv => CertTypeOK BY DEF CertInv
<1> QED BY <1>1, <1>2, <1>3, PTL DEF CertSpec

-----------------------------------------------------------------------------
(* The update as an atomic commitment. *)

Decisions == [o \in Ops |-> DecisionOf(row[o])]
Parts     == [o \in Ops |-> [s \in Servers |-> PartOf(row[o], s)]]
Outcomes  == [o \in Ops |-> OutcomeOf(row[o])]

Unseen         == UNCHANGED <<Decisions, Parts, Outcomes>>
StepOfCommit   == Commitment!CommitNext \/ Unseen
OtherRows(o)   == \A q \in Ops : q # o => row'[q] = row[q]

\* What the abstract specification sees of a row.
LEMMA Images ==
  ASSUME NEW r, NEW s
  PROVE  /\ r.phase = "apply" => DecisionOf(r) = "open" /\ OutcomeOf(r) = "none"
         /\ r.phase \in Finishes => DecisionOf(r) = r.phase /\ OutcomeOf(r) = "none"
         /\ r.phase = "done" /\ r.status = "completed"
              => DecisionOf(r) = "commit" /\ OutcomeOf(r) = "completed"
         /\ r.phase = "done" /\ r.status = "failed"
              => DecisionOf(r) = "rollback" /\ OutcomeOf(r) = "failed"
         /\ r.target[s].finished = "commit" => PartOf(r, s) = "committed"
         /\ r.target[s].finished = "rollback" => PartOf(r, s) = "restored"
         /\ r.target[s].finished = "none" =>
              /\ ~r.target[s].started => PartOf(r, s) = "untouched"
              /\ r.target[s].started /\ IsReady(r, s) => PartOf(r, s) = "ready"
              /\ r.target[s].started /\ ~IsReady(r, s) => PartOf(r, s) = "touched"
BY DEF DecisionOf, OutcomeOf, PartOf, Finishes

\* A step that changes one row changes one row of each image.
LEMMA RowSeen ==
  ASSUME NEW o \in Ops, OtherRows(o), NEW d, NEW e, NEW p,
         DecisionOf(row'[o]) = d, OutcomeOf(row'[o]) = e,
         [s \in Servers |-> PartOf(row'[o], s)] = p
  PROVE  /\ Decisions' = [Decisions EXCEPT ![o] = d]
         /\ Outcomes' = [Outcomes EXCEPT ![o] = e]
         /\ Parts' = [Parts EXCEPT ![o] = p]
BY DEF Decisions, Outcomes, Parts, OtherRows

LEMMA RowUnseen ==
  ASSUME NEW o \in Ops, OtherRows(o),
         DecisionOf(row'[o]) = DecisionOf(row[o]), OutcomeOf(row'[o]) = OutcomeOf(row[o]),
         \A s \in Servers : PartOf(row'[o], s) = PartOf(row[o], s)
  PROVE  StepOfCommit
<1>1. PICK d, e, p : /\ d = DecisionOf(row'[o]) /\ e = OutcomeOf(row'[o])
                     /\ p = [s \in Servers |-> PartOf(row'[o], s)]
  OBVIOUS
<1>2. /\ Decisions' = [Decisions EXCEPT ![o] = d] /\ Outcomes' = [Outcomes EXCEPT ![o] = e]
      /\ Parts' = [Parts EXCEPT ![o] = p]
  BY <1>1, RowSeen
<1>3. d = Decisions[o] /\ e = Outcomes[o] /\ p = Parts[o] BY <1>1 DEF Decisions, Outcomes, Parts
<1>4. Unseen BY <1>2, <1>3 DEF Decisions, Outcomes, Parts, Unseen
<1> QED BY <1>4 DEF StepOfCommit

LEMMA RowsUnseen == ASSUME row' = row PROVE StepOfCommit
BY DEF StepOfCommit, Unseen, Decisions, Outcomes, Parts

LEMMA PartTurns ==
  ASSUME NEW o \in Ops, OtherRows(o), NEW s \in Servers, NEW to,
         DecisionOf(row'[o]) = DecisionOf(row[o]), OutcomeOf(row'[o]) = OutcomeOf(row[o]),
         PartOf(row'[o], s) = to,
         \A t \in Servers : t # s => PartOf(row'[o], t) = PartOf(row[o], t)
  PROVE  Commitment!Turn(o, s, PartOf(row[o], s), to)
<1>1. PICK d, e, p : /\ d = DecisionOf(row'[o]) /\ e = OutcomeOf(row'[o])
                     /\ p = [t \in Servers |-> PartOf(row'[o], t)]
  OBVIOUS
<1>2. /\ Decisions' = [Decisions EXCEPT ![o] = d] /\ Outcomes' = [Outcomes EXCEPT ![o] = e]
      /\ Parts' = [Parts EXCEPT ![o] = p]
  BY <1>1, RowSeen
<1>3. Decisions' = Decisions /\ Outcomes' = Outcomes BY <1>1, <1>2 DEF Decisions, Outcomes
<1>4. p = [Parts[o] EXCEPT ![s] = to] BY <1>1 DEF Parts
<1>5. Parts' = [Parts EXCEPT ![o][s] = to] BY <1>2, <1>4 DEF Parts
<1>6. Parts[o][s] = PartOf(row[o], s) BY DEF Parts
<1> QED BY <1>3, <1>5, <1>6 DEF Commitment!Turn, Decisions, Parts, Outcomes

\* The steps of the commitment change what each of them says it changes.
LEMMA DecidedStep ==
  ASSUME NEW o \in Ops, Commitment!Commit(o) \/ Commitment!Rollback(o)
  PROVE  StepOfCommit
<1>1. Decisions[o] = "open" /\ Decisions'[o] \in {"commit", "rollback"}
  BY DEF Commitment!Commit, Commitment!Rollback, Decisions
<1>2. Decisions'[o] # Decisions[o] BY <1>1
<1> QED BY <1>2 DEF StepOfCommit, Commitment!CommitNext, Decisions

LEMMA ReportedStep ==
  ASSUME NEW o \in Ops, Commitment!Report(o)
  PROVE  StepOfCommit
<1>1. Outcomes[o] = "none" /\ Outcomes'[o] \in {"completed", "failed"}
  BY DEF Commitment!Report, Outcomes
<1>2. Outcomes'[o] # Outcomes[o] BY <1>1
<1> QED BY <1>2 DEF StepOfCommit, Commitment!CommitNext, Outcomes

LEMMA MemberStep ==
  ASSUME NEW o \in Ops, NEW s \in Servers,
         Commitment!Touch(o, s) \/ Commitment!Prepare(o, s) \/ Commitment!Follow(o, s)
  PROVE  StepOfCommit
<1>1. PICK from, to : Commitment!Turn(o, s, from, to) /\ from # to
  BY DEF Commitment!Touch, Commitment!Prepare, Commitment!Follow
<1>2. Parts[o][s] = from /\ Parts'[o][s] = to BY <1>1 DEF Commitment!Turn, Parts
<1>3. Parts'[o] # Parts[o] BY <1>1, <1>2
<1> QED BY <1>3 DEF StepOfCommit, Commitment!CommitNext, Parts

\* A row that is neither decided, nor touched, nor ended looks the same.
LEMMA StatusUnseen ==
  ASSUME CertInv, NEW o \in Ops, OtherRows(o), row[o].phase # "done",
         row'[o].phase = row[o].phase,
         \A s \in Servers : /\ row'[o].target[s].started = row[o].target[s].started
                            /\ row'[o].target[s].finished = row[o].target[s].finished
                            /\ row[o].phase = "apply" =>
                                 (row'[o].target[s].status = "applied"
                                     <=> row[o].target[s].status = "applied")
  PROVE  StepOfCommit
<1>1. WorkTyped BY Typed DEF CertInv
<1>2. row[o] \in Rows BY <1>1 DEF WorkTyped
<1>3. row[o].phase \in {"apply", "commit", "rollback", "done"} BY <1>2 DEF Rows
<1>4. DecisionOf(row'[o]) = DecisionOf(row[o]) /\ OutcomeOf(row'[o]) = OutcomeOf(row[o])
  BY <1>3 DEF DecisionOf, OutcomeOf
<1>5. ASSUME NEW s \in Servers PROVE PartOf(row'[o], s) = PartOf(row[o], s)
  BY <1>3, <1>5 DEF PartOf, IsReady
<1> QED BY <1>4, <1>5, RowUnseen

LEMMA EnqueueCommits ==
  ASSUME CertInv, NEW o \in Ops, EnqueueUpdate(o)
  PROVE  StepOfCommit
<1>1. WorkTyped BY Typed DEF CertInv
<1>2. PICK c, v : row' = [row EXCEPT ![o].status = "created", ![o].cert = c, ![o].revision = v]
  BY DEF EnqueueUpdate
<1>3. row[o] \in Rows /\ row[o].status = "none" BY <1>1 DEF WorkTyped, EnqueueUpdate
<1>4. InOrder(row[o], run[o]) BY DEF CertInv
<1>5. row[o].phase = "apply" BY <1>3, <1>4 DEF InOrder
<1> DEFINE w == [row[o] EXCEPT !.status = "created", !.cert = c, !.revision = v]
<1>6. row' = [row EXCEPT ![o] = w] BY <1>1, <1>2 DEF WorkTyped
<1>7. w.phase = row[o].phase /\ w.target = row[o].target BY <1>3 DEF Rows
<1> HIDE DEF w
<1>8. OtherRows(o) /\ row'[o] = w BY <1>1, <1>6 DEF WorkTyped, OtherRows
<1> QED BY <1>5, <1>7, <1>8, StatusUnseen

LEMMA StatusCommits ==
  ASSUME CertInv, NEW o \in Ops, row[o].phase # "done", NEW x, row' = [row EXCEPT ![o].status = x]
  PROVE  StepOfCommit
<1>1. WorkTyped BY Typed DEF CertInv
<1>2. row[o] \in Rows BY <1>1 DEF WorkTyped
<1> DEFINE w == [row[o] EXCEPT !.status = x]
<1>3. row' = [row EXCEPT ![o] = w] BY <1>1 DEF WorkTyped
<1>4. w.phase = row[o].phase /\ w.target = row[o].target BY <1>2 DEF Rows
<1> HIDE DEF w
<1>5. OtherRows(o) /\ row'[o] = w BY <1>1, <1>3 DEF WorkTyped, OtherRows
<1> QED BY <1>4, <1>5, StatusUnseen

LEMMA ClaimCommits ==
  ASSUME CertInv, NEW o \in Ops, ExecuteUpdate(o) \/ RetryUpdate(o)
  PROVE  StepOfCommit
<1>1. InOrder(row[o], run[o]) BY DEF CertInv
<1>2. CASE ExecuteUpdate(o)
  <2>1. row[o].phase # "done" BY <1>1, <1>2 DEF ExecuteUpdate, InOrder
  <2>2. row' = [row EXCEPT ![o].status = "running"] BY <1>2 DEF ExecuteUpdate
  <2> QED BY <2>1, <2>2, StatusCommits
<1>3. CASE RetryUpdate(o)
  <2>1. row[o].phase # "done" BY <1>3 DEF RetryUpdate
  <2>2. row' = [row EXCEPT ![o].status = "created"] BY <1>3 DEF RetryUpdate
  <2> QED BY <2>1, <2>2, StatusCommits
<1> QED BY <1>2, <1>3

\* A server is touched for the first time, or again after a worker has gone.
LEMMA BeginCommits ==
  ASSUME CertInv, NEW o \in Ops, BeginTarget(o)
  PROVE  StepOfCommit
<1>1. WorkTyped BY Typed DEF CertInv
<1>2. PICK s \in Servers :
        /\ First(s, ToApply(o))
        /\ row' = [row EXCEPT ![o].target[s].status = "applying", ![o].target[s].started = TRUE]
  BY DEF BeginTarget
<1>3. row[o] \in Rows /\ run[o].step = "apply" BY <1>1 DEF WorkTyped, BeginTarget
<1>4. row[o].target \in [Servers -> Targets] BY <1>3 DEF Rows
<1> DEFINE t == [row[o].target EXCEPT ![s].status = "applying", ![s].started = TRUE]
           w == [row[o] EXCEPT !.target = t]
<1>5. row' = [row EXCEPT ![o] = w] BY <1>1, <1>2, <1>3, <1>4 DEF WorkTyped, Rows, Targets
<1>6. /\ t[s].started /\ t[s].status = "applying" /\ t[s].finished = row[o].target[s].finished
      /\ \A y \in Servers : y # s => t[y] = row[o].target[y]
  BY <1>4 DEF Targets
<1> HIDE DEF t
<1>7. w.target = t /\ w.phase = row[o].phase BY <1>3 DEF Rows
<1> HIDE DEF w
<1>8. OtherRows(o) /\ row'[o] = w BY <1>1, <1>5 DEF WorkTyped, OtherRows
<1>9. InOrder(row[o], run[o]) BY DEF CertInv
<1>10. /\ row[o].phase = "apply" /\ row[o].target[s].finished = "none"
       /\ row[o].target[s].status # "applied"
  BY <1>2, <1>3, <1>9 DEF InOrder, First, ToApply
<1>11. /\ DecisionOf(row[o]) = "open" /\ DecisionOf(row'[o]) = "open"
       /\ OutcomeOf(row[o]) = "none" /\ OutcomeOf(row'[o]) = "none"
  BY <1>7, <1>8, <1>10, Images
<1>12. PartOf(row'[o], s) = "touched" BY <1>6, <1>7, <1>8, <1>10, Images DEF IsReady
<1>13. \A y \in Servers : y # s => PartOf(row'[o], y) = PartOf(row[o], y)
  BY <1>6, <1>7, <1>8 DEF PartOf, IsReady
<1>14. PartOf(row[o], s) \in {"untouched", "touched"}
  BY <1>10 DEF PartOf, IsReady
<1>15. CASE PartOf(row[o], s) = "untouched"
  <2>1. Commitment!Turn(o, s, "untouched", "touched") BY <1>8, <1>11, <1>12, <1>13, <1>15, PartTurns
  <2>2. Commitment!Touch(o, s) BY <1>11, <2>1 DEF Commitment!Touch
  <2> QED BY <2>2, MemberStep
<1>16. CASE PartOf(row[o], s) = "touched"
  BY <1>8, <1>11, <1>12, <1>13, <1>16, RowUnseen
<1> QED BY <1>14, <1>15, <1>16
\* The answer of a deployment makes its server ready, or changes nothing but a status.
LEMMA AnswerCommits ==
  ASSUME CertInv, NEW o \in Ops, run[o].step = "deploy", NEW s, s = run[o].at,
         NEW x \in {"applied", "failed"}, WritesStatus(o, s, x)
  PROVE  StepOfCommit
<1>1. WorkTyped BY Typed DEF CertInv
<1>2. /\ s \in Servers /\ row[o].phase = "apply" /\ row[o].target[s].started
      /\ row[o].target[s].status = "applying" /\ row[o].target[s].finished = "none"
  BY Deploying
<1>3. /\ OtherRows(o) /\ OnlyStatus(row'[o], row[o], s) /\ row'[o].target[s].status = x
  <2>1. row \in [Ops -> Rows] /\ x \in TargetStatus /\ s \in Servers
    BY <1>1, <1>2 DEF WorkTyped, TargetStatus
  <2> QED BY <2>1, StatusWrite DEF OtherRows
<1>4. CASE x = "failed"
  BY <1>2, <1>3, <1>4, StatusUnseen DEF OnlyStatus
<1>5. CASE x = "applied"
  <2>1. row'[o].phase = "apply" BY <1>2, <1>3 DEF OnlyStatus
  <2>2. /\ DecisionOf(row[o]) = "open" /\ DecisionOf(row'[o]) = "open"
        /\ OutcomeOf(row[o]) = "none" /\ OutcomeOf(row'[o]) = "none"
    BY <1>2, <2>1, Images
  <2>3. PartOf(row[o], s) = "touched" BY <1>2, Images DEF IsReady
  <2>4. row'[o].target[s].started /\ row'[o].target[s].finished = "none"
    BY <1>2, <1>3 DEF OnlyStatus
  <2>5. PartOf(row'[o], s) = "ready" BY <1>3, <1>5, <2>1, <2>4, Images DEF IsReady
  <2>6. \A t \in Servers : t # s => PartOf(row'[o], t) = PartOf(row[o], t)
    BY <1>2, <1>3, <2>1 DEF PartOf, IsReady, OnlyStatus
  <2>7. Commitment!Turn(o, s, "touched", "ready") BY <1>2, <1>3, <2>2, <2>3, <2>5, <2>6, PartTurns
  <2>8. Commitment!Prepare(o, s) BY <2>2, <2>7 DEF Commitment!Prepare
  <2> QED BY <1>2, <2>8, MemberStep
<1> QED BY <1>4, <1>5

LEMMA DeployCommits ==
  ASSUME CertInv, NEW o \in Ops, DeployTarget(o) \/ DeployFails(o)
  PROVE  StepOfCommit
<1>1. run[o].step = "deploy" BY DEF DeployTarget, DeployFails
<1>2. PICK s : s = run[o].at OBVIOUS
<1>3. ASSUME NEW ok \in BOOLEAN, RecordDeploy(o, s, ok) PROVE StepOfCommit
  <2>1. CASE row' = row BY <2>1, RowsUnseen
  <2>2. CASE row' = [row EXCEPT ![o].target[s].status = IF ok THEN "applied" ELSE "failed"]
    <3>1. PICK x \in {"applied", "failed"} : x = IF ok THEN "applied" ELSE "failed" OBVIOUS
    <3>2. WritesStatus(o, s, x) BY <2>2, <3>1 DEF WritesStatus
    <3> QED BY <1>1, <1>2, <3>2, AnswerCommits
  <2> QED BY <1>3, <2>1, <2>2 DEF RecordDeploy
<1>4. CASE DeployTarget(o)
  <2>1. RecordDeploy(o, s, TRUE) \/ RecordDeploy(o, s, FALSE) BY <1>2, <1>4 DEF DeployTarget
  <2> QED BY <1>3, <2>1
<1>5. CASE DeployFails(o)
  <2>1. WritesStatus(o, s, "failed") BY <1>2, <1>5 DEF DeployFails, WritesStatus
  <2> QED BY <1>1, <1>2, <2>1, AnswerCommits
<1> QED BY <1>4, <1>5

\* The exception handler decides against the update ...
LEMMA AbortCommits ==
  ASSUME CertInv, NEW o \in Ops, AbortUpdate(o)
  PROVE  StepOfCommit
<1>1. WorkTyped BY Typed DEF CertInv
<1>2. row[o] \in Rows /\ run[o].step = "abort" BY <1>1 DEF WorkTyped, AbortUpdate
<1>3. row[o].target \in [Servers -> Targets] BY <1>2 DEF Rows
<1> DEFINE t == [s \in Servers |-> IF row[o].target[s].started THEN row[o].target[s]
                                   ELSE [row[o].target[s] EXCEPT !.status = "not_applied"]]
           w == [row[o] EXCEPT !.phase = "rollback", !.target = t]
<1>4. row' = [row EXCEPT ![o] = w] BY <1>1, <1>2 DEF AbortUpdate, WorkTyped
<1>5. \A y \in Servers : /\ t[y].finished = row[o].target[y].finished
                         /\ t[y].started = row[o].target[y].started
                         /\ row[o].target[y].started \in BOOLEAN
  BY <1>3 DEF Targets
<1> HIDE DEF t
<1>6. w.target = t /\ w.phase = "rollback" BY <1>2 DEF Rows
<1> HIDE DEF w
<1>7. OtherRows(o) /\ row'[o] = w BY <1>1, <1>4 DEF WorkTyped, OtherRows
<1>8. InOrder(row[o], run[o]) BY DEF CertInv
<1>9. row[o].phase = "apply" BY <1>2, <1>8 DEF InOrder
<1>10. DecisionOf(row[o]) = "open" /\ OutcomeOf(row[o]) = "none" BY <1>9, Images
<1>11. DecisionOf(row'[o]) = "rollback" /\ OutcomeOf(row'[o]) = "none"
  BY <1>6, <1>7, Images DEF Finishes
<1>12. ASSUME NEW y \in Servers
       PROVE  PartOf(row'[o], y) = IF PartOf(row[o], y) = "ready" THEN "touched" ELSE PartOf(row[o], y)
  <2>1. row[o].target[y].finished = "none" BY <1>8, <1>9 DEF InOrder
  <2>2. row'[o].target[y].finished = "none" /\ row'[o].phase = "rollback"
        /\ row'[o].target[y].started = row[o].target[y].started
    BY <1>5, <1>6, <1>7, <2>1
  <2> QED BY <2>1, <2>2 DEF PartOf, IsReady
<1>13. PICK p : p = [s \in Servers |-> PartOf(row'[o], s)] OBVIOUS
<1>14. /\ Decisions' = [Decisions EXCEPT ![o] = "rollback"]
       /\ Outcomes' = [Outcomes EXCEPT ![o] = "none"] /\ Parts' = [Parts EXCEPT ![o] = p]
  BY <1>7, <1>11, <1>13, RowSeen
<1>15. Outcomes' = Outcomes BY <1>10, <1>14 DEF Outcomes
<1>16. p = [s \in Servers |-> IF Parts[o][s] = "ready" THEN "touched" ELSE Parts[o][s]]
  BY <1>12, <1>13 DEF Parts
<1>17. Parts' = [Parts EXCEPT ![o] = [s \in Servers |-> IF @[s] = "ready" THEN "touched" ELSE @[s]]]
  BY <1>14, <1>16 DEF Parts
<1>18. Decisions[o] = "open" BY <1>10 DEF Decisions
<1>19. Commitment!Rollback(o)
  BY <1>14, <1>15, <1>17, <1>18 DEF Commitment!Rollback, Decisions, Parts, Outcomes
<1> QED BY <1>19, DecidedStep

\* ... and a commit is decided when every server is ready.
LEMMA DecideCommits ==
  ASSUME CertInv, NEW o \in Ops, DecideCommit(o)
  PROVE  StepOfCommit
<1>1. WorkTyped BY Typed DEF CertInv
<1>2. /\ run[o].step = "apply" /\ ToApply(o) = {} /\ row' = [row EXCEPT ![o].phase = "commit"]
  BY DEF DecideCommit
<1>3. row[o] \in Rows BY <1>1 DEF WorkTyped
<1> DEFINE w == [row[o] EXCEPT !.phase = "commit"]
<1>4. row' = [row EXCEPT ![o] = w] BY <1>1, <1>2 DEF WorkTyped
<1>5. w.target = row[o].target /\ w.phase = "commit" BY <1>3 DEF Rows
<1> HIDE DEF w
<1>6. OtherRows(o) /\ row'[o] = w BY <1>1, <1>4 DEF WorkTyped, OtherRows
<1>7. InOrder(row[o], run[o]) BY DEF CertInv
<1>8. row[o].phase = "apply" BY <1>2, <1>7 DEF InOrder
<1>9. \A s \in Servers : /\ row[o].target[s].status = "applied" /\ row[o].target[s].started
                         /\ row[o].target[s].finished = "none"
  BY <1>2, <1>7, <1>8 DEF ToApply, InOrder
<1>10. DecisionOf(row[o]) = "open" /\ OutcomeOf(row[o]) = "none" BY <1>8, Images
<1>11. DecisionOf(row'[o]) = "commit" /\ OutcomeOf(row'[o]) = "none"
  BY <1>5, <1>6, Images DEF Finishes
<1>12. \A s \in Servers : PartOf(row[o], s) = "ready" /\ PartOf(row'[o], s) = "ready"
  BY <1>5, <1>6, <1>8, <1>9 DEF PartOf, IsReady
<1>13. PICK p : p = [s \in Servers |-> PartOf(row'[o], s)] OBVIOUS
<1>14. /\ Decisions' = [Decisions EXCEPT ![o] = "commit"]
       /\ Outcomes' = [Outcomes EXCEPT ![o] = "none"] /\ Parts' = [Parts EXCEPT ![o] = p]
  BY <1>6, <1>11, <1>13, RowSeen
<1>15. Outcomes' = Outcomes /\ Parts' = Parts
  <2>1. Outcomes' = Outcomes BY <1>10, <1>14 DEF Outcomes
  <2>2. p = Parts[o] BY <1>12, <1>13 DEF Parts
  <2>3. Parts' = Parts BY <1>14, <2>2 DEF Parts
  <2> QED BY <2>1, <2>3
<1>16. Decisions[o] = "open" /\ \A s \in Servers : Parts[o][s] = "ready"
  BY <1>10, <1>12 DEF Decisions, Parts
<1>17. Commitment!Commit(o)
  BY <1>14, <1>15, <1>16 DEF Commitment!Commit, Decisions, Parts, Outcomes
<1> QED BY <1>17, DecidedStep
\* A server that was finished follows the decision.
LEMMA FinishedCommits ==
  ASSUME CertInv, NEW o \in Ops, run[o].step = "finish", NEW s \in Servers,
         First(s, Untried(o)), NEW x,
         row' = [row EXCEPT ![o].target[s].finished = row[o].phase, ![o].target[s].status = x]
  PROVE  StepOfCommit
<1>1. WorkTyped BY Typed DEF CertInv
<1>2. /\ row[o] \in Rows /\ row[o].phase \in Finishes /\ row[o].target[s].started
      /\ row[o].target[s].finished = "none"
  BY Finishing
<1>3. row[o].target \in [Servers -> Targets] BY <1>2 DEF Rows
<1>4. PICK d \in Finishes : d = row[o].phase BY <1>2
<1> DEFINE t == [row[o].target EXCEPT ![s].finished = d, ![s].status = x]
           w == [row[o] EXCEPT !.target = t]
<1>5. row' = [row EXCEPT ![o] = w] BY <1>1, <1>2, <1>3, <1>4 DEF WorkTyped, Rows, Targets
<1>6. t[s].finished = d /\ \A y \in Servers : y # s => t[y] = row[o].target[y]
  BY <1>3 DEF Targets
<1> HIDE DEF t
<1>7. w.target = t /\ w.phase = row[o].phase BY <1>2 DEF Rows
<1> HIDE DEF w
<1>8. OtherRows(o) /\ row'[o] = w BY <1>1, <1>5 DEF WorkTyped, OtherRows
<1>9. /\ DecisionOf(row[o]) = d /\ DecisionOf(row'[o]) = d
      /\ OutcomeOf(row[o]) = "none" /\ OutcomeOf(row'[o]) = "none"
  BY <1>4, <1>7, <1>8, Images
<1>10. \A y \in Servers : y # s => PartOf(row'[o], y) = PartOf(row[o], y)
  BY <1>6, <1>7, <1>8 DEF PartOf, IsReady
<1>11. CASE d = "commit"
  <2>1. PartOf(row[o], s) = "ready" BY <1>2, <1>4, <1>11, Images DEF IsReady
  <2>2. PartOf(row'[o], s) = "committed" BY <1>6, <1>7, <1>8, <1>11, Images
  <2>3. Commitment!Turn(o, s, "ready", "committed") BY <1>8, <1>9, <1>10, <2>1, <2>2, PartTurns
  <2>4. Commitment!Follow(o, s) BY <1>9, <1>11, <2>3 DEF Commitment!Follow
  <2> QED BY <2>4, MemberStep
<1>12. CASE d = "rollback"
  <2>1. PartOf(row[o], s) = "touched" BY <1>2, <1>4, <1>12, Images DEF IsReady
  <2>2. PartOf(row'[o], s) = "restored" BY <1>6, <1>7, <1>8, <1>12, Images
  <2>3. Commitment!Turn(o, s, "touched", "restored") BY <1>8, <1>9, <1>10, <2>1, <2>2, PartTurns
  <2>4. Commitment!Follow(o, s) BY <1>9, <1>12, <2>3 DEF Commitment!Follow
  <2> QED BY <2>4, MemberStep
<1> QED BY <1>11, <1>12 DEF Finishes

LEMMA FinishCommits ==
  ASSUME CertInv, NEW o \in Ops, FinishTarget(o) \/ FinishFails(o)
  PROVE  StepOfCommit
<1>1. WorkTyped /\ run[o].step = "finish" BY Typed DEF CertInv, FinishTarget, FinishFails
<1>2. ASSUME NEW s \in Servers, First(s, Untried(o)), row' = [row EXCEPT ![o].target[s].status = "failed"]
      PROVE  StepOfCommit
  <2>1. row[o].phase \in Finishes BY <1>1, <1>2, Finishing
  <2>2. OtherRows(o) /\ OnlyStatus(row'[o], row[o], s)
    <3>1. WritesStatus(o, s, "failed") BY <1>2 DEF WritesStatus
    <3>2. row \in [Ops -> Rows] /\ "failed" \in TargetStatus BY <1>1 DEF WorkTyped, TargetStatus
    <3> QED BY <3>1, <3>2, StatusWrite DEF OtherRows
  <2> QED BY <2>1, <2>2, StatusUnseen DEF OnlyStatus, Finishes
<1>3. ASSUME NEW s \in Servers, First(s, Untried(o)), NEW ok \in BOOLEAN, RecordFinish(o, s, ok)
      PROVE  StepOfCommit
  <2>1. CASE row' = row BY <2>1, RowsUnseen
  <2>2. CASE ok /\ row' = [row EXCEPT ![o].target[s].finished = row[o].phase,
                                      ![o].target[s].status =
                                          IF row[o].phase = "commit" THEN "applied" ELSE "rolled_back"]
    <3>1. PICK x : x = IF row[o].phase = "commit" THEN "applied" ELSE "rolled_back" OBVIOUS
    <3>2. row' = [row EXCEPT ![o].target[s].finished = row[o].phase, ![o].target[s].status = x]
      BY <2>2, <3>1
    <3> QED BY <1>1, <1>3, <3>2, FinishedCommits
  <2>3. CASE ~ok /\ row' = [row EXCEPT ![o].target[s].status = "failed"] BY <1>2, <1>3, <2>3
  <2> QED BY <1>3, <2>1, <2>2, <2>3 DEF RecordFinish
<1>4. CASE FinishTarget(o)
  <2>1. PICK s \in Servers : First(s, Untried(o)) /\ Finish(o, s) BY <1>4 DEF FinishTarget
  <2>2. \E ok \in BOOLEAN : RecordFinish(o, s, ok)
    <3>1. ReceiptAgrees(o, s) \in BOOLEAN /\ CanCommit(o, s) \in BOOLEAN /\ CanUndo(o, s) \in BOOLEAN
      BY DEF ReceiptAgrees, CanCommit, CanUndo
    <3> QED BY <2>1, <3>1 DEF Finish
  <2> QED BY <1>3, <2>1, <2>2
<1>5. CASE FinishFails(o)
  <2>1. PICK s \in Servers : /\ First(s, Untried(o))
                             /\ row' = [row EXCEPT ![o].target[s].status = "failed"]
    BY <1>5 DEF FinishFails
  <2> QED BY <1>2, <2>1
<1> QED BY <1>4, <1>5

\* The end is reported when every server has followed.
LEMMA EndCommits ==
  ASSUME CertInv, NEW o \in Ops, EndUpdate(o)
  PROVE  StepOfCommit
<1>1. WorkTyped BY Typed DEF CertInv
<1>2. row[o] \in Rows /\ run[o].step = "finish" BY <1>1 DEF WorkTyped, EndUpdate
<1>3. InOrder(row[o], run[o]) BY DEF CertInv
<1>4. row[o].phase \in Finishes BY <1>2, <1>3 DEF InOrder
<1>5. CASE ToFinish(o) # {}
  <2>1. row' = [row EXCEPT ![o].status = "failed"] BY <1>5 DEF EndUpdate
  <2> QED BY <1>4, <2>1, StatusCommits DEF Finishes
<1>6. CASE ToFinish(o) = {}
  <2>1. PICK x : x = IF row[o].phase = "commit" THEN "completed" ELSE "failed" OBVIOUS
  <2> DEFINE w == [row[o] EXCEPT !.phase = "done", !.status = x]
  <2>2. row' = [row EXCEPT ![o] = w] BY <1>1, <1>6, <2>1 DEF EndUpdate, WorkTyped
  <2>3. w.target = row[o].target /\ w.phase = "done" /\ w.status = x BY <1>2 DEF Rows
  <2> HIDE DEF w
  <2>4. OtherRows(o) /\ row'[o] = w BY <1>1, <2>2 DEF WorkTyped, OtherRows
  <2>5. \A s \in Servers : row[o].target[s].started => row[o].target[s].finished = row[o].phase
    BY <1>6 DEF ToFinish
  <2>6. DecisionOf(row[o]) = row[o].phase /\ OutcomeOf(row[o]) = "none" BY <1>4, Images
  <2>7. DecisionOf(row'[o]) = row[o].phase /\ OutcomeOf(row'[o]) = x
    BY <1>4, <2>1, <2>3, <2>4, Images DEF Finishes
  <2>8. \A s \in Servers : PartOf(row'[o], s) = PartOf(row[o], s)
    BY <1>3, <1>4, <2>3, <2>4, <2>5 DEF PartOf, InOrder, Finishes
  <2>9. \A s \in Servers : IF row[o].phase = "commit" THEN PartOf(row[o], s) = "committed"
                           ELSE PartOf(row[o], s) \in {"untouched", "restored"}
    BY <1>3, <1>4, <2>5 DEF PartOf, InOrder, Finishes
  <2>10. PICK p : p = [s \in Servers |-> PartOf(row'[o], s)] OBVIOUS
  <2>11. PICK d : d = row[o].phase OBVIOUS
  <2>12. /\ Decisions' = [Decisions EXCEPT ![o] = d]
         /\ Outcomes' = [Outcomes EXCEPT ![o] = x] /\ Parts' = [Parts EXCEPT ![o] = p]
    BY <2>4, <2>7, <2>10, <2>11, RowSeen
  <2>13. Decisions' = Decisions /\ Parts' = Parts
    <3>1. Decisions' = Decisions BY <2>6, <2>11, <2>12 DEF Decisions
    <3>2. p = Parts[o] BY <2>8, <2>10 DEF Parts
    <3>3. Parts' = Parts BY <2>12, <3>2 DEF Parts
    <3> QED BY <3>1, <3>3
  <2>14. /\ Decisions[o] = d /\ Outcomes[o] = "none"
         /\ \A s \in Servers : IF d = "commit" THEN Parts[o][s] = "committed"
                               ELSE Parts[o][s] \in {"untouched", "restored"}
    BY <2>6, <2>9, <2>11 DEF Decisions, Parts, Outcomes
  <2>15. Commitment!Report(o)
    BY <1>4, <2>1, <2>11, <2>12, <2>13, <2>14
    DEF Commitment!Report, Decisions, Parts, Outcomes, Finishes
  <2> QED BY <2>15, ReportedStep
<1> QED BY <1>5, <1>6

LEMMA CertStepCommits == CertInv /\ [CertNext]_certVars => StepOfCommit
<1> SUFFICES ASSUME CertInv, [CertNext]_certVars PROVE StepOfCommit OBVIOUS
<1>1. ASSUME NEW o \in Ops, WorkerGone(o) \/ CannotApply(o) PROVE StepOfCommit
  BY <1>1, RowsUnseen DEF WorkerGone, CannotApply
<1>2. ASSUME NEW s \in Servers, EditCertificate(s) \/ RestartHaproxy(s) PROVE StepOfCommit
  BY <1>2, RowsUnseen DEF EditCertificate, RestartHaproxy
<1>3. CASE UNCHANGED certVars BY <1>3, RowsUnseen DEF certVars
<1> QED
  BY <1>1, <1>2, <1>3, EnqueueCommits, ClaimCommits, BeginCommits, DeployCommits, AbortCommits,
     DecideCommits, FinishCommits, EndCommits
  DEF CertNext

\* execute and its journals implement atomic commitment: the phase of the row is one decision for
\* all servers, in favour only when each has answered, and "completed" or "failed" is reported
\* only when each has followed it, for any operations and number of servers.
THEOREM UpdatesImplementCommit == CertSpec => ImplementsAtomicCommit
<1>1. CertInit => Commitment!CommitInit
  <2> SUFFICES ASSUME CertInit PROVE Commitment!CommitInit
    OBVIOUS
  <2>1. ASSUME NEW o \in Ops
        PROVE  /\ DecisionOf(row[o]) = "open" /\ OutcomeOf(row[o]) = "none"
               /\ \A s \in Servers : PartOf(row[o], s) = "untouched"
    <3>1. /\ row[o].phase = "apply"
          /\ \A s \in Servers : row[o].target[s].finished = "none" /\ ~row[o].target[s].started
      BY DEF CertInit, NewTarget
    <3> QED BY <3>1, Images
  <2> QED BY <2>1 DEF Commitment!CommitInit
<1>2. CertInit => CertInv BY CertInitially
<1>3. CertInv /\ [CertNext]_certVars => CertInv' BY CertKeeps
<1>4. CertInv /\ [CertNext]_certVars => [Commitment!CommitNext]_(Commitment!commitVars)
  BY CertStepCommits DEF StepOfCommit, Unseen, Decisions, Parts, Outcomes, Commitment!commitVars
<1> QED BY <1>1, <1>2, <1>3, <1>4, PTL DEF CertSpec, ImplementsAtomicCommit, Commitment!CommitSpec

\* execute, deploy_runtime and finish_runtime: whichever way an update ends, it ends so on every
\* server of the operation, leaves no journal, leaves the servers with one certificate when no
\* administrator interfered, and never overwrites the file of one that did; it is an atomic
\* commitment of its servers.
THEOREM UpdatesConsistent == CertSpec => UpdateConsistent
<1>1. CertInit => CertInv BY CertInitially
<1>2. CertInv /\ [CertNext]_certVars => CertInv' BY CertKeeps
<1>3. CertInv => UpdateAtomic BY InvAtomic
<1>4. CertInv /\ [CertNext]_certVars
      => [\A s \in Servers : journal[s] # NoJournal /\ disk'[s] # disk[s]
                             /\ budget'["foreign"] = budget["foreign"]
            => disk[s] \in {journal[s].old, journal[s].new}]_certVars
  BY EditStep
<1> QED
  BY <1>1, <1>2, <1>3, <1>4, UpdatesImplementCommit,
     PTL DEF CertSpec, UpdateConsistent, EditSurvivesRollback
=============================================================================
