----------------------------- MODULE ClusterPage -----------------------------
(* The page of the Pacemaker clusters: one cluster of several is selected,    *)
(* its history and its state are read and shown, its operations are followed  *)
(* until they end, and the user asks for new ones.  The page knows no frames: *)
(* a list of clusters, a refresh, an operation that is followed, a            *)
(* confirmation dialog and the requests of the user overlap, and share the    *)
(* selection and the two controls that change it.                             *)
EXTENDS Naturals

CONSTANTS PageClusters,    \* the registered clusters
          NoSelection,     \* none selected yet
          MaxPageClicks,   \* bound: clusters chosen, refreshes and operations asked for
          MaxPageTroubles  \* bound: calls that fail

ASSUME ClusterPageAssumption ==
    NoSelection \notin PageClusters /\ MaxPageClicks \in Nat /\ MaxPageTroubles \in Nat

VARIABLES
    task,        \* task[k]: the number of the last operation of cluster k
    running,     \* the clusters whose last operation has not ended
    picked,      \* what the selector shows, or NoSelection before the page is opened
    loading,     \* the list of the clusters is being read
    selected,    \* the cluster the page works on
    refreshing,  \* the refresh under way, or Nothing
    followed,    \* the operation that is followed, or Nothing
    dialog,      \* a confirmation is open
    asks,        \* the requests of the user without an answer
    selectorOn, refreshOn,  \* the selector and the button are enabled
    clicksLeft, troublesLeft

clusterPageVars == <<task, running, picked, loading, selected, refreshing, followed, dialog, asks,
                     selectorOn, refreshOn, clicksLeft, troublesLeft>>
controls   == <<selectorOn, refreshOn>>
serverVars == <<task, running>>
budgets    == <<clicksLeft, troublesLeft>>

Nothing   == [step |-> "idle"]
TaskIds   == 0..(MaxPageClicks + 1)
Refreshes == [step : {"history", "told", "status"}, cluster : PageClusters, task : TaskIds]
\* An operation is followed at the cluster selected when that began; "refresh"
\* tells whether the page is refreshed afterwards.
Follows   == [step : {"poll"}, at : PageClusters, of : PageClusters, task : TaskIds, refresh : BOOLEAN]
Asks      == [n : 1..MaxPageClicks, step : {"sent", "accepted", "refused"}, cluster : PageClusters,
              task : TaskIds]

ClusterPageTypeOK ==
    /\ task \in [PageClusters -> TaskIds] /\ running \subseteq PageClusters
    /\ {picked, selected} \subseteq PageClusters \cup {NoSelection} /\ loading \in BOOLEAN
    /\ refreshing \in Refreshes \cup {Nothing} /\ followed \in Follows \cup {Nothing}
    /\ dialog \in BOOLEAN /\ asks \subseteq Asks
    /\ selectorOn \in BOOLEAN /\ refreshOn \in BOOLEAN
    /\ clicksLeft \in 0..MaxPageClicks /\ troublesLeft \in 0..MaxPageTroubles

\* Other users may have started operations.
ClusterPageInit ==
    /\ running \in SUBSET PageClusters
    /\ task = [k \in PageClusters |-> IF k \in running THEN 1 ELSE 0]
    /\ picked = NoSelection /\ loading = FALSE /\ selected = NoSelection
    /\ refreshing = Nothing /\ followed = Nothing /\ dialog = FALSE /\ asks = {}
    /\ selectorOn = FALSE /\ refreshOn = TRUE
    /\ clicksLeft = MaxPageClicks /\ troublesLeft = MaxPageTroubles

\* The dialog is modal: while it is open the rest of the page takes no click.
Clicked == clicksLeft > 0 /\ clicksLeft' = clicksLeft - 1 /\ ~dialog /\ UNCHANGED troublesLeft
Trouble == troublesLeft > 0 /\ troublesLeft' = troublesLeft - 1 /\ UNCHANGED clicksLeft

BeginRefresh(k) ==
    /\ refreshing' = [step |-> "history", cluster |-> k, task |-> 0]
    /\ selectorOn' = FALSE /\ refreshOn' = FALSE

EndRefresh == refreshing' = Nothing /\ refreshOn' = TRUE /\ selectorOn' = (followed = Nothing)

-----------------------------------------------------------------------------
(* The list of the clusters. *)

BeginLoad(k) == picked' = k /\ loading' = TRUE /\ selectorOn' = FALSE /\ refreshOn' = FALSE

OpenPage(k) ==
    /\ picked = NoSelection
    /\ BeginLoad(k)
    /\ UNCHANGED <<serverVars, selected, refreshing, followed, dialog, asks, budgets>>

ChooseCluster(k) ==
    /\ selectorOn /\ k # picked /\ Clicked
    /\ BeginLoad(k)
    /\ UNCHANGED <<serverVars, selected, refreshing, followed, dialog, asks>>

\* A read that was overtaken by another one has no effect, so only the newest
\* is kept.  A refresh follows unless one is running already.
ClustersArrive ==
    /\ loading /\ loading' = FALSE
    /\ selected' = picked
    /\ \/ refreshing = Nothing /\ BeginRefresh(picked)
       \/ /\ refreshing # Nothing
          /\ selectorOn' = (followed = Nothing) /\ refreshOn' = TRUE
          /\ UNCHANGED refreshing
    /\ UNCHANGED <<serverVars, picked, followed, dialog, asks, budgets>>

ClustersFail ==
    /\ loading /\ loading' = FALSE /\ Trouble
    /\ selectorOn' = (followed = Nothing /\ selected # NoSelection) /\ refreshOn' = TRUE
    /\ UNCHANGED <<serverVars, picked, selected, refreshing, followed, dialog, asks>>

RefreshClicked ==
    /\ refreshOn /\ refreshing = Nothing /\ picked # NoSelection /\ Clicked
    /\ \/ selected = NoSelection /\ BeginLoad(picked) /\ UNCHANGED refreshing
       \/ selected # NoSelection /\ BeginRefresh(selected) /\ UNCHANGED <<picked, loading>>
    /\ UNCHANGED <<serverVars, selected, followed, dialog, asks>>

-----------------------------------------------------------------------------
(* A refresh: the history first, then the state of the cluster. *)

ServeHistory ==
    /\ refreshing.step = "history"
    /\ refreshing' = [refreshing EXCEPT
           !.step = "told",
           !.task = IF refreshing.cluster \in running THEN task[refreshing.cluster] ELSE 0]
    /\ UNCHANGED <<serverVars, picked, loading, selected, followed, dialog, asks, controls, budgets>>

\* An operation the history names is followed from here on, beside the refresh.
HistoryArrives ==
    /\ refreshing.step = "told"
    /\ refreshing' = [step |-> "status", cluster |-> selected, task |-> 0]
    /\ IF selected = refreshing.cluster /\ refreshing.task > 0 /\ followed = Nothing
       THEN /\ followed' = [step |-> "poll", at |-> selected, of |-> selected, task |-> refreshing.task,
                        refresh |-> FALSE]
            /\ selectorOn' = FALSE
       ELSE UNCHANGED <<followed, selectorOn>>
    /\ UNCHANGED <<serverVars, picked, loading, selected, dialog, asks, refreshOn, budgets>>

\* The state of a cluster that is not the selected one any more is not shown; the
\* refresh is over all the same.
StatusArrives ==
    /\ refreshing.step = "status"
    /\ EndRefresh
    /\ UNCHANGED <<serverVars, picked, loading, selected, followed, dialog, asks, budgets>>

RefreshFails ==
    /\ refreshing # Nothing /\ Trouble
    /\ EndRefresh
    /\ UNCHANGED <<serverVars, picked, loading, selected, followed, dialog, asks>>

-----------------------------------------------------------------------------
(* Operations of the menus and buttons of the page.                           *)

AskConfirmation ==
    /\ selected # NoSelection /\ Clicked
    /\ dialog' = TRUE
    /\ UNCHANGED <<serverVars, picked, loading, selected, refreshing, followed, asks, controls>>

Cancelled ==
    /\ dialog /\ dialog' = FALSE
    /\ UNCHANGED <<serverVars, picked, loading, selected, refreshing, followed, asks, controls, budgets>>

\* The cluster of the request is read after the confirmation: it need not be the
\* one whose nodes the dialog was opened for.
Confirmed ==
    /\ dialog /\ dialog' = FALSE
    /\ asks' = asks \cup {[n |-> clicksLeft + 1, step |-> "sent", cluster |-> selected, task |-> 0]}
    /\ UNCHANGED <<serverVars, picked, loading, selected, refreshing, followed, controls, budgets>>

\* A cluster runs one operation at a time.
ServeAsk(p) ==
    /\ p.step = "sent"
    /\ IF p.cluster \in running
       THEN asks' = (asks \ {p}) \cup {[p EXCEPT !.step = "refused"]} /\ UNCHANGED serverVars
       ELSE /\ task' = [task EXCEPT ![p.cluster] = @ + 1] /\ running' = running \cup {p.cluster}
            /\ asks' = (asks \ {p}) \cup {[p EXCEPT !.step = "accepted", !.task = task'[p.cluster]]}
    /\ UNCHANGED <<picked, loading, selected, refreshing, followed, dialog, controls, budgets>>

\* Only one operation is followed at a time; it is asked for at the cluster
\* selected by now.
AskAnswered(p) ==
    /\ p.step # "sent" /\ asks' = asks \ {p}
    /\ IF p.step = "accepted" /\ followed = Nothing
       THEN /\ followed' = [step |-> "poll", at |-> selected, of |-> p.cluster, task |-> p.task,
                        refresh |-> TRUE]
            /\ selectorOn' = FALSE
       ELSE UNCHANGED <<followed, selectorOn>>
    /\ UNCHANGED <<serverVars, picked, loading, selected, refreshing, dialog, refreshOn, budgets>>

AskFails(p) ==
    /\ asks' = asks \ {p} /\ Trouble
    /\ UNCHANGED <<serverVars, picked, loading, selected, refreshing, followed, dialog, controls>>

\* An operation ends; what it did to the cluster is not of interest here.
TaskEnds(k) ==
    /\ k \in running /\ running' = running \ {k}
    /\ UNCHANGED <<task, picked, loading, selected, refreshing, followed, dialog, asks, controls, budgets>>

\* The selector is enabled in any case, and the page refreshed if that was
\* waiting for the operation.
EndFollow(refresh) ==
    /\ followed' = Nothing
    /\ IF refresh /\ refreshing = Nothing
       THEN BeginRefresh(selected)
       ELSE selectorOn' = TRUE /\ UNCHANGED <<refreshing, refreshOn>>

TaskOver == followed.of \notin running \/ followed.task # task[followed.of]

\* Mutant: an operation the server does not know yet under this cluster is asked for again.
FollowAnsweredPatient ==
    /\ followed # Nothing /\ followed.at = followed.of
    /\ \/ selected # followed.at /\ EndFollow(followed.refresh)
       \/ /\ selected = followed.at /\ TaskOver
          /\ \E completed \in BOOLEAN : EndFollow(followed.refresh /\ completed)
    /\ UNCHANGED <<serverVars, picked, loading, selected, dialog, asks, budgets>>

\* The server knows no operation of another cluster under this one; an answer
\* for a cluster no longer selected ends the following; so does the end of the
\* operation, with an error if it failed.  Any other answer is asked for again.
FollowAnswered ==
    /\ followed # Nothing
    /\ \/ followed.at # followed.of /\ EndFollow(FALSE)
       \/ followed.at = followed.of /\ selected # followed.at /\ EndFollow(followed.refresh)
       \/ /\ followed.at = followed.of /\ selected = followed.at /\ TaskOver
          /\ \E completed \in BOOLEAN : EndFollow(followed.refresh /\ completed)
    /\ UNCHANGED <<serverVars, picked, loading, selected, dialog, asks, budgets>>

\* A failed call, or 1200 answers without an end.
FollowFails ==
    /\ followed # Nothing /\ Trouble
    /\ EndFollow(FALSE)
    /\ UNCHANGED <<serverVars, picked, loading, selected, dialog, asks>>

ClusterPageNext ==
    \/ \E k \in PageClusters : OpenPage(k)
    \/ \E k \in PageClusters : ChooseCluster(k)
    \/ ClustersArrive
    \/ ClustersFail
    \/ RefreshClicked
    \/ ServeHistory
    \/ HistoryArrives
    \/ StatusArrives
    \/ RefreshFails
    \/ AskConfirmation
    \/ Cancelled
    \/ Confirmed
    \/ \E p \in asks : ServeAsk(p)
    \/ \E p \in asks : AskAnswered(p)
    \/ \E p \in asks : AskFails(p)
    \/ \E k \in PageClusters : TaskEnds(k)
    \/ FollowAnswered
    \/ FollowFails

ClusterPageSpec == ClusterPageInit /\ [][ClusterPageNext]_clusterPageVars

\* Every call is answered or fails, and every operation ends.
ClusterPageFairness ==
    /\ WF_clusterPageVars(ClustersArrive)
    /\ WF_clusterPageVars(ServeHistory)
    /\ WF_clusterPageVars(HistoryArrives)
    /\ WF_clusterPageVars(StatusArrives)
    /\ WF_clusterPageVars(\E k \in PageClusters : TaskEnds(k))
    /\ WF_clusterPageVars(FollowAnswered)
ClusterPageFairSpec == ClusterPageSpec /\ ClusterPageFairness

-----------------------------------------------------------------------------
(* Properties. *)

\* While an operation is followed nobody chooses another cluster, and as soon as
\* nothing is under way both controls are usable: no flag, and no order of the
\* "finally" blocks that each set the controls, locks the user out.
ControlsKept ==
    /\ followed # Nothing => ~selectorOn
    /\ ~loading /\ refreshing = Nothing => refreshOn
    /\ ~loading /\ refreshing = Nothing /\ followed = Nothing /\ selected # NoSelection => selectorOn

\* Whatever overlaps or fails, the page comes to rest.
PageRests == <>[](refreshing = Nothing /\ followed = Nothing /\ ~loading)

PageComesBack == []ControlsKept /\ PageRests
=============================================================================
