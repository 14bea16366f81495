-------------------------- MODULE MaintenancePanel --------------------------
(* The maintenance panel of an HA cluster: the list of its plans is read     *)
(* again and again while the panel is open, one read at a time; a request of *)
(* the user interrupts the reads; and the same panel is reused for the next  *)
(* cluster while reads and requests of the one before are still under way.   *)
EXTENDS Naturals

CONSTANTS Clusters,    \* the HA clusters
          NoCluster,   \* nothing shown or chosen yet
          MaxRevision, \* bound: changes of the plans of one cluster
          MaxActs,     \* bound: panels opened and closed, requests sent, tabs shown
          MaxErrors    \* bound: failed reads and requests

ASSUME MaintenanceAssumption ==
    NoCluster \notin Clusters /\ MaxRevision \in Nat /\ MaxActs \in Nat /\ MaxErrors \in Nat

VARIABLES
    revision,     \* revision[k]: how often the plans of k have changed
    opened,       \* the panel is open
    context,      \* the cluster of the panel
    listing,      \* the read of the plans under way (loading), or Idle
    refreshAgain, \* another read was asked for meanwhile
    timer,        \* the next read is scheduled
    posting,      \* the request under way, or Idle
    plans,        \* the plans shown: of which cluster, of which revision
    older,        \* the request for older plans, or Idle
    history,      \* the clusters whose finished plans are shown
    asked,        \* reads of the members without an answer
    nodes,        \* the cluster whose nodes the form offers
    confirmed,    \* confirmed[k]: the revision the last answer told of
    actsLeft, errorsLeft

maintenanceVars == <<revision, opened, context, listing, refreshAgain, timer, posting, plans,
                     older, history, asked, nodes, confirmed, actsLeft, errorsLeft>>
formVars  == <<asked, nodes>>
olderVars == <<older, history>>

\* "current" stands for the comparison of a generation or selection counter
\* with its value when the request was sent.
Idle     == [step |-> "idle"]
Calls    == [step : {"sent", "served"}, cluster : Clusters, current : BOOLEAN, rev : 0..MaxRevision]
Call(k)  == [step |-> "sent", cluster |-> k, current |-> TRUE, rev |-> 0]
Stale(r) == IF r = Idle THEN r ELSE [r EXCEPT !.current = FALSE]
Served(r) == [r EXCEPT !.step = "served", !.rev = revision[r.cluster]]
NoPlans  == [cluster |-> NoCluster, rev |-> 0]

MaintenanceTypeOK ==
    /\ revision \in [Clusters -> 0..MaxRevision] /\ confirmed \in [Clusters -> 0..MaxRevision]
    /\ opened \in BOOLEAN /\ refreshAgain \in BOOLEAN /\ timer \in BOOLEAN
    /\ context \in Clusters \cup {NoCluster} /\ nodes \in Clusters \cup {NoCluster}
    /\ listing \in Calls \cup {Idle} /\ posting \in Calls \cup {Idle} /\ older \in Calls \cup {Idle}
    /\ plans \in [cluster : Clusters, rev : 0..MaxRevision] \cup {NoPlans}
    /\ history \subseteq Clusters
    /\ asked \subseteq [cluster : Clusters, current : BOOLEAN]
    /\ actsLeft \in 0..MaxActs /\ errorsLeft \in 0..MaxErrors

MaintenanceInit ==
    /\ revision = [k \in Clusters |-> 0] /\ confirmed = revision
    /\ opened = FALSE /\ context = NoCluster
    /\ listing = Idle /\ refreshAgain = FALSE /\ timer = FALSE
    /\ posting = Idle /\ plans = NoPlans
    /\ older = Idle /\ history = {}
    /\ asked = {} /\ nodes = NoCluster
    /\ actsLeft = MaxActs /\ errorsLeft = MaxErrors

Act   == actsLeft > 0 /\ actsLeft' = actsLeft - 1
Error == errorsLeft > 0 /\ errorsLeft' = errorsLeft - 1

-----------------------------------------------------------------------------
(* The server. *)

\* A worker, or another user, changes the plans of a cluster.
PlansChange(k) ==
    /\ revision[k] < MaxRevision
    /\ revision' = [revision EXCEPT ![k] = @ + 1]
    /\ UNCHANGED <<opened, context, listing, refreshAgain, timer, posting, plans, confirmed,
                   actsLeft, errorsLeft, formVars, olderVars>>

ServeList ==
    /\ listing.step = "sent" /\ listing' = Served(listing)
    /\ UNCHANGED <<revision, opened, context, refreshAgain, timer, posting, plans, confirmed,
                   actsLeft, errorsLeft, formVars, olderVars>>

ServeRequest ==
    /\ posting.step = "sent" /\ revision[posting.cluster] < MaxRevision
    /\ revision' = [revision EXCEPT ![posting.cluster] = @ + 1]
    /\ posting' = [posting EXCEPT !.step = "served", !.rev = revision'[posting.cluster]]
    /\ UNCHANGED <<opened, context, listing, refreshAgain, timer, plans, confirmed,
                   actsLeft, errorsLeft, formVars, olderVars>>

-----------------------------------------------------------------------------
(* refresh *)

\* The effect of refresh, given the panel, the read and the request of that
\* moment: nothing while a request is under way, a note while a read is.
Refresh(open, key, reading, request) ==
    /\ timer' = FALSE
    /\ listing' = IF open /\ request = Idle /\ reading = Idle THEN Call(key) ELSE reading
    /\ refreshAgain' = (refreshAgain \/ (open /\ request = Idle /\ reading # Idle))

\* The end of a read: it is repeated at once if that was asked for or the
\* answer was of no use, and otherwise scheduled.
AfterList(wasCurrent) ==
    IF ~opened \/ posting # Idle
    THEN listing' = Idle /\ UNCHANGED <<refreshAgain, timer>>
    ELSE IF refreshAgain \/ ~wasCurrent
    THEN listing' = Call(context) /\ refreshAgain' = FALSE /\ timer' = FALSE
    ELSE listing' = Idle /\ timer' = TRUE /\ UNCHANGED refreshAgain

ListArrives ==
    /\ listing.step = "served"
    /\ IF listing.current /\ opened
       THEN /\ plans' = [cluster |-> listing.cluster, rev |-> listing.rev]
            /\ history' = history \cup {listing.cluster}
       ELSE UNCHANGED <<plans, history>>
    /\ AfterList(listing.current)
    /\ UNCHANGED <<revision, opened, context, posting, confirmed, older, actsLeft, errorsLeft, formVars>>

\* Mutant: a failed read is the last one.
ListFailsForGood ==
    /\ listing # Idle /\ Error
    /\ listing' = Idle
    /\ UNCHANGED <<revision, opened, context, refreshAgain, timer, posting, plans, confirmed, actsLeft,
                   formVars, olderVars>>

ListFails ==
    /\ listing # Idle /\ Error
    /\ AfterList(listing.current)
    /\ UNCHANGED <<revision, opened, context, posting, plans, confirmed, actsLeft, formVars, olderVars>>

TimerFires_ ==
    /\ timer /\ Refresh(opened, context, listing, posting)
    /\ UNCHANGED <<revision, opened, context, posting, plans, confirmed, actsLeft, errorsLeft,
                   formVars, olderVars>>

\* The browser tab is shown again.
TabShown ==
    /\ opened /\ Act /\ Refresh(opened, context, listing, posting)
    /\ UNCHANGED <<revision, opened, context, posting, plans, confirmed, errorsLeft, formVars, olderVars>>

-----------------------------------------------------------------------------
(* Opening and closing the panel, and the nodes its form offers. *)

StaleNodes == {[r EXCEPT !.current = FALSE] : r \in asked}

\* Everything of another cluster is removed; the nodes are read anew in any case.
OpenPanel(k) ==
    /\ Act
    /\ opened' = TRUE /\ context' = k
    /\ IF context # k THEN plans' = NoPlans /\ history' = {} ELSE UNCHANGED <<plans, history>>
    /\ asked' = StaleNodes \cup {[cluster |-> k, current |-> TRUE]} /\ nodes' = NoCluster
    /\ posting' = Stale(posting) /\ older' = Stale(older)
    /\ Refresh(TRUE, k, Stale(listing), posting)
    /\ UNCHANGED <<revision, confirmed, errorsLeft>>

ClosePanel ==
    /\ opened /\ opened' = FALSE /\ Act
    /\ listing' = Stale(listing) /\ posting' = Stale(posting) /\ older' = Stale(older)
    /\ asked' = StaleNodes
    /\ timer' = FALSE
    /\ UNCHANGED <<revision, context, refreshAgain, plans, confirmed, errorsLeft, history, nodes>>

\* members: an answer that is not the last asked for is dropped.
MembersArrive(r) ==
    /\ asked' = asked \ {r}
    /\ nodes' = IF r.current THEN r.cluster ELSE nodes
    /\ UNCHANGED <<revision, opened, context, listing, refreshAgain, timer, posting, plans, confirmed,
                   actsLeft, errorsLeft, olderVars>>

MembersFail(r) ==
    /\ Error /\ asked' = asked \ {r}
    /\ UNCHANGED <<revision, opened, context, listing, refreshAgain, timer, posting, plans, confirmed,
                   actsLeft, nodes, olderVars>>

-----------------------------------------------------------------------------
(* The requests of the user: a new plan, or an action of a plan shown. *)

SendRequest ==
    /\ opened /\ posting = Idle /\ Act
    /\ plans.cluster = context \/ nodes # NoCluster
    /\ posting' = Call(context)
    /\ listing' = Stale(listing) /\ older' = Stale(older)
    /\ timer' = FALSE
    /\ UNCHANGED <<revision, opened, context, refreshAgain, plans, confirmed, errorsLeft, history, formVars>>

\* The list is read again whatever the answer was.
RequestEnds ==
    /\ Refresh(opened, context, listing, Idle)
    /\ posting' = Idle
    /\ UNCHANGED <<revision, opened, context, plans, actsLeft, formVars, olderVars>>
RequestAnswered ==
    /\ posting.step = "served"
    /\ confirmed' = [confirmed EXCEPT ![posting.cluster] = posting.rev]
    /\ RequestEnds
    /\ UNCHANGED errorsLeft
RequestFails ==
    /\ posting # Idle
    /\ \/ posting.step = "sent" /\ UNCHANGED errorsLeft
       \/ posting.step = "served" /\ Error
    /\ RequestEnds
    /\ UNCHANGED confirmed

-----------------------------------------------------------------------------
(* Older plans. *)

AskOlder ==
    /\ opened /\ Act /\ older = Idle /\ plans.cluster = context
    /\ older' = Call(context)
    /\ UNCHANGED <<revision, opened, context, listing, refreshAgain, timer, posting, plans, confirmed,
                   errorsLeft, history, formVars>>

OlderArrive ==
    /\ older # Idle /\ older' = Idle
    /\ history' = IF older.current /\ opened THEN history \cup {older.cluster} ELSE history
    /\ UNCHANGED <<revision, opened, context, listing, refreshAgain, timer, posting, plans, confirmed,
                   actsLeft, errorsLeft, formVars>>

MaintenanceNext ==
    \/ \E k \in Clusters : PlansChange(k)
    \/ ServeList
    \/ ServeRequest
    \/ ListArrives
    \/ ListFails
    \/ TimerFires_
    \/ TabShown
    \/ \E k \in Clusters : OpenPanel(k)
    \/ ClosePanel
    \/ \E r \in asked : MembersArrive(r)
    \/ \E r \in asked : MembersFail(r)
    \/ SendRequest
    \/ RequestAnswered
    \/ RequestFails
    \/ AskOlder
    \/ OlderArrive

MaintenanceSpec == MaintenanceInit /\ [][MaintenanceNext]_maintenanceVars

\* Timers fire, and every call is answered or fails.
MaintenanceFairness ==
    /\ WF_maintenanceVars(TimerFires_)
    /\ WF_maintenanceVars(ServeList) /\ WF_maintenanceVars(ListArrives)
    /\ WF_maintenanceVars(RequestAnswered \/ RequestFails)
MaintenanceFairSpec == MaintenanceSpec /\ MaintenanceFairness

-----------------------------------------------------------------------------
(* Properties. *)

\* Whatever was opened, closed and sent in which order, an open panel always
\* has a read or a request under way or the next read scheduled.
OpenPanelRefreshes == opened => listing # Idle \/ timer \/ posting # Idle

\* The panel never shows the plans, the history or the nodes of a cluster it
\* was opened for before.
PanelOfOneCluster ==
    /\ plans.cluster \in {context, NoCluster} /\ nodes \in {context, NoCluster}
    /\ history \subseteq {context}

\* However it is reused, the panel stays alive and shows one cluster.
PanelKept == [][(OpenPanelRefreshes /\ PanelOfOneCluster)']_maintenanceVars

\* What an answer has told the user is not undone by a list read before.
AnswerNotUndone ==
    [][plans' # plans /\ plans'.cluster # NoCluster =>
          plans'.rev >= confirmed'[plans'.cluster]]_maintenanceVars

\* A panel left open ends up with the plans the server has.
PanelCatchesUp ==
    <>[](opened => plans = [cluster |-> context, rev |-> revision[context]])

\* The plans shown follow those of the server, whatever arrives late or fails
\* and whichever cluster the panel is used for next.
PlansFollowServer == PanelKept /\ AnswerNotUndone /\ PanelCatchesUp
=============================================================================
