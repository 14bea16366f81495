---------------------------- MODULE MCEndpoints ----------------------------
(* Small instances of the parts at the end of a line that loses messages:    *)
(* five pages of the web interface, the scheduler job that sends the         *)
(* notifications of the Change Center, and the backup schedules.  They share *)
(* no state: "focus" is the one that runs, and the others stay as they are   *)
(* in the beginning.                                                         *)
EXTENDS LogFollow, ChangeCenterView, MaintenancePanel, CertificatePanel, ChangeDeliveries,
        BackupSchedule, ClusterPage

CONSTANTS d1, d2

VARIABLE focus

otherVars    == <<vars, backupVars>>
endpointVars == <<focus, logVars, centerVars, maintenanceVars, panelVars, clusterPageVars, otherVars>>

EndpointInit ==
    /\ focus \in {"log", "center", "maintenance", "certificates", "clusters", "deliveries", "backup"}
    /\ LogInit /\ CenterInit /\ MaintenanceInit /\ PanelInit /\ ClusterPageInit
    /\ Init /\ BackupInit
    /\ focus # "clusters" => running = {}

OnLog ==
    focus = "log" /\ UNCHANGED <<focus, centerVars, maintenanceVars, panelVars, clusterPageVars, otherVars>>
OnCenter ==
    focus = "center" /\ UNCHANGED <<focus, logVars, maintenanceVars, panelVars, clusterPageVars, otherVars>>
OnMaintenance ==
    focus = "maintenance" /\ UNCHANGED <<focus, logVars, centerVars, panelVars, clusterPageVars, otherVars>>
OnCertificates ==
    focus = "certificates"
    /\ UNCHANGED <<focus, logVars, centerVars, maintenanceVars, clusterPageVars, otherVars>>
OnClusters ==
    focus = "clusters" /\ UNCHANGED <<focus, logVars, centerVars, maintenanceVars, panelVars, otherVars>>
OnOther(part) ==
    focus = part /\ UNCHANGED <<focus, logVars, centerVars, maintenanceVars, panelVars, clusterPageVars>>
OnDeliveries == OnOther("deliveries") /\ UNCHANGED backupVars
OnBackup     == OnOther("backup") /\ UNCHANGED vars

EndpointNext ==
    \/ OnLog /\ LogNext
    \/ OnCenter /\ CenterNext
    \/ OnMaintenance /\ MaintenanceNext
    \/ OnCertificates /\ PanelNext
    \/ OnClusters /\ ClusterPageNext
    \/ OnDeliveries /\ Next
    \/ OnBackup /\ BackupNext

\* The fairness of each part, while it is the one that runs.
EndpointFairness ==
    /\ WF_logVars(focus = "log" /\ TimerFires)
    /\ WF_logVars(focus = "log" /\ \E r \in requests : ServeLog(r))
    /\ WF_logVars(focus = "log" /\ \E r \in requests : AnswerArrives(r))
    /\ WF_centerVars(focus = "center" /\ IntervalFires)
    /\ WF_centerVars(focus = "center" /\ ServeLoad)
    /\ WF_centerVars(focus = "center" /\ LoadArrives)
    /\ \A c \in Changes : WF_centerVars(focus = "center" /\ OperationEnds(c))
    /\ WF_centerVars(focus = "center" /\ \E p \in posts : PostAccepted(p) \/ PostDone(p) \/ PostFails(p))
    /\ WF_maintenanceVars(focus = "maintenance" /\ TimerFires_)
    /\ WF_maintenanceVars(focus = "maintenance" /\ ServeList)
    /\ WF_maintenanceVars(focus = "maintenance" /\ ListArrives)
    /\ WF_maintenanceVars(focus = "maintenance" /\ (RequestAnswered \/ RequestFails))
    /\ WF_panelVars(focus = "certificates" /\ ServeList_)
    /\ WF_panelVars(focus = "certificates" /\ ListShown)
    /\ WF_panelVars(focus = "certificates" /\ MonitorTimer)
    /\ WF_panelVars(focus = "certificates" /\ MonitorAnswered)
    /\ WF_panelVars(focus = "certificates" /\ \E op \in operations : OperationDone(op))
    /\ WF_clusterPageVars(focus = "clusters" /\ ClustersArrive)
    /\ WF_clusterPageVars(focus = "clusters" /\ ServeHistory)
    /\ WF_clusterPageVars(focus = "clusters" /\ HistoryArrives)
    /\ WF_clusterPageVars(focus = "clusters" /\ StatusArrives)
    /\ WF_clusterPageVars(focus = "clusters" /\ \E k \in PageClusters : TaskEnds(k))
    /\ WF_clusterPageVars(focus = "clusters" /\ FollowAnswered)
    /\ WF_vars(focus = "deliveries" /\ ClaimDue)
    /\ WF_vars(focus = "deliveries" /\ Persist)
    /\ \A d \in Deliveries :
          /\ WF_vars(focus = "deliveries" /\ Expire(d))
          /\ WF_vars(focus = "deliveries" /\ Send(d))
    /\ WF_backupVars(focus = "backup" /\ Dispatch)
    /\ WF_backupVars(focus = "backup" /\ RetryTimeComes)
    /\ WF_backupVars(focus = "backup" /\ \E t \in BackupTasks : ~Held(t) /\ LoseLease(t))
    /\ \A w \in BackupWorkers : WF_backupVars(focus = "backup" /\ WorkerSteps(w))

EndpointSpec == EndpointInit /\ [][EndpointNext]_endpointVars /\ EndpointFairness

\* The types of all parts.
EndpointTypeOK ==
    LogTypeOK /\ CenterTypeOK /\ MaintenanceTypeOK /\ PanelTypeOK /\ ClusterPageTypeOK
    /\ TypeOK /\ BackupTypeOK

=============================================================================
