---------------------------- MODULE MCRequests ----------------------------
(* Small instances of the two protocols that carry what a user has asked for *)
(* to the process that does it, and have to get it there in the end: the     *)
(* queue of the operations, and the assignments of the monitoring workers.   *)
(* They share no state: "channel" is the one that runs, and the other stays  *)
(* as it is in the beginning.                                                *)
EXTENDS MCOperationQueue, ServiceAssignments

VARIABLE channel

requestVars == <<channel, vars, assignVars>>

RequestInit == channel \in {"queue", "assignment"} /\ Init /\ AssignInit

RequestNext ==
    \/ channel = "queue" /\ Next /\ UNCHANGED <<channel, assignVars>>
    \/ channel = "assignment" /\ AssignNext /\ UNCHANGED <<channel, vars>>

\* The fairness of each part, while it is the one that runs.
RequestFairness ==
    /\ WF_vars(channel = "queue" /\ Publisher)
    /\ \A w \in Workers :
          WF_vars(channel = "queue" /\ Delivery(w)) /\ WF_vars(channel = "queue" /\ Execute(w))
    /\ \A t \in Tasks : WF_vars(channel = "queue" /\ LeaseExpires(t) /\ outages' = outages)
    /\ \A r \in Forms : WF_assignVars(channel = "assignment" /\ QueueForm(r))
    /\ WF_assignVars(channel = "assignment" /\ ReadAssignments)
    /\ WF_assignVars(channel = "assignment" /\ ReadServer)
    /\ WF_assignVars(channel = "assignment" /\ QueueDrift)
    /\ WF_assignVars(channel = "assignment" /\ ListCommands)
    /\ WF_assignVars(channel = "assignment" /\ PublishCommand)
    /\ WF_assignVars(channel = "assignment" /\ ReceiveCommand)

RequestSpec == RequestInit /\ [][RequestNext]_requestVars /\ RequestFairness

=============================================================================
