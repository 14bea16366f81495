----------------------------- MODULE MCManaged -----------------------------
(* Small instances of the parts that work on the servers and hear from them:  *)
(* an address list and a certificate on several of them, and the events of    *)
(* their monitoring.  They share no state: "focus" is the one that runs, and  *)
(* the others stay as they are in the beginning.                              *)
EXTENDS HaproxyLists, CertificateDeployment, ServiceEvents, TLC

MCShapes ==
    {[kind |-> "status", day |-> 0, changed |-> TRUE, keep |-> TRUE, notify |-> TRUE],
     [kind |-> "scan", day |-> 0, changed |-> TRUE, keep |-> FALSE, notify |-> TRUE]}

\* The processes that take events are interchangeable, and so are the updates
\* of a certificate.
ManagedSymmetry == Permutations(Processes) \cup Permutations(Ops)

VARIABLE focus

managedVars == <<focus, listVars, certVars, eventVars>>

ManagedInit ==
    /\ focus \in {"list", "certificate", "events"}
    /\ ListInit /\ CertInit /\ EventInit
    /\ focus # "list" => catalog = Absent

ManagedNext ==
    \/ focus = "list" /\ ListNext /\ UNCHANGED <<focus, certVars, eventVars>>
    \/ focus = "certificate" /\ CertNext /\ UNCHANGED <<focus, listVars, eventVars>>
    \/ focus = "events" /\ EventNext /\ UNCHANGED <<focus, listVars, certVars>>

ManagedSpec == ManagedInit /\ [][ManagedNext]_managedVars

\* The types of the part that runs; the others are unchanged.
ManagedTypeOK ==
    CASE focus = "list"        -> ListTypeOK
      [] focus = "certificate" -> CertTypeOK
      [] focus = "events"      -> EventTypeOK

=============================================================================
