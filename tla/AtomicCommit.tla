---------------------------- MODULE AtomicCommit ----------------------------
(***************************************************************************)
(* What the update of a certificate promises: one decision for all the     *)
(* servers, taken once and in favour only when every server is ready, and  *)
(* an end that is reported only when every server has followed it.         *)
(***************************************************************************)
CONSTANTS Updates, Members

VARIABLES
  decision,  \* of each update: "open", "commit" or "rollback"
  part,      \* of each update on each member: "untouched", "touched", "ready",
             \* "committed" or "restored"
  outcome    \* of each update: "none", "completed" or "failed"

commitVars == <<decision, part, outcome>>

CommitInit ==
  /\ decision = [u \in Updates |-> "open"]
  /\ part = [u \in Updates |-> [m \in Members |-> "untouched"]]
  /\ outcome = [u \in Updates |-> "none"]

Turn(u, m, from, to) ==
  /\ part[u][m] = from /\ part' = [part EXCEPT ![u][m] = to]
  /\ UNCHANGED <<decision, outcome>>

\* Members are touched and become ready only while nothing is decided ...
Touch(u, m)   == decision[u] = "open" /\ Turn(u, m, "untouched", "touched")
Prepare(u, m) == decision[u] = "open" /\ Turn(u, m, "touched", "ready")

\* ... the commit needs all of them, the rollback can be decided at any time ...
Commit(u) ==
  /\ decision[u] = "open" /\ \A m \in Members : part[u][m] = "ready"
  /\ decision' = [decision EXCEPT ![u] = "commit"]
  /\ UNCHANGED <<part, outcome>>

Rollback(u) ==
  /\ decision[u] = "open"
  /\ decision' = [decision EXCEPT ![u] = "rollback"]
  /\ part' = [part EXCEPT ![u] = [m \in Members |-> IF @[m] = "ready" THEN "touched" ELSE @[m]]]
  /\ UNCHANGED outcome

\* ... and every member follows the decision before the end is reported.
Follow(u, m) ==
  \/ decision[u] = "commit" /\ Turn(u, m, "ready", "committed")
  \/ decision[u] = "rollback" /\ Turn(u, m, "touched", "restored")

Report(u) ==
  /\ outcome[u] = "none"
  /\ \/ /\ decision[u] = "commit" /\ \A m \in Members : part[u][m] = "committed"
        /\ outcome' = [outcome EXCEPT ![u] = "completed"]
     \/ /\ decision[u] = "rollback" /\ \A m \in Members : part[u][m] \in {"untouched", "restored"}
        /\ outcome' = [outcome EXCEPT ![u] = "failed"]
  /\ UNCHANGED <<decision, part>>

\* Each kind of step first says what it changes, so that the many steps of an update
\* that change nothing here are told apart at once.
CommitNext ==
  \E u \in Updates :
    \/ decision'[u] # decision[u] /\ (Commit(u) \/ Rollback(u))
    \/ outcome'[u] # outcome[u] /\ Report(u)
    \/ part'[u] # part[u] /\ \E m \in Members : Touch(u, m) \/ Prepare(u, m) \/ Follow(u, m)

CommitSpec == CommitInit /\ [][CommitNext]_commitVars
=============================================================================
