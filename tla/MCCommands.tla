---------------------------- MODULE MCCommands ----------------------------
(* Small instances of what the workers of the Operations queue do: the       *)
(* delivery of the operations themselves, the planned maintenance of a       *)
(* Keepalived cluster, and the changes of a Pacemaker cluster.  They share   *)
(* no state: "focus" is the one that runs, and the others stay as they are   *)
(* in the beginning.                                                         *)
EXTENDS MCOperationQueue, HaMaintenance, PacemakerChanges

\* Workers, nodes of a cluster and the rows of its operations are
\* interchangeable.  Only one part runs, so the same two values stand for the
\* members of these sets in each of them, and one permutation serves all; the
\* rows are permuted apart from the workers.
CommandsSymmetry == Permutations(ClusterWorkers) \cup Permutations(Operations)

VARIABLE focus

commandsVars == <<focus, vars, haVars, pacemakerVars>>

CommandsInit ==
    /\ focus \in {"queue", "maintenance", "cluster"}
    /\ Init /\ HaInit /\ PacemakerInit

CommandsNext ==
    \/ focus = "queue" /\ Next /\ UNCHANGED <<focus, haVars, pacemakerVars>>
    \/ focus = "maintenance" /\ HaNext /\ UNCHANGED <<focus, vars, pacemakerVars>>
    \/ focus = "cluster" /\ PacemakerNext /\ UNCHANGED <<focus, vars, haVars>>

CommandsSpec == CommandsInit /\ [][CommandsNext]_commandsVars

\* The types of the part that runs; the others are unchanged.
CommandsTypeOK ==
    CASE focus = "queue"       -> TypeOK
      [] focus = "maintenance" -> HaTypeOK
      [] focus = "cluster"     -> PacemakerTypeOK

=============================================================================
