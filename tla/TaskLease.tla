------------------------------ MODULE TaskLease ------------------------------
(***************************************************************************)
(* What the operations queue promises for one installation that suffers no *)
(* outage longer than a lease: a task is queued, executed by one worker at *)
(* a time, perhaps abandoned and queued again, and settled exactly once.   *)
(***************************************************************************)
CONSTANTS Tasks, Workers, NoWorker

VARIABLES
  phase,   \* "new", "queued", "running", "settled" or "gone"
  owner    \* the worker executing each task, or NoWorker

vars == <<phase, owner>>

Init ==
  /\ phase = [t \in Tasks |-> "new"]
  /\ owner = [t \in Tasks |-> NoWorker]

Move(t, from, to, w) ==
  /\ phase[t] = from
  /\ phase' = [phase EXCEPT ![t] = to]
  /\ owner' = [owner EXCEPT ![t] = w]

Submit(t)   == Move(t, "new", "queued", NoWorker)
Start(t, w) == Move(t, "queued", "running", w)
Forget(t)   == Move(t, "settled", "gone", NoWorker)

\* Only the executing worker settles a task ...
Settle(t) == owner[t] # NoWorker /\ Move(t, "running", "settled", NoWorker)

\* ... or dies and leaves it behind, and only such a task is queued again.
Abandon(t) == owner[t] # NoWorker /\ Move(t, "running", "running", NoWorker)

\* Several abandoned tasks are queued again by one statement.
Requeue ==
  \E S \in SUBSET {t \in Tasks : phase[t] = "running" /\ owner[t] = NoWorker} :
    /\ phase' = [t \in Tasks |-> IF t \in S THEN "queued" ELSE phase[t]]
    /\ UNCHANGED owner

Next ==
  \/ Requeue
  \/ \E t \in Tasks :
       \/ Submit(t) \/ Settle(t) \/ Abandon(t) \/ Forget(t)
       \/ \E w \in Workers : Start(t, w)

Spec == Init /\ [][Next]_vars
=============================================================================
