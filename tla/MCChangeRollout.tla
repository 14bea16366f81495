-------------------------- MODULE MCChangeRollout --------------------------
(* Small instances of ChangeRollout: up to three servers, the last one is    *)
(* the master the change was made for, the others are its slaves.            *)
EXTENDS ChangeRollout

\* All in position order, or the slave before the master as a canary.
MCPlans == {[canary |-> {}, excluded |-> {}], [canary |-> {N - 1}, excluded |-> {}]}

\* That slave is unreachable when the change is created.
MCExcludedPlans == {[canary |-> {}, excluded |-> {N - 1}]}

=============================================================================
