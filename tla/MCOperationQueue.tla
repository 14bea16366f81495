-------------------------- MODULE MCOperationQueue --------------------------
(* Values for the constants of OperationQueue: every change command of a   *)
(* model works on the same change, which is where reservations contend.    *)
EXTENDS OperationQueue, TLC

CONSTANT TheChange

MCChangeOf == [t \in ChangeTasks |-> TheChange]
MCChanges  == {TheChange}
=============================================================================
