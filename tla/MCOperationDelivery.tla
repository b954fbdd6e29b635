------------------------ MODULE MCOperationDelivery ------------------------
(***************************************************************************)
(* Instances of OperationDelivery: one operation of each kind, the task    *)
(* they are bound to, the project control row, the result lane and two     *)
(* other jobs.  A configuration picks the operations and the jobs.         *)
(***************************************************************************)
EXTENDS OperationDelivery

CONSTANTS notify, finalize, script, verify, integrate, task, control, lane, j1, j2

MCKind == [op \in Ops |-> CASE op = notify -> "notification"
                            [] op = finalize -> "finalization"
                            [] op = script -> "routine"
                            [] op = verify -> "verification"
                            [] op = integrate -> "integration"]

MCScopeOf == [op \in Ops |-> IF op = script THEN control ELSE task]
=============================================================================
