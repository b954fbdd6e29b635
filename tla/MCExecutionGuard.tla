-------------------------- MODULE MCExecutionGuard --------------------------
(* Instances of ExecutionGuard for TLC: two threads of the ticker and one    *)
(* CLI command.                                                              *)
EXTENDS ExecutionGuard

CONSTANTS t1, t2, cli, ticker, shell, p1, p2, r1, r2

MCProcessOf == [t \in Threads |-> IF t = cli THEN shell ELSE ticker]
=============================================================================
