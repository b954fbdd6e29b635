----------------------------- MODULE MCExecutor -----------------------------
(***************************************************************************)
(* Small executors for TLC.  c1 and t1 use one terminal from two lanes, c1 *)
(* and c2 one machine, c2 is reserved control work, and the advisory a1    *)
(* repeats the operation of c2.                                            *)
(***************************************************************************)
EXTENDS Executor

CONSTANTS c1, c2, t1, a1, w1, w2, w3

MCWorkerLane ==
    [w \in Workers |-> IF w = w3 THEN "transfer" ELSE "control"]

MCClass ==
    [j \in Jobs |-> CASE j \in {c1, c2} -> "control"
                      [] j = t1 -> "transfer"
                      [] OTHER -> "advisory"]

MCKey == [j \in Jobs |-> IF j = a1 THEN c2 ELSE j]

MCProject == [j \in Jobs |-> IF j \in {c1, t1} THEN "p" ELSE "q"]

MCMachine == [j \in Jobs |-> IF j \in {c1, c2} THEN "m" ELSE j]

MCTerminal == [j \in Jobs |-> IF j \in {c1, t1} THEN "pane" ELSE None]

MCReserved == Jobs \cap {c2}

MCOutstanding == [l \in Lanes |-> IF l = "control" THEN 3 ELSE 2]

\* For the worker kept for reserved work: a machine for each job, no reserved
\* job, and a Transfer lane that one request fills.
MCMachineOwn == [j \in Jobs |-> j]

MCOutstandingSmall == [l \in Lanes |-> IF l = "control" THEN 2 ELSE 1]

=============================================================================
