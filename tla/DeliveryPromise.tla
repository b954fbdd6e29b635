--------------------------- MODULE DeliveryPromise ---------------------------
(***************************************************************************)
(* What the durable delivery of an operation promises to its caller: its   *)
(* external effect happens at most once, it is reported as confirmed only  *)
(* after it happened, and a confirmation is never taken back.  A failure   *)
(* says nothing about an earlier effect; only the operations in Reopenable *)
(* may leave it again, or have their effect after it.                      *)
(***************************************************************************)
CONSTANTS Ops, Reopenable

VARIABLES effects, verdict

vars == <<effects, verdict>>

Init ==
    /\ effects = [op \in Ops |-> 0]
    /\ verdict = [op \in Ops |-> "open"]

Perform(op) ==
    /\ effects[op] = 0
    /\ verdict[op] = "open" \/ op \in Reopenable
    /\ effects' = [effects EXCEPT ![op] = 1]
    /\ UNCHANGED verdict

Confirm(op) ==
    /\ effects[op] = 1
    /\ verdict[op] = "open"
    /\ verdict' = [verdict EXCEPT ![op] = "confirmed"]
    /\ UNCHANGED effects

Fail(op) ==
    /\ verdict[op] = "open"
    /\ verdict' = [verdict EXCEPT ![op] = "failed"]
    /\ UNCHANGED effects

Reopen(op) ==
    /\ op \in Reopenable
    /\ verdict[op] = "failed"
    /\ verdict' = [verdict EXCEPT ![op] = "open"]
    /\ UNCHANGED effects

Next == \E op \in Ops : Perform(op) \/ Confirm(op) \/ Fail(op) \/ Reopen(op)

Spec == Init /\ [][Next]_vars
=============================================================================
