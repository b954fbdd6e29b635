----------------------------- MODULE DeliveryRow -----------------------------
(***************************************************************************)
(* The row of table operation_delivery and the functions of                *)
(* store/delivery.rs that compute its next value.  Every module in which   *)
(* a durable operation is delivered uses these operators, so that the      *)
(* fencing arithmetic is written once.                                     *)
(*                                                                         *)
(* Time is abstracted to one bit.  `ripe' says that the clock has passed   *)
(* the deadline that the row waits for: next_due_ms while it is pending,   *)
(* lease_until_ms while it is claimed.  The owner string is left out: all  *)
(* claims of one lane carry the same owner, so only the revision and the   *)
(* epoch tell two claims apart.                                            *)
(***************************************************************************)
EXTENDS Naturals

CONSTANT MaxAttempts   \* the retry budget; 32 in the code

ASSUME MaxAttemptsAssumption == MaxAttempts \in Nat \ {0}

DeliveryState == {"pending", "claimed", "ambiguous", "confirmed", "permanent_failure"}

Outcome == {"confirmed", "retryable", "ambiguous", "permanent_failure"}

Row == [state : DeliveryState, revision : Nat \ {0}, epoch : Nat, attempts : Nat, ripe : BOOLEAN]

\* The row that trigger operation_delivery_insert adds with its operation.
NewRow == [state |-> "pending", revision |-> 1, epoch |-> 0, attempts |-> 0, ripe |-> FALSE]

\* What claim_operation demands of the row; `once' for the kinds whose claim
\* history forbids a second claim (launch, worker brief, routine).
Claimable(row, expected, once) ==
    /\ row.state = "pending"
    /\ row.revision = expected
    /\ row.ripe
    /\ row.attempts < MaxAttempts
    /\ once => row.attempts = 0 /\ row.epoch = 0

ClaimRow(row) ==
    [row EXCEPT !.state = "claimed", !.revision = @ + 1, !.epoch = @ + 1,
                !.attempts = @ + 1, !.ripe = FALSE]

\* The comparison of validate_claim and finish_operation, without the clock.
Holds(row, claim) ==
    /\ row.state = "claimed"
    /\ row.revision = claim.revision
    /\ row.epoch = claim.epoch

\* Mutants: the retry budget is not applied; the outcome is stored as it came.
OutcomeStateUnbounded(row, outcome) ==
    IF outcome = "retryable" THEN "pending" ELSE outcome

OutcomeStateRaw(row, outcome) == outcome

\* The state a row takes with an outcome: a retry beyond the budget fails.
OutcomeState(row, outcome) ==
    CASE outcome = "retryable" /\ row.attempts >= MaxAttempts -> "permanent_failure"
      [] outcome = "retryable" /\ row.attempts < MaxAttempts  -> "pending"
      [] OTHER -> outcome

UpdateOutcome(row, outcome) ==
    [row EXCEPT !.state = OutcomeState(row, outcome), !.revision = @ + 1, !.ripe = FALSE]

\* Mutants: a lapsed claim is retried at once; a lapsed claim is renewed.
ExpireRowRetries(row) ==
    UpdateOutcome([row EXCEPT !.epoch = @ + 1], "retryable")

ExpireRowRenewed(row) == [row EXCEPT !.ripe = FALSE]

\* One row of expire_claims: fence the owner out, then record ambiguity.
ExpireRow(row) ==
    UpdateOutcome([row EXCEPT !.epoch = @ + 1], "ambiguous")

\* reset_result_job: the same operation returns to pending, due at once.
ResetRow(row) ==
    [row EXCEPT !.state = "pending", !.revision = @ + 1, !.ripe = TRUE]
=============================================================================
