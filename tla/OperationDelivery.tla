-------------------------- MODULE OperationDelivery --------------------------
(***************************************************************************)
(* Durable delivery of operations: store/delivery.rs together with the     *)
(* services that call it, operations/dispatch.rs (notification and         *)
(* finalization), routines.rs (routine), canonical_verification_jobs.rs    *)
(* (verification) and canonical_integration_jobs.rs with integration/mod.rs *)
(* (integration).                                                          *)
(*                                                                         *)
(* A job is a thread of the ticker or a CLI command.  It selects an        *)
(* operation, takes the exclusive ownership of the project (`holder'),     *)
(* claims, rechecks, makes the external effect and records the outcome,    *)
(* and may stop between any two of these steps.  A verification or an      *)
(* integration, the two kinds of result job, gives the ownership up while  *)
(* its isolated check runs.  The lane that delivers them also observes the *)
(* ambiguous ones, and the observer of an integration may publish it.      *)
(* Lease expiry and the operator act between the steps of the jobs; each   *)
(* takes the ownership for its own transaction.                            *)
(***************************************************************************)
EXTENDS DeliveryRow

CONSTANTS
    Ops,          \* operations
    Kind,         \* [Ops -> Kinds]
    Scopes,       \* tasks, and the project control row
    ScopeOf,      \* [Ops -> Scopes]: the row whose revision fences the operation
    Jobs,         \* threads that deliver operations
    Lane,         \* the one job that delivers and observes results
    None,         \* no job, no operation
    MaxRevision,  \* bound on the revision that other writers give a scope
    MaxReset      \* bound on the delivery revision an operator resets

Kinds == {"notification", "finalization", "routine", "verification", "integration"}

ResultKinds == {"verification", "integration"}

\* The state of the integration under the key of its job: none yet; begun, its
\* candidate not checked (effect_pending, candidate_prepared); checked
\* (validating); integrated; or closed (blocked, discarded, reconciliation_required).
Ledger == {"none", "begun", "checked", "integrated", "closed"}

ASSUME ConstantsAssumption ==
    /\ Kind \in [Ops -> Kinds]
    /\ ScopeOf \in [Ops -> Scopes]
    /\ Lane \in Jobs
    /\ None \notin Jobs
    /\ None \notin Ops
    /\ MaxRevision \in Nat
    /\ MaxReset \in Nat

VARIABLES
    rev,      \* revision of every scope
    bound,    \* expected_revision of every operation, 0 before it is enqueued
    row,      \* table operation_delivery
    retired,  \* operations with a job_retired event
    holder,   \* the job that owns the project, or None
    job,      \* program counter and locals of every job
    ledger,   \* table integration_operations, by the job that began them
    effects   \* how often the external effect of an operation was made

vars == <<rev, bound, row, retired, holder, job, ledger, effects>>

NoClaim == [revision |-> 0, epoch |-> 0]

Idle == [pc |-> "idle", op |-> None, expected |-> 0, claim |-> NoClaim,
         late |-> FALSE, outcome |-> "ambiguous"]

PC == {"idle", "selected", "claimed", "delivering", "checking", "widened", "finishing",
       "observing", "observed"}

\* The locals of a job: the delivery revision it selected, its claim, whether
\* every clock reading still to come is past the lease, and its outcome.
Job == [pc : PC, op : Ops \cup {None}, expected : Nat,
        claim : [revision : Nat, epoch : Nat], late : BOOLEAN, outcome : Outcome]

Init ==
    /\ rev = [s \in Scopes |-> 1]
    /\ bound = [op \in Ops |-> 0]
    /\ row = [op \in Ops |-> NewRow]
    /\ retired = {}
    /\ holder = None
    /\ job = [j \in Jobs |-> Idle]
    /\ ledger = [op \in Ops |-> "none"]
    /\ effects = [op \in Ops |-> 0]

-----------------------------------------------------------------------------
\* Guards and locals shared by the actions

Enqueued(op) == bound[op] # 0

\* binding_current: nobody changed the row the operation was enqueued for.
BindingCurrent(op) == rev[ScopeOf[op]] = bound[op]

\* Any effect of the project excludes this one (ProjectGuard, runtime_mutation).
\* A command that leases the root as well waits for more and does the same.
ProjectFree == holder = None

\* has_run and has_integration: the store knows the result under the job's key.
Recorded(op) ==
    IF Kind[op] = "integration" THEN ledger[op] = "integrated" ELSE effects[op] # 0

\* The clock is read after the previous step of the job.
LeaseOver(j) == Holds(row[job[j].op], job[j].claim) /\ row[job[j].op].ripe

Goto(j, pc) == job' = [job EXCEPT ![j].pc = pc, ![j].late = LeaseOver(j)]

\* Mutant: the claim is compared, the task it was made for is not.
ClaimStandsUnbound(j) ==
    /\ Holds(row[job[j].op], job[j].claim)
    /\ ~job[j].late

\* validate_claim, and the first half of finish_operation.
ClaimStands(j) ==
    /\ Holds(row[job[j].op], job[j].claim)
    /\ ~job[j].late
    /\ BindingCurrent(job[j].op)

\* The adapter returns: `made' says whether the effect was made in this call.
Delivered(j, made, outcome) ==
    /\ effects' = IF made THEN [effects EXCEPT ![job[j].op] = @ + 1] ELSE effects
    /\ job' = [job EXCEPT ![j].pc = "finishing", ![j].late = LeaseOver(j),
                          ![j].outcome = outcome]

Return(j) == job' = [job EXCEPT ![j] = Idle]

\* finalization::apply_receipt moves the task on unless it is cancelled.
ApplyReceipt(op, outcome) ==
    IF Kind[op] = "finalization" /\ outcome = "confirmed"
    THEN \E cancelled \in BOOLEAN :
            rev' = IF cancelled THEN rev ELSE [rev EXCEPT ![ScopeOf[op]] = @ + 1]
    ELSE UNCHANGED rev

-----------------------------------------------------------------------------
\* Other writers and the clock

\* A committed batch changes a task, or a lifecycle change the control row.
ChangeScope(s) ==
    /\ rev[s] < MaxRevision
    /\ rev' = [rev EXCEPT ![s] = @ + 1]
    /\ UNCHANGED <<bound, row, retired, holder, job, ledger, effects>>

\* An intent is inserted for the revision its writer sees.
Enqueue(op) ==
    /\ ~Enqueued(op)
    /\ bound' = [bound EXCEPT ![op] = rev[ScopeOf[op]]]
    /\ row' = [row EXCEPT ![op] = NewRow]
    /\ UNCHANGED <<rev, retired, holder, job, ledger, effects>>

\* The clock passes next_due_ms or lease_until_ms.
Tick(op) ==
    /\ Enqueued(op)
    /\ row[op].state \in {"pending", "claimed"}
    /\ ~row[op].ripe
    /\ row' = [row EXCEPT ![op].ripe = TRUE]
    /\ UNCHANGED <<rev, bound, retired, holder, job, ledger, effects>>

-----------------------------------------------------------------------------
\* One delivery

\* The caller reads a pending row and passes its revision on.
Select(j, op) ==
    /\ job[j].pc = "idle"
    /\ Enqueued(op)
    /\ row[op].state = "pending"
    /\ j = Lane <=> Kind[op] \in ResultKinds
    /\ job' = [job EXCEPT ![j] = [Idle EXCEPT !.pc = "selected", !.op = op,
                                              !.expected = row[op].revision]]
    /\ UNCHANGED <<rev, bound, row, retired, holder, ledger, effects>>

\* prepare takes the ownership, then claim_operation commits the claim.
ClaimOperation(j) ==
    LET op == job[j].op
        claimed == ClaimRow(row[op])
    IN  /\ job[j].pc = "selected"
        /\ ProjectFree
        /\ Claimable(row[op], job[j].expected, Kind[op] = "routine")
        /\ BindingCurrent(op)
        /\ holder' = j
        /\ row' = [row EXCEPT ![op] = claimed]
        /\ job' = [job EXCEPT ![j].pc = "claimed",
                              ![j].claim = [revision |-> claimed.revision, epoch |-> claimed.epoch]]
        /\ UNCHANGED <<rev, bound, retired, ledger, effects>>

\* revalidate (or the cancellation of a result job) refuses the delivery.
Withdraw(j) ==
    /\ job[j].pc = "claimed"
    /\ Kind[job[j].op] # "routine"
    /\ Delivered(j, FALSE, "retryable")
    /\ UNCHANGED <<rev, bound, row, retired, holder, ledger>>

\* The last fence before the effect.
ValidateClaim(j) ==
    /\ job[j].pc = "claimed"
    /\ ClaimStands(j)
    /\ Goto(j, "delivering")
    /\ UNCHANGED <<rev, bound, row, retired, holder, ledger, effects>>

\* notification_show: an error of the call leaves its effect unknown.
ShowNotification(j) ==
    /\ job[j].pc = "delivering"
    /\ Kind[job[j].op] = "notification"
    /\ \/ Delivered(j, TRUE, "confirmed")
       \/ \E made \in BOOLEAN : Delivered(j, made, "ambiguous")
       \/ Delivered(j, FALSE, "retryable")
    /\ UNCHANGED <<rev, bound, row, retired, holder, ledger>>

\* The artifacts are captured unless a receipt of the intent exists.
CaptureFinalization(j) ==
    /\ job[j].pc = "delivering"
    /\ Kind[job[j].op] = "finalization"
    /\ LET fresh == effects[job[j].op] = 0
       IN  \/ Delivered(j, fresh, "confirmed")
           \/ \E made \in {FALSE, fresh} : Delivered(j, made, "ambiguous")
    /\ UNCHANGED <<rev, bound, row, retired, holder, ledger>>

\* The script runs; an error after its start leaves the cleanup unverified.
RunRoutine(j) ==
    /\ job[j].pc = "delivering"
    /\ Kind[job[j].op] = "routine"
    /\ \/ Delivered(j, TRUE, "confirmed")
       \/ \E made \in BOOLEAN, outcome \in {"permanent_failure", "ambiguous"} :
             Delivered(j, made, outcome)
    /\ UNCHANGED <<rev, bound, row, retired, holder, ledger>>

\* Mutant: the verifier does not look for the run of an earlier delivery.
RecordRunAgain(j) ==
    /\ job[j].pc \in {"delivering", "widened"}
    /\ Kind[job[j].op] = "verification"
    /\ \E made \in BOOLEAN, outcome \in Outcome :
          (outcome = "confirmed" => made) /\ Delivered(j, made, outcome)
    /\ UNCHANGED <<rev, bound, row, retired, holder, ledger>>

\* A run is recorded under the operation's key, or the recorded one is found,
\* or the verifier stops before it records anything.
RecordRun(j) ==
    /\ job[j].pc \in {"delivering", "widened"}
    /\ Kind[job[j].op] = "verification"
    /\ LET fresh == effects[job[j].op] = 0
       IN  \/ \E outcome \in {"confirmed", "ambiguous"} : Delivered(j, fresh, outcome)
           \/ /\ fresh
              /\ \E outcome \in Outcome \ {"confirmed"} : Delivered(j, FALSE, outcome)
    /\ UNCHANGED <<rev, bound, row, retired, holder, ledger>>

\* begin_integration: the integration exists under the operation's key.
BeginIntegration(j) ==
    /\ job[j].pc = "delivering"
    /\ Kind[job[j].op] = "integration"
    /\ ledger[job[j].op] = "none"
    /\ ledger' = [ledger EXCEPT ![job[j].op] = "begun"]
    /\ Goto(j, "delivering")
    /\ UNCHANGED <<rev, bound, row, retired, holder, effects>>

\* The isolated check starts: the project is given up, the root and the
\* scratch directory stay fenced.
Release(j) ==
    /\ job[j].pc = "delivering"
    /\ \/ Kind[job[j].op] = "verification" /\ effects[job[j].op] = 0
       \/ Kind[job[j].op] = "integration" /\ ledger[job[j].op] = "begun"
    /\ holder' = None
    /\ Goto(j, "checking")
    /\ UNCHANGED <<rev, bound, row, retired, ledger, effects>>

\* The check ended and the project is free: the claim is fenced again, and the
\* candidate of an integration must be the one that was checked (unchanged).
Reacquire(j) ==
    /\ job[j].pc = "checking"
    /\ ProjectFree
    /\ holder' = j
    /\ \/ /\ ClaimStands(j)
          /\ Kind[job[j].op] = "integration" => ledger[job[j].op] = "begun"
          /\ Goto(j, "widened")
          /\ UNCHANGED effects
       \/ Delivered(j, FALSE, "retryable")
    /\ UNCHANGED <<rev, bound, row, retired, ledger>>

\* mark_checks_passed: the candidate may be published from now on.
PassChecks(j) ==
    /\ job[j].pc = "widened"
    /\ Kind[job[j].op] = "integration"
    /\ ledger[job[j].op] = "begun"
    /\ BindingCurrent(job[j].op)
    /\ ledger' = [ledger EXCEPT ![job[j].op] = "checked"]
    /\ Goto(j, "widened")
    /\ UNCHANGED <<rev, bound, row, retired, holder, effects>>

-----------------------------------------------------------------------------
\* resume and settle: a delivery, the observer of the lane, and the operator's
\* reconcile_project read the ref and move the integration on.

\* The compare-and-swap of the ref under a fresh lease of the candidate.  It
\* succeeds once: nobody moves the ref back to the base of the candidate.
PublishRef(op) ==
    /\ \/ ProjectFree
       \/ job[Lane].op = op /\ job[Lane].pc \in {"delivering", "widened", "observing"}
    /\ ledger[op] = "checked"
    /\ effects[op] = 0
    /\ BindingCurrent(op)
    /\ effects' = [effects EXCEPT ![op] = @ + 1]
    /\ UNCHANGED <<rev, bound, row, retired, holder, job, ledger>>

\* Mutant: the candidate is taken for published without reading the ref back.
ResumedUnread(op) ==
    {ledger[op]} \cup (IF ledger[op] \in {"begun", "checked"} THEN {"closed"} ELSE {})
                 \cup (IF ledger[op] = "checked" THEN {"integrated"} ELSE {})

\* How one pass may leave the integration: as it was; closed by a conflict, a
\* failed check, a moved ref or a missing output, also after its publication;
\* integrated, once the ref reads as the candidate.  A settled one stays.
Resumed(op) ==
    {ledger[op]} \cup (IF ledger[op] \in {"begun", "checked"} THEN {"closed"} ELSE {})
                 \cup (IF ledger[op] = "checked" /\ effects[op] # 0 THEN {"integrated"} ELSE {})

\* classify and outcome_of, for a pass at `pc' that left the integration as l.
\* Nothing begun is a refusal (checked out, target moved, too many policies).
\* An error of a delivery leaves the outcome open; an observer returns it.
Answers(op, pc, l) ==
    (IF pc = "observing" THEN {} ELSE {"ambiguous"}) \cup
    CASE l = "integrated" -> {"confirmed"}
      [] l = "closed" -> {"permanent_failure"}
      [] l = "checked" -> IF effects[op] = 0 THEN {"retryable"} ELSE {}
      [] l = "begun" -> IF pc = "observing" THEN {"retryable"} ELSE {}
      [] l = "none" -> IF pc = "observing" THEN {"retryable"} ELSE {"retryable", "permanent_failure"}

\* The pass of a job of the lane ends with an outcome.
SettleIntegration(j) ==
    LET op == job[j].op
        pc == job[j].pc
    IN  /\ pc \in {"delivering", "widened", "observing"}
        /\ Kind[op] = "integration"
        /\ \E l \in Resumed(op) : \E outcome \in Answers(op, pc, l) :
              /\ ledger' = [ledger EXCEPT ![op] = l]
              /\ job' = [job EXCEPT ![j].pc = IF pc = "observing" THEN "observed" ELSE "finishing",
                                    ![j].late = LeaseOver(j), ![j].outcome = outcome]
        /\ UNCHANGED <<rev, bound, row, retired, holder, effects>>

\* The operator reconciles by key; the row of the delivery is not touched.
ReconcileProject(op) ==
    /\ ProjectFree
    /\ \E l \in Resumed(op) \ {ledger[op]} : ledger' = [ledger EXCEPT ![op] = l]
    /\ UNCHANGED <<rev, bound, row, retired, holder, job, effects>>

-----------------------------------------------------------------------------
\* The outcome

\* finish_operation; complete_routine does not ask for the binding.
FinishOperation(j) ==
    LET op == job[j].op
        outcome == job[j].outcome
    IN  /\ job[j].pc = "finishing"
        /\ IF Kind[op] = "routine"
           THEN Holds(row[op], job[j].claim) /\ ~job[j].late
           ELSE ClaimStands(j)
        /\ Kind[op] \in ResultKinds /\ outcome = "confirmed" => Recorded(op)
        /\ ApplyReceipt(op, outcome)
        /\ row' = [row EXCEPT ![op] = UpdateOutcome(@, outcome)]
        /\ Return(j)
        /\ holder' = None
        /\ UNCHANGED <<bound, retired, ledger, effects>>

\* An error return at any step, or the death of the process: the guard is
\* dropped and a claim that was taken stays behind (Unrecorded).
Abandon(j) ==
    /\ job[j].pc # "idle"
    /\ Return(j)
    /\ holder' = IF holder = j THEN None ELSE holder
    /\ UNCHANGED <<rev, bound, row, retired, ledger, effects>>

-----------------------------------------------------------------------------
\* Expiry, observation and the operator

\* Mutant: expiry does not wait for the job that owns the project.
ExpireClaimsUnguarded ==
    /\ \E op \in Ops : row[op].state = "claimed" /\ row[op].ripe
    /\ row' = [op \in Ops |-> IF row[op].state = "claimed" /\ row[op].ripe
                               THEN ExpireRow(row[op]) ELSE row[op]]
    /\ UNCHANGED <<rev, bound, retired, holder, job, ledger, effects>>

\* expire_claims: every lapsed claim in one transaction.
ExpireClaims ==
    LET Lapsed == {op \in Ops : row[op].state = "claimed" /\ row[op].ripe}
    IN  /\ ProjectFree
        /\ Lapsed # {}
        /\ row' = [op \in Ops |-> IF op \in Lapsed THEN ExpireRow(row[op]) ELSE row[op]]
        /\ UNCHANGED <<rev, bound, retired, holder, job, ledger, effects>>


\* The lane takes the project to observe an ambiguous job by its key.
ObserveResult(op) ==
    /\ Kind[op] \in ResultKinds
    /\ job[Lane].pc = "idle"
    /\ ProjectFree
    /\ row[op].state = "ambiguous"
    /\ holder' = Lane
    /\ job' = [job EXCEPT ![Lane] = [Idle EXCEPT !.pc = "observing", !.op = op,
                                                 !.expected = row[op].revision]]
    /\ UNCHANGED <<rev, bound, row, retired, ledger, effects>>

\* The run of a verification is looked up; without one the job may run again.
LookUpRun(j) ==
    /\ job[j].pc = "observing"
    /\ Kind[job[j].op] = "verification"
    /\ job' = [job EXCEPT ![j].pc = "observed",
                          ![j].outcome = IF Recorded(job[j].op) THEN "confirmed" ELSE "retryable"]
    /\ UNCHANGED <<rev, bound, row, retired, holder, ledger, effects>>

\* observe_operation: the outcome of the observer, without claim or binding.
ObserveOperation(j) ==
    LET op == job[j].op
        outcome == job[j].outcome
    IN  /\ job[j].pc = "observed"
        /\ row[op].state = "ambiguous"
        /\ row[op].revision = job[j].expected
        /\ outcome = "confirmed" => Recorded(op)
        /\ row' = [row EXCEPT ![op] = UpdateOutcome(@, outcome)]
        /\ Return(j)
        /\ holder' = None
        /\ UNCHANGED <<rev, bound, retired, ledger, effects>>

\* Mutant: the observer does not look for the receipt.
ObserveFinalizationAssumed(op) ==
    /\ Kind[op] = "finalization" /\ ProjectFree
    /\ row[op].state = "ambiguous" /\ BindingCurrent(op)
    /\ ApplyReceipt(op, "confirmed")
    /\ row' = [row EXCEPT ![op] = UpdateOutcome(@, "confirmed")]
    /\ UNCHANGED <<bound, retired, holder, job, ledger, effects>>

\* The ticker or the operator observes the receipt of an ambiguous finalization.
ObserveFinalization(op) ==
    /\ Kind[op] = "finalization"
    /\ ProjectFree
    /\ row[op].state = "ambiguous"
    /\ effects[op] # 0
    /\ BindingCurrent(op)
    /\ ApplyReceipt(op, "confirmed")
    /\ row' = [row EXCEPT ![op] = UpdateOutcome(@, "confirmed")]
    /\ UNCHANGED <<bound, retired, holder, job, ledger, effects>>

\* Mutant: claimed work is retired too.
RetireOperationClaimed(op) ==
    /\ Enqueued(op)
    /\ row[op].state \in {"pending", "claimed", "ambiguous"}
    /\ row' = [row EXCEPT ![op] = UpdateOutcome(@, "permanent_failure")]
    /\ UNCHANGED <<rev, bound, retired, holder, job, ledger, effects>>

\* The operator retires an intent without a claim.
RetireOperation(op) ==
    /\ Enqueued(op)
    /\ ProjectFree
    /\ row[op].state \in {"pending", "ambiguous"}
    /\ row' = [row EXCEPT ![op] = UpdateOutcome(@, "permanent_failure")]
    /\ UNCHANGED <<rev, bound, retired, holder, job, ledger, effects>>

\* retire_stale: a pending result job whose task moved on is replaced.
RetireStale(op) ==
    /\ Enqueued(op)
    /\ Kind[op] \in ResultKinds
    /\ ProjectFree
    /\ row[op].state = "pending"
    /\ ~BindingCurrent(op)
    /\ row' = [row EXCEPT ![op] = UpdateOutcome(@, "permanent_failure")]
    /\ retired' = retired \cup {op}
    /\ UNCHANGED <<rev, bound, holder, job, ledger, effects>>

\* reset_result_job: the operator retries a failed job under the same key.
ResetResultJob(op) ==
    /\ Kind[op] \in ResultKinds
    /\ ProjectFree
    /\ row[op].state = "permanent_failure"
    /\ op \notin retired
    /\ row[op].attempts < MaxAttempts
    /\ row[op].revision < MaxReset
    /\ row' = [row EXCEPT ![op] = ResetRow(@)]
    /\ UNCHANGED <<rev, bound, retired, holder, job, ledger, effects>>

-----------------------------------------------------------------------------
Proceed(j) ==
    \/ ClaimOperation(j) \/ Withdraw(j) \/ ValidateClaim(j)
    \/ ShowNotification(j) \/ CaptureFinalization(j) \/ RunRoutine(j)
    \/ RecordRun(j) \/ BeginIntegration(j)
    \/ Release(j) \/ Reacquire(j) \/ PassChecks(j)
    \/ SettleIntegration(j) \/ LookUpRun(j) \/ ObserveOperation(j)
    \/ FinishOperation(j)

JobStep(j) == Proceed(j) \/ Abandon(j)

Next ==
    \/ \E s \in Scopes : ChangeScope(s)
    \/ \E op \in Ops : \/ Enqueue(op) \/ Tick(op)
                       \/ PublishRef(op) \/ ReconcileProject(op)
                       \/ ObserveResult(op) \/ ObserveFinalization(op)
                       \/ RetireOperation(op) \/ RetireStale(op) \/ ResetResultJob(op)
    \/ \E j \in Jobs : JobStep(j) \/ \E op \in Ops : Select(j, op)
    \/ ExpireClaims

Spec == Init /\ [][Next]_vars

-----------------------------------------------------------------------------
\* Properties

\* Every variable keeps its type.
TypeOK ==
    /\ rev \in [Scopes -> Nat \ {0}]
    /\ bound \in [Ops -> Nat]
    /\ row \in [Ops -> Row]
    /\ retired \in SUBSET Ops
    /\ holder \in Jobs \cup {None}
    /\ job \in [Jobs -> Job]
    /\ ledger \in [Ops -> Ledger]
    /\ effects \in [Ops -> Nat]

\* The external effect of an operation is made at most once, whatever crashes,
\* lapsed leases, observations, reconciliations and retries happen in between.
AtMostOneEffect == \A op \in Ops : effects[op] <= 1

\* A confirmed delivery had its effect: a receipt is never recorded for work
\* that a lost or fenced-out job only meant to do.  For an integration the
\* commit was published, by the delivery, the observer or the operator.
ConfirmedMeansEffect ==
    \A op \in Ops : row[op].state = "confirmed" => effects[op] = 1

\* Between validate_claim and the return of the adapter the claim stands in
\* the store: neither expiry nor observation nor retirement can take an
\* operation away from a job that may be making its effect right now.  The
\* observer, which may publish, keeps the ambiguous row it was started for.
EffectIsFenced ==
    \A j \in Jobs :
        /\ job[j].pc \in {"delivering", "widened"} =>
              holder = j /\ Holds(row[job[j].op], job[j].claim)
        /\ job[j].pc \in {"observing", "observed"} =>
              /\ holder = j
              /\ row[job[j].op].state = "ambiguous"
              /\ row[job[j].op].revision = job[j].expected

\* An operation whose effect was made is not offered for delivery again; only
\* a result job may be, because it finds its own record under its key.
NoReplay ==
    \A op \in Ops : effects[op] # 0 /\ Kind[op] \notin ResultKinds => row[op].state # "pending"

\* A row that waits for a claim always has a claim left to take, so no row is
\* stuck pending with its retry budget used up.
PendingHasBudget ==
    \A op \in Ops : row[op].state = "pending" => row[op].attempts < MaxAttempts

\* A changed task never receives a completion that was made for its earlier
\* revision: finish_operation rechecks the binding for every dispatched kind,
\* also after the unguarded check of a result job, and so does the finalization
\* observer.  A routine is bound to the control row, and complete_routine does
\* not ask; the observers of results read what is recorded under the key.
CompletionIsCurrent ==
    \A op \in Ops :
        /\ row[op].state # "confirmed"
        /\ row'[op].state = "confirmed"
        /\ \/ row[op].state = "claimed" /\ Kind[op] # "routine"
           \/ Kind[op] = "finalization"
        => BindingCurrent(op)

NoStaleCompletion == [][CompletionIsCurrent]_vars

-----------------------------------------------------------------------------
\* The inductive invariant behind the safety properties

\* The job that owns the project is the one between claim and outcome, outside
\* its isolated check, or the one that observes.
Owning == {"claimed", "delivering", "widened", "finishing", "observing", "observed"}

Owns(j) == holder = j <=> job[j].pc \in Owning

\* A busy job works on an enqueued operation, results on the lane only.
Assigned(j) ==
    job[j].pc # "idle" =>
        /\ job[j].op \in Ops
        /\ Enqueued(job[j].op)
        /\ j = Lane <=> Kind[job[j].op] \in ResultKinds
        /\ job[j].pc \in {"checking", "widened", "observing", "observed"} =>
              Kind[job[j].op] \in ResultKinds

\* As long as a job owns the project nobody takes its claim, or the ambiguous
\* row it observes; after its check a result job may find its claim gone.
KeepsClaim(j) ==
    /\ \/ job[j].pc \in {"claimed", "delivering", "widened"}
       \/ job[j].pc = "finishing" /\ Kind[job[j].op] \notin ResultKinds
       => Holds(row[job[j].op], job[j].claim)
    /\ job[j].pc \in {"observing", "observed"} =>
          /\ row[job[j].op].state = "ambiguous"
          /\ row[job[j].op].revision = job[j].expected

\* What a job that owns the project knows of the effect.
KnowsEffect(j) ==
    /\ /\ job[j].pc \in {"claimed", "delivering"}
       /\ Kind[job[j].op] \notin ResultKinds
       => effects[job[j].op] = 0
    /\ job[j].pc \in {"finishing", "observed"} =>
        /\ job[j].outcome = "confirmed" => effects[job[j].op] = 1
        /\ job[j].outcome = "retryable" =>
              effects[job[j].op] = 0 \/ Kind[job[j].op] \in ResultKinds

JobInv == \A j \in Jobs : Owns(j) /\ Assigned(j) /\ KeepsClaim(j) /\ KnowsEffect(j)

\* Nothing happens to an operation before it is enqueued.
NotYetEnqueued == \A op \in Ops : ~Enqueued(op) => row[op] = NewRow

\* Only an integration has a ledger, and it says integrated only of a published
\* commit.
LedgerInv ==
    \A op \in Ops :
        /\ ledger[op] # "none" => Kind[op] = "integration"
        /\ ledger[op] = "integrated" => effects[op] = 1

IInv ==
    /\ TypeOK
    /\ JobInv
    /\ NotYetEnqueued
    /\ LedgerInv
    /\ AtMostOneEffect
    /\ ConfirmedMeansEffect
    /\ NoReplay
    /\ PendingHasBudget

-----------------------------------------------------------------------------
\* What the delivery promises

Verdict(state) ==
    CASE state = "confirmed" -> "confirmed"
      [] state = "permanent_failure" -> "failed"
      [] OTHER -> "open"

Promise == INSTANCE DeliveryPromise WITH
    Reopenable <- {op \in Ops : Kind[op] \in ResultKinds},
    verdict <- [op \in Ops |-> Verdict(row[op].state)]

\* The claims, leases and epochs implement the promise of DeliveryPromise: one
\* effect, made before the confirmation; a confirmation only after the effect
\* and for good; a failure left again, or followed by the effect, only for a
\* result job.
PromiseKept == Promise!Spec

-----------------------------------------------------------------------------
\* Progress.  The clock advances, and every step of a job has a deadline.  The
\* ticker expires claims with a try-lock on the project on every turn: strong
\* fairness says that a lock that is free again and again is not missed for ever.
Fairness ==
    /\ \A op \in Ops : WF_vars(Tick(op))
    /\ \A j \in Jobs : WF_vars(JobStep(j))
    /\ SF_vars(ExpireClaims)

FairSpec == Spec /\ Fairness

\* A claim never outlives its owner for good: whoever dies, the row leaves the
\* claimed state through an outcome or through expiry.
ClaimResolves ==
    \A op \in Ops : row[op].state = "claimed" ~> row[op].state # "claimed"

\* What a result job needs beyond the fairness of every run.  The watchdog does
\* not hold effects back for good, so the ticker goes on to offer what is pending
\* and to observe what is ambiguous (effect_held); automation stays on in an
\* active project, so stale jobs are retired (enabled); and from some time on the
\* lane does not die, and returns an error only where a fence refuses it: not for
\* a sandbox, a repository or a lease of the candidate that it cannot get.
EffectsGoOn == \A op \in Ops : WF_vars(Select(Lane, op)) /\ WF_vars(ObserveResult(op))

AutomationGoesOn == \A op \in Ops : WF_vars(RetireStale(op))

LaneGoesOn == <>[][~(Abandon(Lane) /\ ENABLED Proceed(Lane))]_vars

=============================================================================
