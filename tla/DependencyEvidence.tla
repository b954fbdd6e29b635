------------------------- MODULE DependencyEvidence -------------------------
(***************************************************************************)
(* From the result of a predecessor to the start of the tasks that wait    *)
(* for it: submissions, verification, candidate groups, integrated         *)
(* commits, the satisfaction rows of its dependents and the reservation of *)
(* a dependent (store/results.rs, store/verification.rs,                   *)
(* store/candidate_groups.rs, store/satisfaction.rs,                       *)
(* store/contract_binding.rs).                                             *)
(*                                                                         *)
(* There is one predecessor and one dependent, whose edge to it may change *)
(* its requirement.  An action is one transaction: where an insert is      *)
(* refused the whole transaction is, so the refusal is a guard.            *)
(* Identifiers are positions: attempt, submission, run and operation i is  *)
(* the i-th that was inserted.                                             *)
(*                                                                         *)
(* Abstractions.  Contracts require no barrier and no outputs of their     *)
(* own, the digest of a policy is its name, every receipt carries the      *)
(* present attestation: verified_result_barrier_current and                *)
(* integrated_output_checks_current, which could hide a newer receipt from *)
(* an attachment, hold of every receipt.  All operations are on one ref.   *)
(* What can only withhold a release is left out, because the model may     *)
(* delay a release for ever anyway: a failed predecessor, an unresolved    *)
(* memory invalidation, the registration of a seeded candidate.            *)
(***************************************************************************)
EXTENDS Naturals, Sequences

CONSTANTS
    Policies,        \* acceptance policies of the predecessor
    ArmCount,        \* arms of a candidate group
    MaxRevision,     \* bound: contract revisions of the predecessor
    MaxAttempts,     \* bound: its attempts
    MaxSubmissions,  \* bound: their submissions
    MaxRuns,         \* bound: verification runs
    MaxOperations,   \* bound: integration operations
    MaxRecords,      \* bound: all of these together
    NoContract

ASSUME EvidenceAssumption ==
    /\ {ArmCount, MaxRevision, MaxAttempts, MaxSubmissions, MaxRuns, MaxOperations,
        MaxRecords} \subseteq Nat \ {0}
    /\ NoContract \notin Policies

VARIABLES
    revision,     \* latest contract revision of the predecessor
    active,       \* its active attempt, 0 if none
    attempts,     \* [frozen, arm]: frozen contract revision; bound arm, 0 if none
    group,        \* per revision [sealed, closed, winner], and deferred: the edge
                  \* was left to a later attachment that has not come (history)
    submissions,  \* the attempt of each submission
    runs,         \* verification_runs: [submission, policy, accepted]
    operations,   \* integration_operations: [run, state]
    revoked,      \* a barrier of the predecessor is revoked, no later one released
    edge,         \* task_dependencies: the requirement of the dependent, or "none"
    contract,     \* the policy its latest contract demands of the edge, or NoContract
    rows,         \* dependency_satisfactions: per requirement, state of each evidence
    inputs,       \* evidence in the prepared launch inputs of the dependent, 0 if none
    started       \* evidence the dependent was reserved with, 0 if it was not

predecessor == <<revision, active, attempts, group, submissions>>
dependent   == <<edge, contract, inputs, started>>
vars == <<predecessor, runs, operations, revoked, rows, dependent>>

Requirements == {"verified_result", "integrated_commit"}
Evidence     == 1 .. (IF MaxRuns < MaxOperations THEN MaxOperations ELSE MaxRuns)
Arms         == 0 .. ArmCount

\* Nothing is submitted, queued or decided.
Init ==
    /\ revision = 1 /\ active = 0
    /\ attempts = <<>> /\ submissions = <<>> /\ runs = <<>> /\ operations = <<>>
    /\ group = [r \in 1 .. MaxRevision |->
                  [sealed |-> FALSE, closed |-> FALSE, winner |-> 0, deferred |-> FALSE]]
    /\ revoked = FALSE
    /\ edge = "none" /\ contract = NoContract
    /\ rows = [q \in Requirements |-> [e \in Evidence |-> "none"]]
    /\ inputs = 0 /\ started = 0

\* The bound on all records.
Room == revision + Len(attempts) + Len(submissions) + Len(runs) + Len(operations) < MaxRecords

-----------------------------------------------------------------------------
\* What the rows say

Newest(S) == CHOOSE i \in S : \A j \in S : j <= i

\* The contract revision a submission was made for: the frozen one of its attempt.
RevisionOf(s) == attempts[submissions[s]].frozen

\* The group of a submission is the one of its revision, if its attempt is an arm.
Bound(s)   == attempts[submissions[s]].arm # 0
Winner(s)  == group[RevisionOf(s)].winner
HeldArm(s) == Bound(s) /\ Winner(s) # s

AttemptCurrent == IF active # 0 THEN active ELSE Len(attempts)

\* Mutant: currency does not know of selections.
CurrentAttemptOnly(s) == submissions[s] = AttemptCurrent

CurrentClause(s) ==
    IF Winner(s) # 0 THEN Winner(s) = s ELSE submissions[s] = AttemptCurrent

\* An accepted result of the submission may take the edge.
MayReplace(s) == CurrentClause(s) /\ RevisionOf(s) = revision

VerifiedResultMayReplace(r) == runs[r].accepted /\ MayReplace(runs[r].submission)

\* A contract that names another edge is one whose policy no result has.
Demanded(p) == contract \in {NoContract, p}

PolicyMatches(r) == Demanded(runs[r].policy)

\* The accepted results current_verified walks through.
CurrentVerified ==
    {r \in DOMAIN runs : VerifiedResultMayReplace(r) /\ PolicyMatches(r)}

\* The integrated commits latest_integrated walks through.
LatestIntegrated ==
    {i \in DOMAIN operations : /\ operations[i].state = "integrated"
                               /\ PolicyMatches(operations[i].run)}

\* The evidence attach_stored_receipts may choose from; it takes the newest.
Candidates(q) ==
    CASE q = "verified_result"   -> CurrentVerified
      [] q = "integrated_commit" -> LatestIntegrated
      [] OTHER                   -> {}

\* The verified result behind a piece of evidence.
ResultOf(q, e) == IF q = "verified_result" THEN e ELSE operations[e].run

Valid(q) == {e \in Evidence : rows[q][e] = "valid"}

\* Mutant: the arms of an undecided group count.
VerifiedCountsUnheld(e) == VerifiedResultMayReplace(e)

VerifiedCounts(e) == ~HeldArm(runs[e].submission) /\ VerifiedResultMayReplace(e)

\* dependency_blocker finds nothing to block the edge.
Counts(q, e) ==
    /\ ~revoked
    /\ e \in Valid(q)
    /\ PolicyMatches(ResultOf(q, e))
    /\ q = "verified_result" => VerifiedCounts(e)

-----------------------------------------------------------------------------
\* Writing a row

\* insert_valid replaces the valid row of the edge, so that one is left.
InsertValid(q, e) ==
    [rows EXCEPT ![q] = [x \in Evidence |-> IF x = e THEN "valid"
                                            ELSE IF @[x] = "valid" THEN "invalid" ELSE @[x]]]

\* A revoked predecessor refuses evidence; a row that was replaced keeps its primary key.
InsertAllowed(q, e) == ~revoked /\ rows[q][e] # "invalid"

\* attach_stored_receipts for one edge, after the other tables have changed.
Attach(q) ==
    LET S == Candidates(q)'
    IN  IF S = {}
          THEN rows' = rows
          ELSE InsertAllowed(q, Newest(S)) /\ rows' = InsertValid(q, Newest(S))

\* The evidence of the edge is looked up again: nothing is left to a later attachment.
Revisited(q) ==
    IF q = "verified_result" THEN [group EXCEPT ![revision].deferred = FALSE] ELSE group

\* attach_stored_receipts from the dependent's own transactions.
AttachStored(q) == group' = Revisited(q) /\ Attach(q)

-----------------------------------------------------------------------------
\* The predecessor

\* bind: the attempt takes the next arm of the open group if it has that arm's configuration.
NextArm ==
    LET bound == {attempts[a].arm : a \in {x \in DOMAIN attempts : attempts[x].frozen = revision}}
        free  == (1 .. ArmCount) \ bound
    IN  IF group[revision].sealed /\ ~group[revision].closed /\ free # {}
          THEN CHOOSE i \in free : \A j \in free : i <= j
          ELSE 0

\* The reservation of an attempt freezes the latest contract.  Prepared inputs
\* name the revision of the predecessor's task, so none can be used any more.
ReserveAttempt(arm) ==
    /\ active = 0 /\ Len(attempts) < MaxAttempts /\ Room
    /\ arm \in {0, NextArm}
    /\ attempts' = Append(attempts, [frozen |-> revision, arm |-> arm])
    /\ active' = Len(attempts) + 1
    /\ inputs' = 0
    /\ UNCHANGED <<revision, group, submissions, runs, operations, revoked, rows, edge,
                   contract, started>>

\* The attempt has ended.
EndAttempt ==
    /\ active # 0
    /\ active' = 0
    /\ inputs' = 0
    /\ UNCHANGED <<revision, attempts, group, submissions, runs, operations, revoked, rows,
                   edge, contract, started>>

\* install_contract for the predecessor.
InstallPredecessor ==
    /\ revision < MaxRevision /\ Room
    /\ revision' = revision + 1
    /\ UNCHANGED <<active, attempts, group, submissions, runs, operations, revoked, rows,
                   dependent>>

CreateGroup ==
    /\ ~group[revision].sealed
    /\ group' = [group EXCEPT ![revision].sealed = TRUE]
    /\ UNCHANGED <<revision, active, attempts, submissions, runs, operations, revoked,
                   rows, dependent>>

\* submit_result accepts the result of an attempt that has already ended, too.
SubmitResult(a) ==
    /\ Len(submissions) < MaxSubmissions /\ Room
    /\ submissions' = Append(submissions, a)
    /\ UNCHANGED <<revision, active, attempts, group, runs, operations, revoked, rows,
                   dependent>>

-----------------------------------------------------------------------------
\* Verification

\* record_verified_result: only a result that may replace takes the edge.
RecordVerifiedResult(s, p) ==
    IF edge = "verified_result" /\ Demanded(p)
      THEN /\ ~revoked
           /\ IF MayReplace(s)
                THEN rows' = InsertValid(edge, Len(runs) + 1) /\ group' = Revisited(edge)
                ELSE UNCHANGED <<rows, group>>
      ELSE UNCHANGED <<rows, group>>

\* load_verify_target and commit_verification.  The check runs outside the
\* transaction, but the commit accepts it only if the head has not moved since the
\* target was loaded, and decides on the rows as they are then: an accepted run is a
\* single step.  A check that failed or comes too late leaves a rejected run, or none.
CommitVerification(s, p, accepted) ==
    /\ Len(runs) < MaxRuns /\ Room
    /\ runs' = Append(runs, [submission |-> s, policy |-> p, accepted |-> accepted])
    /\ IF accepted THEN RecordVerifiedResult(s, p) ELSE UNCHANGED <<rows, group>>
    /\ UNCHANGED <<revision, active, attempts, submissions, operations, revoked, dependent>>

-----------------------------------------------------------------------------
\* The selection of a group

\* The combined verification of a submission: each policy is decided by its latest run.
Verification(s) ==
    LET of(p)   == {r \in DOMAIN runs : runs[r].submission = s /\ runs[r].policy = p}
        last(p) == runs[Newest(of(p))].accepted
    IN  IF \E p \in Policies : of(p) # {} /\ ~last(p) THEN "rejected"
        ELSE IF \A p \in Policies : of(p) # {} THEN "accepted" ELSE "pending"

SubmissionsOf(a) == {s \in DOMAIN submissions : submissions[s] = a}

AcceptedOf(a) == {s \in SubmissionsOf(a) : Verification(s) = "accepted"}

ArmPending(a) ==
    /\ AcceptedOf(a) = {}
    /\ a = active \/ \E s \in SubmissionsOf(a) : Verification(s) = "pending"

BoundArms(r) == {a \in DOMAIN attempts : attempts[a].frozen = r /\ attempts[a].arm # 0}

\* Mutant: the selection leaves the edge to a later attachment.
InsertSelectionOnly(r, s) ==
    /\ group[r].sealed /\ ~group[r].closed
    /\ group' = [group EXCEPT ![r] = [sealed |-> TRUE, closed |-> TRUE, winner |-> s,
                                      deferred |-> revoked /\ s # 0]]
    /\ UNCHANGED <<revision, active, attempts, submissions, runs, operations, revoked, rows,
                   dependent>>

\* insert_selection with attach_selected, which leaves a revoked predecessor alone.
InsertSelection(r, s) ==
    /\ group[r].sealed /\ ~group[r].closed
    /\ group' = [group EXCEPT ![r] = [sealed |-> TRUE, closed |-> TRUE, winner |-> s,
                                      deferred |-> revoked /\ s # 0]]
    /\ UNCHANGED <<revision, active, attempts, submissions, runs, operations, revoked,
                   dependent>>
    /\ IF s # 0 /\ edge = "verified_result" /\ ~revoked THEN Attach(edge) ELSE rows' = rows

\* The operator picks a submission of a bound arm, or none; a judge one of the same.
SelectCandidate(r, s) ==
    /\ s # 0 => submissions[s] \in BoundArms(r)
    /\ InsertSelection(r, s)

\* The rule: the first accepted arm, once every earlier arm is settled.
SelectByRule(r) ==
    LET first(S) == CHOOSE i \in S : \A j \in S : i <= j
        eligible == {a \in BoundArms(r) : AcceptedOf(a) # {}}
        before   == {a \in BoundArms(r) : eligible # {} => a < first(eligible)}
    IN  /\ \A a \in before : ~ArmPending(a)
        /\ eligible = {} => {attempts[a].arm : a \in BoundArms(r)} = 1 .. ArmCount
        /\ InsertSelection(r, IF eligible = {} THEN 0 ELSE first(AcceptedOf(first(eligible))))

-----------------------------------------------------------------------------
\* Integration

\* Mutant: operations of one ref overlap.
BeginIntegrationAgain(r) ==
    /\ Len(operations) < MaxOperations /\ Room
    /\ runs[r].accepted /\ ~HeldArm(runs[r].submission)
    /\ operations' = Append(operations, [run |-> r, state |-> "effect_pending"])
    /\ UNCHANGED <<predecessor, runs, revoked, rows, dependent>>

\* Mutant: the operation names the submission instead of the result.
BeginIntegrationOf(r) ==
    /\ Len(operations) < MaxOperations /\ Room
    /\ \A i \in DOMAIN operations : operations[i].state # "effect_pending"
    /\ runs[r].accepted /\ ~HeldArm(runs[r].submission)
    /\ operations' = Append(operations, [run |-> runs[r].submission, state |-> "effect_pending"])
    /\ UNCHANGED <<predecessor, runs, revoked, rows, dependent>>

\* One operation of the ref at a time, and never a held arm.
BeginIntegration(r) ==
    /\ Len(operations) < MaxOperations /\ Room
    /\ \A i \in DOMAIN operations : operations[i].state # "effect_pending"
    /\ runs[r].accepted /\ ~HeldArm(runs[r].submission)
    /\ operations' = Append(operations, [run |-> r, state |-> "effect_pending"])
    /\ UNCHANGED <<predecessor, runs, revoked, rows, dependent>>

\* apply_finish: blocked or discarded, or its commit is the newest evidence.  One
\* that needs reconciliation still holds the ref, like one that is pending.
FinishIntegration(i, s) ==
    /\ operations[i].state = "effect_pending"
    /\ operations' = [operations EXCEPT ![i].state = s]
    /\ UNCHANGED <<predecessor, runs, revoked, dependent>>
    /\ IF /\ s = "integrated" /\ edge = "integrated_commit"
          /\ PolicyMatches(operations[i].run)
         THEN ~revoked /\ rows' = InsertValid(edge, i)
         ELSE rows' = rows

-----------------------------------------------------------------------------
\* The dependent

\* queue_task writes the edge and attaches what is stored; prepared inputs name
\* the revision of the task, which it advances.
QueueTask(q) ==
    /\ started = 0
    /\ edge' = q
    /\ inputs' = 0
    /\ UNCHANGED <<revision, active, attempts, submissions, runs, operations, revoked,
                   contract, started>>
    /\ AttachStored(q)

\* install_contract for the dependent attaches along the edge of its queue record;
\* prepared inputs name the contract.
InstallContract(p) ==
    /\ contract' = p
    /\ inputs' = 0
    /\ UNCHANGED <<revision, active, attempts, submissions, runs, operations, revoked,
                   edge, started>>
    /\ AttachStored(edge)

\* Launch inputs are prepared with the evidence that counts now.
PrepareInputs(e) ==
    /\ edge # "none" /\ started = 0
    /\ Counts(edge, e)
    /\ inputs' = e
    /\ UNCHANGED <<predecessor, runs, operations, revoked, rows, edge, contract, started>>

\* Mutant: what counted when the inputs were prepared still does.
EvidenceSealed == inputs # 0 /\ ~revoked

\* require_dependency_evidence: the reservation needs the very row that was sealed.
EvidenceStands == inputs # 0 /\ Counts(edge, inputs)

ReserveDependent ==
    /\ edge # "none" /\ started = 0
    /\ EvidenceStands
    /\ started' = inputs /\ inputs' = 0
    /\ UNCHANGED <<predecessor, runs, operations, revoked, rows, edge, contract>>

\* A barrier that holds the predecessor is revoked, or a later one is released.
SetRevoked ==
    /\ revoked' = ~revoked
    /\ UNCHANGED <<predecessor, runs, operations, rows, dependent>>

-----------------------------------------------------------------------------
PredecessorStep ==
    \/ \E arm \in Arms : ReserveAttempt(arm)
    \/ EndAttempt
    \/ InstallPredecessor
    \/ CreateGroup
    \/ \E a \in DOMAIN attempts : SubmitResult(a)

VerifierStep ==
    \E s \in DOMAIN submissions, p \in Policies, accepted \in BOOLEAN :
        CommitVerification(s, p, accepted)

GroupStep ==
    \E r \in 1 .. MaxRevision :
        \/ \E s \in {0} \cup DOMAIN submissions : SelectCandidate(r, s)
        \/ SelectByRule(r)

IntegrationStep ==
    \/ \E r \in DOMAIN runs : BeginIntegration(r)
    \/ \E i \in DOMAIN operations, s \in {"integrated", "discarded"} : FinishIntegration(i, s)

DependentStep ==
    \/ \E q \in Requirements \cup {"none"} : QueueTask(q)
    \/ \E p \in Policies : InstallContract(p)
    \/ \E e \in Evidence : PrepareInputs(e)
    \/ ReserveDependent

Next ==
    \/ PredecessorStep \/ VerifierStep \/ GroupStep
    \/ IntegrationStep \/ DependentStep \/ SetRevoked

Spec == Init /\ [][Next]_vars

-----------------------------------------------------------------------------
\* Properties

\* Every row keeps its shape and refers to rows that exist.
TypeOK ==
    /\ revision \in 1 .. MaxRevision /\ active \in 0 .. Len(attempts) /\ revoked \in BOOLEAN
    /\ \A a \in DOMAIN attempts : attempts[a] \in [frozen : 1 .. revision, arm : Arms]
    /\ \A s \in DOMAIN submissions : submissions[s] \in DOMAIN attempts
    /\ \A r \in DOMAIN runs :
          runs[r] \in [submission : DOMAIN submissions, policy : Policies, accepted : BOOLEAN]
    /\ \A i \in DOMAIN operations :
          operations[i] \in [run : DOMAIN runs, state : {"effect_pending", "integrated", "discarded"}]
    /\ group \in [1 .. MaxRevision -> [sealed : BOOLEAN, closed : BOOLEAN,
                                       winner : 0 .. Len(submissions), deferred : BOOLEAN]]
    /\ edge \in Requirements \cup {"none"}
    /\ contract \in Policies \cup {NoContract}
    /\ rows \in [Requirements -> [Evidence -> {"none", "valid", "invalid"}]]

\* A queued dependent never misses evidence: if the predecessor has a current
\* result, or an integrated commit, under the dependent's policy, then the one
\* valid row of the edge names the newest.  Five transactions have to keep this
\* (verification, selection, integration, queueing, contract install).  The
\* exception is a selection that found the predecessor revoked: the edge waits
\* for the next attachment, or the next result of the winner.
EdgeIsCurrent ==
    /\ Candidates(edge) # {}
    /\ edge = "verified_result" => ~group[revision].deferred
    => Valid(edge) = {Newest(Candidates(edge))}

\* A dependent never runs on a candidate that lost, or might still lose, its
\* group: what it was reserved with is no arm, or is the selected submission
\* (HELD_ARM at the release, at begin_integration and at the reservation).
NoLoserReleased ==
    started # 0 =>
        LET s == runs[ResultOf(edge, started)].submission
        IN  Bound(s) => Winner(s) = s

\* A dependent is reserved on the evidence that counts when it is reserved, also
\* when the edge moved after its inputs were prepared: the newest, or, while the
\* attachment of a selection is outstanding, another result of the winner.
StartIsNewest ==
    [][started' # started =>
         /\ started' \in Candidates(edge)
         /\ \/ started' = Newest(Candidates(edge))
            \/ edge = "verified_result" /\ group[revision].deferred]_vars

\* Once the edge names the selected winner no later arm, retry or second
\* submission of that revision displaces it.
WinnerKept ==
    [][\A e \in Valid("verified_result") :
         LET s == runs[e].submission
         IN  (Winner(s) = s /\ RevisionOf(s) = revision' /\ contract' = contract /\ PolicyMatches(e))
               => \A x \in Valid("verified_result")' : runs'[x].submission = s]_vars

\* An integrated_commit edge moves to newer commits only, unless the contract of
\* the dependent asks for another policy.
IntegratedForward ==
    [][\A e \in Valid("integrated_commit") :
         (contract' = contract /\ PolicyMatches(operations[e].run))
           => \A x \in Valid("integrated_commit")' : e <= x]_vars

\* While its group is open and the predecessor is not revoked an earlier arm can
\* be selected after a later arm submitted: the selection moves the dependent's edge to
\* it (attach_selected), and that write is never refused.
EarlierArmSelectable ==
    \A s \in DOMAIN submissions :
        /\ Bound(s) /\ RevisionOf(s) = revision
        /\ \E later \in DOMAIN submissions : Bound(later) /\ submissions[s] < submissions[later]
        /\ ~group[revision].closed /\ ~revoked
        => ENABLED SelectCandidate(revision, s)

=============================================================================
