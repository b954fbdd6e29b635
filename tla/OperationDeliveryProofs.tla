----------------------- MODULE OperationDeliveryProofs -----------------------
(***************************************************************************)
(* Proofs about OperationDelivery for every set of operations, jobs and    *)
(* scopes, every retry budget and every bound.                             *)
(***************************************************************************)
EXTENDS OperationDelivery, TLAPS

\* A receipt leaves every revision a positive number.
LEMMA ReceiptKeepsRevisions ==
    ASSUME NEW op \in Ops, NEW outcome,
           rev \in [Scopes -> Nat \ {0}], ApplyReceipt(op, outcome)
    PROVE  rev' \in [Scopes -> Nat \ {0}]
<1>1. ScopeOf[op] \in Scopes
  BY ConstantsAssumption
<1>2. rev' = rev \/ rev' = [rev EXCEPT ![ScopeOf[op]] = @ + 1]
  BY DEF ApplyReceipt
<1>3. [rev EXCEPT ![ScopeOf[op]] = @ + 1] \in [Scopes -> Nat \ {0}]
  BY <1>1
<1> QED
  BY <1>2, <1>3

\* The row operators of store/delivery.rs keep a row a row.
LEMMA RowOperators ==
    ASSUME NEW r \in Row
    PROVE  /\ NewRow \in Row
           /\ ClaimRow(r) \in Row
           /\ \A outcome \in Outcome : UpdateOutcome(r, outcome) \in Row
           /\ ExpireRow(r) \in Row
           /\ ResetRow(r) \in Row
           /\ [r EXCEPT !.ripe = TRUE] \in Row
<1>1. ASSUME NEW q \in Row, NEW outcome \in Outcome PROVE UpdateOutcome(q, outcome) \in Row
  <2>1. OutcomeState(q, outcome) \in DeliveryState
    BY MaxAttemptsAssumption DEF Row, OutcomeState, Outcome, DeliveryState
  <2>2. q.revision + 1 \in Nat \ {0}
    BY DEF Row
  <2> QED BY <2>1, <2>2 DEF Row, UpdateOutcome
<1>2. ExpireRow(r) \in Row
  <2>1. [r EXCEPT !.epoch = @ + 1] \in Row
    BY DEF Row
  <2> QED BY <1>1, <2>1 DEF ExpireRow, Outcome
<1>3. NewRow \in Row
  BY DEF Row, NewRow, DeliveryState
<1>4. ClaimRow(r) \in Row /\ ResetRow(r) \in Row
  <2>1. r.revision + 1 \in Nat \ {0} /\ r.epoch + 1 \in Nat /\ r.attempts + 1 \in Nat
    BY DEF Row
  <2> QED BY <2>1 DEF Row, ClaimRow, ResetRow, DeliveryState
<1>5. [r EXCEPT !.ripe = TRUE] \in Row
  BY DEF Row
<1> QED BY <1>1, <1>2, <1>3, <1>4, <1>5

\* The inductive invariant holds in the initial state.
LEMMA InitIInv == Init => IInv
<1> SUFFICES ASSUME Init PROVE IInv
  OBVIOUS
<1> QED
  BY ConstantsAssumption, MaxAttemptsAssumption
  DEF Init, IInv, TypeOK, JobInv, Owns, Owning, Assigned, KeepsClaim, KnowsEffect,
      NotYetEnqueued, LedgerInv, Ledger, AtMostOneEffect, ConfirmedMeansEffect, NoReplay,
      PendingHasBudget, Enqueued, NewRow, Row, DeliveryState, Outcome, Idle, NoClaim, Job, PC

\* What update_outcome makes of a row: only a retryable outcome within the
\* budget returns it to pending, only a confirmation confirms it.
LEMMA OutcomeFacts ==
    ASSUME NEW r \in Row, NEW outcome \in Outcome
    PROVE  LET u == UpdateOutcome(r, outcome)
           IN  /\ u \in Row
               /\ u.attempts = r.attempts
               /\ u.state = "pending" => outcome = "retryable" /\ r.attempts < MaxAttempts
               /\ u.state = "confirmed" => outcome = "confirmed"
               /\ u.state # "claimed"
<1>1. UpdateOutcome(r, outcome) \in Row
  BY RowOperators
<1>2. UpdateOutcome(r, outcome).state = OutcomeState(r, outcome)
  BY DEF UpdateOutcome, Row
<1>3. UpdateOutcome(r, outcome).attempts = r.attempts
  BY DEF UpdateOutcome, Row
<1>4. /\ OutcomeState(r, outcome) = "pending" => outcome = "retryable" /\ r.attempts < MaxAttempts
      /\ OutcomeState(r, outcome) = "confirmed" => outcome = "confirmed"
      /\ OutcomeState(r, outcome) # "claimed"
  BY MaxAttemptsAssumption DEF OutcomeState, Outcome, Row
<1> QED BY <1>1, <1>2, <1>3, <1>4

\* A transaction that finds the project free may give any enqueued row a new
\* value, as long as it confirms only what had its effect and makes pending
\* only what has budget left and may be delivered again.
LEMMA FreeRowChange ==
    ASSUME IInv, TypeOK', ProjectFree,
           UNCHANGED <<bound, holder, job, ledger, effects>>,
           \A op \in Ops :
               \/ row'[op] = row[op]
               \/ /\ Enqueued(op)
                  /\ row'[op].state = "confirmed" => effects[op] # 0
                  /\ row'[op].state = "pending" =>
                        /\ row'[op].attempts < MaxAttempts
                        /\ effects[op] = 0 \/ Kind[op] \in ResultKinds
    PROVE  IInv'
<1> USE ConstantsAssumption
<1>1. \A j \in Jobs : job[j].pc \notin Owning
  BY DEF IInv, JobInv, Owns, ProjectFree
<1>2. \A j \in Jobs : Owns(j)' /\ Assigned(j)'
  BY DEF IInv, JobInv, Owns, Assigned, Enqueued
<1>3. \A j \in Jobs : KeepsClaim(j)' /\ KnowsEffect(j)'
  BY <1>1 DEF KeepsClaim, KnowsEffect, Owning
<1>4. NotYetEnqueued' /\ LedgerInv' /\ AtMostOneEffect'
  BY DEF IInv, NotYetEnqueued, LedgerInv, AtMostOneEffect, Enqueued
<1>5. ConfirmedMeansEffect'
  <2>1. \A op \in Ops : effects[op] \in Nat /\ effects[op] <= 1
    BY DEF IInv, TypeOK, AtMostOneEffect
  <2>2. \A op \in Ops : effects[op] # 0 => effects[op] = 1
    BY <2>1
  <2> QED BY <2>2 DEF IInv, ConfirmedMeansEffect
<1>6. NoReplay' /\ PendingHasBudget'
  BY DEF IInv, NoReplay, PendingHasBudget
<1> QED BY <1>2, <1>3, <1>4, <1>5, <1>6 DEF IInv, JobInv

\* A job moves while no other job owns the project.  It suffices that the
\* invariant holds of this job and of the ledger afterwards, and that rows and
\* effects changed only within the rules of FreeRowChange.
LEMMA OneJobMoves ==
    ASSUME IInv, TypeOK', NEW j \in Jobs,
           UNCHANGED bound,
           UNCHANGED ledger \/ LedgerInv',
           holder \in {j, None}, holder' \in {j, None},
           \A k \in Jobs \ {j} : job'[k] = job[k],
           Owns(j)', Assigned(j)', KeepsClaim(j)', KnowsEffect(j)',
           \A op \in Ops : effects'[op] <= 1 /\ effects[op] <= effects'[op],
           \A op \in Ops :
               \/ row'[op] = row[op] /\ (effects'[op] = effects[op] \/ row[op].state # "pending")
               \/ /\ Enqueued(op)
                  /\ effects'[op] = effects[op]
                  /\ row'[op].state = "confirmed" => effects[op] = 1
                  /\ row'[op].state = "pending" =>
                        /\ row'[op].attempts < MaxAttempts
                        /\ effects[op] = 0 \/ Kind[op] \in ResultKinds
    PROVE  IInv'
<1> USE ConstantsAssumption
<1>1. \A k \in Jobs \ {j} : job[k].pc \notin Owning
  BY DEF IInv, JobInv, Owns
<1>2. \A k \in Jobs \ {j} : Owns(k)' /\ Assigned(k)'
  BY <1>1 DEF IInv, JobInv, Owns, Assigned, Enqueued
<1>3. \A k \in Jobs \ {j} : KeepsClaim(k)' /\ KnowsEffect(k)'
  BY <1>1 DEF KeepsClaim, KnowsEffect, Owning
<1>4. NotYetEnqueued' /\ AtMostOneEffect'
  BY DEF IInv, NotYetEnqueued, AtMostOneEffect, Enqueued
<1>5. \A op \in Ops : effects[op] = 1 => effects'[op] = 1
  BY DEF IInv, TypeOK
<1>6. ConfirmedMeansEffect'
  BY <1>5 DEF IInv, ConfirmedMeansEffect
<1>7. LedgerInv'
  BY <1>5 DEF IInv, LedgerInv
<1>8. NoReplay' /\ PendingHasBudget'
  BY DEF IInv, NoReplay, PendingHasBudget
<1> QED BY <1>2, <1>3, <1>4, <1>6, <1>8, <1>7 DEF IInv, JobInv

\* A step without an effect keeps every effect within its bound.
LEMMA SameEffects ==
    ASSUME IInv, UNCHANGED effects
    PROVE  \A op \in Ops : effects'[op] <= 1 /\ effects[op] <= effects'[op]
<1>1. \A op \in Ops : effects[op] \in Nat /\ effects[op] <= 1
  BY DEF IInv, TypeOK, AtMostOneEffect
<1>2. \A op \in Ops : effects'[op] = effects[op]
  OBVIOUS
<1> QED BY <1>1, <1>2

\* A job moves and leaves every row, ledger and effect as it was.
LEMMA OneJobSteps ==
    ASSUME IInv, TypeOK', NEW j \in Jobs,
           UNCHANGED <<bound, row, ledger, effects>>,
           holder \in {j, None}, holder' \in {j, None},
           \A k \in Jobs \ {j} : job'[k] = job[k],
           Owns(j)', Assigned(j)', KeepsClaim(j)', KnowsEffect(j)'
    PROVE  IInv'
<1>1. \A op \in Ops : effects'[op] <= 1 /\ effects[op] <= effects'[op]
  BY SameEffects
<1> QED BY <1>1, OneJobMoves

\* The locals of one job are replaced.
LEMMA JobReplaced ==
    ASSUME TypeOK, NEW j \in Jobs, NEW new \in Job, job' = [job EXCEPT ![j] = new]
    PROVE  /\ job' \in [Jobs -> Job]
           /\ \A k \in Jobs \ {j} : job'[k] = job[k]
           /\ job'[j] = new
BY DEF TypeOK

\* Goto and Delivered change the named locals of one job and nothing else.
LEMMA GotoFacts ==
    ASSUME TypeOK, NEW j \in Jobs, NEW pc \in PC, Goto(j, pc)
    PROVE  /\ job' \in [Jobs -> Job]
           /\ \A k \in Jobs \ {j} : job'[k] = job[k]
           /\ job'[j].pc = pc
           /\ job'[j].op = job[j].op
           /\ job'[j].claim = job[j].claim
<1>1. LeaseOver(j) \in BOOLEAN
  BY DEF LeaseOver
<1> DEFINE late == LeaseOver(j)
<1>2. late \in BOOLEAN
  BY <1>1
<1>3. job' = [job EXCEPT ![j].pc = pc, ![j].late = late]
  BY DEF Goto
<1> HIDE DEF late
<1> DEFINE new == [job[j] EXCEPT !.pc = pc, !.late = late]
<1>4. job' = [job EXCEPT ![j] = new]
  BY <1>3
<1>5. job[j] \in Job
  BY DEF TypeOK
<1>6. new \in Job /\ new.pc = pc /\ new.op = job[j].op /\ new.claim = job[j].claim
  BY <1>2, <1>5 DEF Job
<1> HIDE DEF new
<1> QED BY <1>4, <1>6, JobReplaced

\* What a job looks like after its effect returned: it is finishing, on the same
\* operation, and no other job moved (the return path of dispatch_claimed).
LEMMA DeliveredFacts ==
    ASSUME TypeOK, NEW j \in Jobs, NEW made \in BOOLEAN, NEW outcome \in Outcome,
           Delivered(j, made, outcome)
    PROVE  /\ job' \in [Jobs -> Job]
           /\ \A k \in Jobs \ {j} : job'[k] = job[k]
           /\ job'[j].pc = "finishing"
           /\ job'[j].op = job[j].op
           /\ job'[j].claim = job[j].claim
           /\ job'[j].outcome = outcome
<1>1. LeaseOver(j) \in BOOLEAN
  BY DEF LeaseOver
<1> DEFINE late == LeaseOver(j)
<1>2. late \in BOOLEAN /\ "finishing" \in PC
  BY <1>1 DEF PC
<1>3. job' = [job EXCEPT ![j].pc = "finishing", ![j].late = late, ![j].outcome = outcome]
  BY DEF Delivered
<1> HIDE DEF late
<1> DEFINE new == [job[j] EXCEPT !.pc = "finishing", !.late = late, !.outcome = outcome]
<1>4. job' = [job EXCEPT ![j] = new]
  BY <1>3
<1>5. job[j] \in Job
  BY DEF TypeOK
<1>6. /\ new \in Job
      /\ new.pc = "finishing" /\ new.op = job[j].op /\ new.claim = job[j].claim
      /\ new.outcome = outcome
  BY <1>2, <1>5 DEF Job
<1> HIDE DEF new
<1> QED BY <1>4, <1>6, JobReplaced

\* A pass over an integration leaves it integrated only if the ref was published
\* (resume and settle, whoever calls them).
LEMMA SettledIsPublished ==
    ASSUME IInv, NEW op \in Ops, NEW l \in Resumed(op)
    PROVE  l \in Ledger /\ (l = "integrated" => effects[op] = 1)
<1>1. ledger[op] \in Ledger /\ effects[op] \in Nat /\ effects[op] <= 1
  BY DEF IInv, TypeOK, AtMostOneEffect
<1>2. ledger[op] = "integrated" => effects[op] = 1
  BY DEF IInv, LedgerInv
<1> QED BY <1>1, <1>2 DEF Resumed, Ledger

\* Every step keeps the inductive invariant.
LEMMA NextIInv == IInv /\ [Next]_vars => IInv'
<1> SUFFICES ASSUME IInv, [Next]_vars PROVE IInv'
  OBVIOUS
<1> USE ConstantsAssumption, MaxAttemptsAssumption
<1>1. CASE UNCHANGED vars
  BY <1>1 DEF vars, IInv, TypeOK, JobInv, Owns, Assigned, KeepsClaim, KnowsEffect,
      NotYetEnqueued, LedgerInv, AtMostOneEffect, ConfirmedMeansEffect, NoReplay,
      PendingHasBudget, Enqueued
<1>2. ASSUME NEW s \in Scopes, ChangeScope(s) PROVE IInv'
  BY <1>2 DEF ChangeScope, IInv, TypeOK, JobInv, Owns, Assigned, KeepsClaim, KnowsEffect,
      NotYetEnqueued, LedgerInv, AtMostOneEffect, ConfirmedMeansEffect, NoReplay,
      PendingHasBudget, Enqueued
<1>3. ASSUME NEW op \in Ops, Enqueue(op) PROVE IInv'
  <2>1. row' = row
    BY <1>3 DEF Enqueue, IInv, NotYetEnqueued, TypeOK
  <2>2. TypeOK'
    BY <1>3, <2>1 DEF Enqueue, IInv, TypeOK
  <2>3. NotYetEnqueued' /\ \A j \in Jobs : Assigned(j)'
    BY <1>3, <2>1 DEF Enqueue, IInv, TypeOK, JobInv, Assigned, NotYetEnqueued, Enqueued
  <2> QED
    <3>1. UNCHANGED <<row, retired, holder, job, ledger, effects>>
      BY <1>3, <2>1 DEF Enqueue
    <3>2. \A j \in Jobs : Owns(j)' /\ KeepsClaim(j)' /\ KnowsEffect(j)'
      BY <3>1 DEF IInv, JobInv, Owns, KeepsClaim, KnowsEffect
    <3>3. LedgerInv' /\ AtMostOneEffect' /\ ConfirmedMeansEffect'
      BY <3>1 DEF IInv, LedgerInv, AtMostOneEffect, ConfirmedMeansEffect
    <3>4. NoReplay' /\ PendingHasBudget'
      BY <3>1 DEF IInv, NoReplay, PendingHasBudget
    <3> QED BY <2>2, <2>3, <3>2, <3>3, <3>4 DEF IInv, JobInv
<1>4. ASSUME NEW op \in Ops, Tick(op) PROVE IInv'
  <2>1. \A o \in Ops : row[o] \in Row
    BY DEF IInv, TypeOK
  <2>2. \A o \in Ops : row'[o] = IF o = op THEN [row[o] EXCEPT !.ripe = TRUE] ELSE row[o]
    BY <1>4 DEF Tick, IInv, TypeOK
  <2>3. \A o \in Ops : /\ row'[o] \in Row
                       /\ row'[o].state = row[o].state
                       /\ row'[o].revision = row[o].revision
                       /\ row'[o].epoch = row[o].epoch
                       /\ row'[o].attempts = row[o].attempts
                       /\ ~Enqueued(o) => row'[o] = row[o]
    <3> SUFFICES ASSUME NEW o \in Ops
                 PROVE  /\ row'[o] \in Row
                        /\ row'[o].state = row[o].state
                        /\ row'[o].revision = row[o].revision
                        /\ row'[o].epoch = row[o].epoch
                        /\ row'[o].attempts = row[o].attempts
                        /\ ~Enqueued(o) => row'[o] = row[o]
      OBVIOUS
    <3>1. CASE o = op
      <4>1. row'[o] = [row[o] EXCEPT !.ripe = TRUE]
        BY <2>2, <3>1
      <4>2. row[o] \in Row /\ Enqueued(o)
        BY <1>4, <2>1, <3>1 DEF Tick
      <4> QED BY <4>1, <4>2 DEF Row
    <3>2. CASE o # op
      BY <2>1, <2>2, <3>2
    <3> QED BY <3>1, <3>2
  <2>4. TypeOK'
    BY <1>4, <2>3 DEF Tick, IInv, TypeOK
  <2>5. NotYetEnqueued' /\ \A j \in Jobs : Assigned(j)' /\ KeepsClaim(j)'
    BY <1>4, <2>3 DEF Tick, IInv, JobInv, Assigned, KeepsClaim, NotYetEnqueued, Enqueued, Holds
  <2> QED
    BY <1>4, <2>3, <2>4, <2>5 DEF Tick, IInv, JobInv, Owns, KnowsEffect,
       LedgerInv, AtMostOneEffect, ConfirmedMeansEffect, NoReplay, PendingHasBudget
<1>5. ASSUME NEW j \in Jobs, NEW op \in Ops, Select(j, op) PROVE IInv'
  <2>1. /\ \A k \in Jobs \ {j} : job'[k] = job[k]
        /\ job'[j] = [Idle EXCEPT !.pc = "selected", !.op = op, !.expected = row[op].revision]
        /\ job' \in [Jobs -> Job]
    BY <1>5 DEF Select, IInv, TypeOK, Row, Job, PC, Idle, NoClaim, Outcome
  <2>2. TypeOK'
    BY <1>5, <2>1 DEF Select, IInv, TypeOK
  <2>3. Owns(j)' /\ Assigned(j)' /\ KeepsClaim(j)' /\ KnowsEffect(j)'
    BY <1>5, <2>1 DEF Select, IInv, JobInv, Owns, Assigned, KeepsClaim, KnowsEffect,
       Enqueued, Owning, Idle
  <2>4. JobInv'
    BY <1>5, <2>1, <2>3 DEF Select, IInv, JobInv, Owns, Assigned, KeepsClaim, KnowsEffect, Enqueued
  <2> QED
    BY <1>5, <2>2, <2>4 DEF Select, IInv, NotYetEnqueued, Enqueued,
       LedgerInv, AtMostOneEffect, ConfirmedMeansEffect, NoReplay, PendingHasBudget
<1>6. CASE ExpireClaims
  <2>1. \A op \in Ops : row[op].state = "claimed" => Enqueued(op)
    BY DEF IInv, NotYetEnqueued, NewRow
  <2>2. \A op \in Ops : \/ row'[op] = row[op]
                        \/ /\ Enqueued(op)
                           /\ row'[op] \in Row
                           /\ row'[op].state \notin {"confirmed", "pending"}
    <3> SUFFICES ASSUME NEW op \in Ops, row'[op] # row[op]
                 PROVE  Enqueued(op) /\ row'[op] \in Row /\ row'[op].state \notin {"confirmed", "pending"}
      OBVIOUS
    <3>1. row[op].state = "claimed" /\ row'[op] = ExpireRow(row[op])
      BY <1>6 DEF ExpireClaims
    <3>2. [row[op] EXCEPT !.epoch = @ + 1] \in Row
      BY DEF IInv, TypeOK, Row
    <3> QED BY <3>1, <3>2, <2>1, OutcomeFacts DEF ExpireRow, Outcome
  <2>3. TypeOK'
    BY <1>6, <2>2 DEF ExpireClaims, IInv, TypeOK
  <2> QED BY <1>6, <2>2, <2>3, FreeRowChange DEF ExpireClaims
<1>7. ASSUME NEW op \in Ops, ObserveResult(op) PROVE IInv'
  <2>1. /\ \A k \in Jobs \ {Lane} : job'[k] = job[k]
        /\ job'[Lane] = [Idle EXCEPT !.pc = "observing", !.op = op, !.expected = row[op].revision]
        /\ job' \in [Jobs -> Job]
    BY <1>7 DEF ObserveResult, IInv, TypeOK, Row, Job, PC, Idle, NoClaim, Outcome
  <2>2. TypeOK'
    BY <1>7, <2>1 DEF ObserveResult, IInv, TypeOK
  <2>3. Enqueued(op)
    BY <1>7 DEF ObserveResult, IInv, NotYetEnqueued, NewRow
  <2>4. Owns(Lane)' /\ Assigned(Lane)' /\ KeepsClaim(Lane)' /\ KnowsEffect(Lane)'
    BY <1>7, <2>1, <2>3 DEF ObserveResult, Owns, Owning, Assigned, KeepsClaim, KnowsEffect,
       Enqueued, Idle
  <2> QED
    BY <1>7, <2>1, <2>2, <2>4, OneJobMoves
    DEF ObserveResult, ProjectFree, IInv, TypeOK, AtMostOneEffect
<1>8. ASSUME NEW op \in Ops, ObserveFinalization(op) PROVE IInv'
  <2>1. Enqueued(op)
    BY <1>8 DEF ObserveFinalization, IInv, NotYetEnqueued, NewRow
  <2>2. TypeOK'
    BY <1>8, OutcomeFacts DEF ObserveFinalization, ApplyReceipt, IInv, TypeOK, Outcome
  <2> QED BY <1>8, <2>1, <2>2, OutcomeFacts, FreeRowChange
          DEF ObserveFinalization, IInv, TypeOK, Outcome
<1>9. ASSUME NEW op \in Ops, RetireOperation(op) \/ RetireStale(op) PROVE IInv'
  <2>1. TypeOK'
    BY <1>9, OutcomeFacts DEF RetireOperation, RetireStale, IInv, TypeOK, Outcome
  <2> QED BY <1>9, <2>1, OutcomeFacts, FreeRowChange
          DEF RetireOperation, RetireStale, IInv, TypeOK, Outcome
<1>10. ASSUME NEW op \in Ops, ResetResultJob(op) PROVE IInv'
  <2>1. Enqueued(op)
    BY <1>10 DEF ResetResultJob, IInv, NotYetEnqueued, NewRow
  <2>2. TypeOK'
    BY <1>10, RowOperators DEF ResetResultJob, IInv, TypeOK
  <2>3. row'[op].state = "pending" /\ row'[op].attempts = row[op].attempts
    BY <1>10 DEF ResetResultJob, ResetRow, IInv, TypeOK, Row
  <2> QED BY <1>10, <2>1, <2>2, <2>3, FreeRowChange
          DEF ResetResultJob, IInv, TypeOK
<1>11. ASSUME NEW j \in Jobs, ClaimOperation(j) PROVE IInv'
  <2> DEFINE op == job[j].op
             claimed == ClaimRow(row[op])
  <2>1. /\ holder = None
        /\ job[j].pc = "selected"
        /\ op \in Ops
        /\ Enqueued(op)
        /\ row[op] \in Row
        /\ row[op].state = "pending"
    BY <1>11 DEF ClaimOperation, ProjectFree, Claimable,
       IInv, JobInv, Assigned, TypeOK
  <2>2. /\ claimed \in Row
        /\ claimed.state = "claimed"
    BY <2>1, RowOperators DEF ClaimRow, Row
  <2>3. /\ \A k \in Jobs \ {j} : job'[k] = job[k]
        /\ job' \in [Jobs -> Job]
        /\ job'[j].pc = "claimed"
        /\ job'[j].op = op
        /\ job'[j].claim = [revision |-> claimed.revision, epoch |-> claimed.epoch]
    <3> DEFINE claim == [revision |-> claimed.revision, epoch |-> claimed.epoch]
    <3>1. claim \in [revision : Nat, epoch : Nat]
      BY <2>2 DEF Row
    <3>2. job' = [job EXCEPT ![j].pc = "claimed", ![j].claim = claim]
      BY <1>11 DEF ClaimOperation
    <3>3. "claimed" \in PC
      BY DEF PC
    <3> HIDE DEF claim
    <3> DEFINE new == [job[j] EXCEPT !.pc = "claimed", !.claim = claim]
    <3>4. job[j] \in Job
      BY DEF IInv, TypeOK
    <3>5. new \in Job /\ new.pc = "claimed" /\ new.op = op /\ new.claim = claim
      BY <3>1, <3>3, <3>4 DEF Job
    <3>6. job' = [job EXCEPT ![j] = new]
      BY <3>2
    <3> HIDE DEF new
    <3> QED BY <3>5, <3>6 DEF claim, IInv, TypeOK
  <2>4. /\ row'[op] = claimed
        /\ \A o \in Ops \ {op} : row'[o] = row[o]
        /\ row' \in [Ops -> Row]
    BY <1>11, <2>1, <2>2 DEF ClaimOperation, IInv, TypeOK
  <2>5. TypeOK'
    BY <1>11, <2>3, <2>4 DEF ClaimOperation, IInv, TypeOK
  <2>6. KeepsClaim(j)'
    <3>1. Holds(row'[op], job'[j].claim)
      BY <2>2, <2>3, <2>4 DEF Holds
    <3>2. job'[j].pc = "claimed" /\ job'[j].op = op
      BY <2>3
    <3> QED BY <3>1, <3>2 DEF KeepsClaim
  <2>7. Owns(j)' /\ Assigned(j)' /\ KnowsEffect(j)'
    BY <1>11, <2>1, <2>3 DEF ClaimOperation, IInv, JobInv, NoReplay, Owns, Owning,
       Assigned, KnowsEffect, Enqueued
  <2>8. \A o \in Ops : effects[o] <= 1 /\ effects[o] <= effects[o]
    BY DEF IInv, TypeOK, AtMostOneEffect
  <2>9. UNCHANGED <<bound, ledger, effects>> /\ holder' = j
    BY <1>11 DEF ClaimOperation
  <2> HIDE DEF claimed
  <2> QED
    BY <2>1, <2>2, <2>3, <2>4, <2>5, <2>6, <2>7, <2>8, <2>9, OneJobMoves
<1>12. ASSUME NEW j \in Jobs,
              Withdraw(j) \/ ShowNotification(j) \/ CaptureFinalization(j)
                \/ RunRoutine(j) \/ RecordRun(j)
       PROVE  IInv'
  <2> DEFINE op == job[j].op
  <2> DEFINE Sound(made, outcome) ==
               /\ Delivered(j, made, outcome)
               /\ made => effects[op] = 0
               /\ outcome = "confirmed" => made \/ effects[op] # 0
               /\ outcome = "retryable" => ~made /\ (effects[op] = 0 \/ Kind[op] \in ResultKinds)
  <2>1. /\ job[j].pc \in {"claimed", "delivering", "widened"}
        /\ UNCHANGED <<rev, bound, row, retired, holder, ledger>>
    BY <1>12 DEF Withdraw, ShowNotification, CaptureFinalization, RunRoutine, RecordRun
  <2>2. KnowsEffect(j) /\ Owns(j) /\ Assigned(j) /\ KeepsClaim(j)
    BY DEF IInv, JobInv
  <2>3. PICK made \in BOOLEAN, outcome \in Outcome : Sound(made, outcome)
    <3>1. CASE Withdraw(j)
      <4>1. "retryable" \in Outcome /\ Sound(FALSE, "retryable")
        BY <2>2, <3>1 DEF Withdraw, KnowsEffect, Outcome
      <4> QED BY <4>1
    <3>2. CASE ShowNotification(j)
      <4>1. effects[op] = 0
        BY <2>2, <3>2 DEF ShowNotification, KnowsEffect, ResultKinds
      <4> QED BY <4>1, <3>2 DEF ShowNotification, Outcome
    <3>3. CASE CaptureFinalization(j)
      <4>1. effects[op] = 0
        BY <2>2, <3>3 DEF CaptureFinalization, KnowsEffect, ResultKinds
      <4> QED BY <4>1, <3>3 DEF CaptureFinalization, Outcome
    <3>4. CASE RunRoutine(j)
      <4>1. effects[op] = 0
        BY <2>2, <3>4 DEF RunRoutine, KnowsEffect, ResultKinds
      <4> QED BY <4>1, <3>4 DEF RunRoutine, Outcome
    <3>5. CASE RecordRun(j)
      BY <3>5 DEF RecordRun, Outcome, ResultKinds
    <3> QED BY <1>12, <3>1, <3>2, <3>3, <3>4, <3>5
  <2>4. op \in Ops /\ effects[op] \in Nat /\ effects[op] <= 1
    BY <2>1, <2>2 DEF Assigned, IInv, TypeOK, AtMostOneEffect
  <2>5. /\ \A k \in Jobs \ {j} : job'[k] = job[k]
        /\ job' \in [Jobs -> Job]
        /\ job'[j].pc = "finishing"
        /\ job'[j].op = op
        /\ job'[j].claim = job[j].claim
        /\ job'[j].outcome = outcome
    BY <2>3, DeliveredFacts DEF IInv
  <2>6. /\ effects' \in [Ops -> Nat]
        /\ effects'[op] = IF made THEN 1 ELSE effects[op]
        /\ \A o \in Ops \ {op} : effects'[o] = effects[o]
    BY <2>3, <2>4 DEF Delivered, IInv, TypeOK
  <2>7. TypeOK'
    BY <2>1, <2>5, <2>6 DEF IInv, TypeOK
  <2>8. holder = j /\ row[op].state # "pending"
    BY <2>1, <2>2 DEF Owns, Owning, KeepsClaim, Holds
  <2>9. Owns(j)' /\ Assigned(j)'
    BY <2>1, <2>2, <2>5, <2>8 DEF Owns, Owning, Assigned, Enqueued
  <2>10. KeepsClaim(j)' /\ KnowsEffect(j)'
    <3>1. KeepsClaim(j)'
      BY <2>1, <2>2, <2>5 DEF KeepsClaim
    <3>2. outcome = "confirmed" => effects'[op] = 1
      BY <2>3, <2>4, <2>6
    <3>3. outcome = "retryable" => effects'[op] = 0 \/ Kind[op] \in ResultKinds
      BY <2>3, <2>6
    <3>4. KnowsEffect(j)'
      BY <2>5, <3>2, <3>3 DEF KnowsEffect
    <3> QED BY <3>1, <3>4
  <2>11. \A o \in Ops : effects'[o] <= 1 /\ effects[o] <= effects'[o]
    BY <2>4, <2>6 DEF IInv, TypeOK, AtMostOneEffect
  <2> QED
    BY <2>1, <2>5, <2>6, <2>7, <2>8, <2>9, <2>10, <2>11, OneJobMoves
<1>13. ASSUME NEW j \in Jobs, ValidateClaim(j) PROVE IInv'
  <2>1. /\ \A k \in Jobs \ {j} : job'[k] = job[k]
        /\ job' \in [Jobs -> Job]
        /\ job'[j].pc = "delivering"
        /\ job'[j].op = job[j].op
        /\ job'[j].claim = job[j].claim
    BY <1>13, GotoFacts DEF ValidateClaim, IInv, PC
  <2>2. TypeOK'
    BY <1>13, <2>1 DEF ValidateClaim, IInv, TypeOK
  <2>3. holder = j
    BY <1>13 DEF ValidateClaim, IInv, JobInv, Owns, Owning
  <2>4. Owns(j)' /\ Assigned(j)' /\ KeepsClaim(j)' /\ KnowsEffect(j)'
    BY <1>13, <2>1, <2>3 DEF ValidateClaim, IInv, JobInv, Owns, Owning, Assigned,
       KeepsClaim, KnowsEffect, Enqueued
  <2> QED
    <3>1. UNCHANGED <<bound, row, ledger, effects>> /\ holder' \in {j, None}
      BY <1>13, <2>3 DEF ValidateClaim
    <3> QED BY <2>1, <2>2, <2>3, <2>4, <3>1, OneJobSteps
<1>14. ASSUME NEW j \in Jobs, Release(j) PROVE IInv'
  <2>1. /\ \A k \in Jobs \ {j} : job'[k] = job[k]
        /\ job' \in [Jobs -> Job]
        /\ job'[j].pc = "checking"
        /\ job'[j].op = job[j].op
    BY <1>14, GotoFacts DEF Release, IInv, PC
  <2>2. TypeOK'
    BY <1>14, <2>1 DEF Release, IInv, TypeOK
  <2>3. holder = j
    BY <1>14 DEF Release, IInv, JobInv, Owns, Owning
  <2>4. Owns(j)' /\ Assigned(j)' /\ KeepsClaim(j)' /\ KnowsEffect(j)'
    BY <1>14, <2>1, <2>3 DEF Release, IInv, JobInv, Owns, Owning, Assigned,
       KeepsClaim, KnowsEffect, Enqueued, ResultKinds
  <2> QED
    <3>1. UNCHANGED <<bound, row, ledger, effects>> /\ holder' \in {j, None}
      BY <1>14, <2>3 DEF Release
    <3> QED BY <2>1, <2>2, <2>3, <2>4, <3>1, OneJobSteps
<1>15. ASSUME NEW j \in Jobs, Reacquire(j) PROVE IInv'
  <2>1. /\ \A k \in Jobs \ {j} : job'[k] = job[k]
        /\ job' \in [Jobs -> Job]
        /\ job'[j].op = job[j].op
        /\ job'[j].claim = job[j].claim
        /\ \/ job'[j].pc = "widened" /\ Holds(row[job[j].op], job[j].claim)
           \/ job'[j].pc = "finishing" /\ job'[j].outcome = "retryable"
    BY <1>15, GotoFacts, DeliveredFacts DEF Reacquire, ClaimStands, IInv, PC, Outcome
  <2>2. UNCHANGED <<rev, bound, row, retired, ledger, effects>>
    BY <1>15 DEF Reacquire, Delivered
  <2>3. TypeOK'
    BY <1>15, <2>1, <2>2 DEF Reacquire, IInv, TypeOK
  <2>4. Owns(j)' /\ Assigned(j)' /\ KeepsClaim(j)' /\ KnowsEffect(j)'
    BY <1>15, <2>1, <2>2 DEF Reacquire, IInv, JobInv, Owns, Owning, Assigned,
       KeepsClaim, KnowsEffect, Enqueued
  <2> QED
    <3>1. holder = None /\ holder' = j
      BY <1>15 DEF Reacquire, ProjectFree
    <3> QED BY <2>1, <2>2, <2>3, <2>4, <3>1, OneJobSteps
<1>16. ASSUME NEW j \in Jobs, FinishOperation(j) PROVE IInv'
  <2> DEFINE op == job[j].op
             outcome == job[j].outcome
             finished == UpdateOutcome(row[op], outcome)
  <2>1. Owns(j) /\ Assigned(j) /\ KnowsEffect(j)
    BY DEF IInv, JobInv
  <2>2. /\ op \in Ops
        /\ Enqueued(op)
        /\ row[op] \in Row
        /\ outcome \in Outcome
        /\ holder = j
    BY <1>16, <2>1 DEF FinishOperation, Assigned, Owns, Owning, IInv, TypeOK, Job
  <2>3. /\ job' \in [Jobs -> Job]
        /\ \A k \in Jobs \ {j} : job'[k] = job[k]
        /\ job'[j] = Idle
    BY <1>16 DEF FinishOperation, Return, IInv, TypeOK, Idle, NoClaim, Job, PC, Outcome
  <2>4. /\ row' \in [Ops -> Row]
        /\ row'[op] = finished
        /\ \A o \in Ops \ {op} : row'[o] = row[o]
    BY <1>16, <2>2, OutcomeFacts DEF FinishOperation, IInv, TypeOK
  <2>5. rev' \in [Scopes -> Nat \ {0}]
    <3>1. ApplyReceipt(op, outcome)
      BY <1>16 DEF FinishOperation
    <3>2. rev \in [Scopes -> Nat \ {0}]
      BY DEF IInv, TypeOK
    <3> HIDE DEF op, outcome
    <3> QED
      BY <2>2, <3>1, <3>2, ReceiptKeepsRevisions
  <2>6. TypeOK'
    BY <1>16, <2>3, <2>4, <2>5 DEF FinishOperation, IInv, TypeOK
  <2>7. Owns(j)' /\ Assigned(j)' /\ KeepsClaim(j)' /\ KnowsEffect(j)'
    <3>1. job'[j].pc = "idle"
      BY <2>3 DEF Idle
    <3>2. holder' # j
      BY <1>16, ConstantsAssumption DEF FinishOperation
    <3>3. Owns(j)'
      BY <3>1, <3>2 DEF Owns, Owning
    <3>4. Assigned(j)' /\ KeepsClaim(j)' /\ KnowsEffect(j)'
      BY <3>1 DEF Assigned, KeepsClaim, KnowsEffect
    <3> QED
      BY <3>3, <3>4
  <2>8. /\ finished.state = "confirmed" => effects[op] = 1
        /\ finished.state = "pending" =>
              /\ finished.attempts < MaxAttempts
              /\ effects[op] = 0 \/ Kind[op] \in ResultKinds
    BY <1>16, <2>1, <2>2, OutcomeFacts DEF FinishOperation, KnowsEffect
  <2>9. \A o \in Ops : effects[o] <= 1 /\ effects[o] <= effects[o]
    BY DEF IInv, TypeOK, AtMostOneEffect
  <2>10. UNCHANGED <<bound, ledger, effects>> /\ holder' = None
    BY <1>16 DEF FinishOperation
  <2> HIDE DEF finished, outcome
  <2> QED
    BY <2>2, <2>3, <2>4, <2>6, <2>7, <2>8, <2>9, <2>10, OneJobMoves
<1>17. ASSUME NEW j \in Jobs, Abandon(j) PROVE IInv'
  <2>1. /\ job' \in [Jobs -> Job]
        /\ \A k \in Jobs \ {j} : job'[k] = job[k]
        /\ job'[j] = Idle
    BY <1>17 DEF Abandon, Return, IInv, TypeOK, Idle, NoClaim, Job, PC, Outcome
  <2>2. TypeOK'
    BY <1>17, <2>1 DEF Abandon, IInv, TypeOK
  <2>3. Owns(j)' /\ Assigned(j)' /\ KeepsClaim(j)' /\ KnowsEffect(j)'
    <3>1. job'[j].pc = "idle"
      BY <2>1 DEF Idle
    <3>2. holder' # j
      BY <1>17, ConstantsAssumption DEF Abandon
    <3>3. Owns(j)'
      BY <3>1, <3>2 DEF Owns, Owning
    <3>4. Assigned(j)' /\ KeepsClaim(j)' /\ KnowsEffect(j)'
      BY <3>1 DEF Assigned, KeepsClaim, KnowsEffect
    <3> QED
      BY <3>3, <3>4
  <2>4. ASSUME NEW k \in Jobs \ {j} PROVE Owns(k)' /\ Assigned(k)' /\ KeepsClaim(k)' /\ KnowsEffect(k)'
    <3>1. Owns(k) /\ Assigned(k) /\ KeepsClaim(k) /\ KnowsEffect(k)
      BY DEF IInv, JobInv
    <3>2. job'[k] = job[k]
      BY <2>1
    <3>3. UNCHANGED <<bound, row, effects>>
      BY <1>17 DEF Abandon
    <3>4. Owns(k)'
      BY <1>17, <3>1, <3>2 DEF Abandon, Owns, Owning
    <3>5. Assigned(k)'
      BY <3>1, <3>2, <3>3 DEF Assigned, Enqueued
    <3>6. KeepsClaim(k)' /\ KnowsEffect(k)'
      BY <3>1, <3>2, <3>3 DEF KeepsClaim, KnowsEffect
    <3> QED
      BY <3>4, <3>5, <3>6
  <2> QED
    BY <1>17, <2>2, <2>3, <2>4 DEF Abandon, IInv, JobInv, NotYetEnqueued, Enqueued,
       LedgerInv, AtMostOneEffect, ConfirmedMeansEffect, NoReplay, PendingHasBudget
<1>18. ASSUME NEW j \in Jobs, BeginIntegration(j) \/ PassChecks(j) PROVE IInv'
  <2>1. PICK pc \in {"delivering", "widened"} : job[j].pc = pc /\ Goto(j, pc)
    BY <1>18 DEF BeginIntegration, PassChecks
  <2>2. /\ \A k \in Jobs \ {j} : job'[k] = job[k]
        /\ job' \in [Jobs -> Job]
        /\ job'[j].pc = pc
        /\ job'[j].op = job[j].op
        /\ job'[j].claim = job[j].claim
    BY <2>1, GotoFacts DEF IInv, PC
  <2>3. /\ job[j].op \in Ops
        /\ Kind[job[j].op] = "integration"
        /\ \E l \in {"begun", "checked"} : ledger' = [ledger EXCEPT ![job[j].op] = l]
        /\ UNCHANGED <<rev, bound, row, retired, holder, effects>>
    BY <1>18, <2>1 DEF BeginIntegration, PassChecks, IInv, JobInv, Assigned
  <2>4. LedgerInv' /\ ledger' \in [Ops -> Ledger]
    BY <2>3 DEF IInv, LedgerInv, TypeOK, Ledger
  <2>5. TypeOK'
    BY <2>2, <2>3, <2>4 DEF IInv, TypeOK
  <2>6. holder = j
    BY <2>1 DEF IInv, JobInv, Owns, Owning
  <2>7. Owns(j)' /\ Assigned(j)' /\ KeepsClaim(j)' /\ KnowsEffect(j)'
    BY <2>1, <2>2, <2>3, <2>6 DEF IInv, JobInv, Owns, Owning, Assigned,
       KeepsClaim, KnowsEffect, Enqueued
  <2>8. \A o \in Ops : effects'[o] <= 1 /\ effects[o] <= effects'[o]
    BY <2>3 DEF IInv, TypeOK, AtMostOneEffect
  <2> QED
    BY <2>2, <2>3, <2>4, <2>5, <2>6, <2>7, <2>8, OneJobMoves
<1>19. ASSUME NEW op \in Ops, PublishRef(op) PROVE IInv'
  <2>1. /\ UNCHANGED <<rev, bound, row, retired, holder, job, ledger>>
        /\ effects \in [Ops -> Nat]
        /\ effects[op] = 0
        /\ effects' = [effects EXCEPT ![op] = effects[op] + 1]
    BY <1>19 DEF PublishRef, IInv, TypeOK
  <2>2. Kind[op] \in ResultKinds
    BY <1>19 DEF PublishRef, IInv, LedgerInv, ResultKinds
  <2>3. /\ effects' \in [Ops -> Nat]
        /\ effects'[op] = 1
        /\ \A o \in Ops \ {op} : effects'[o] = effects[o]
    BY <2>1
  <2>4. TypeOK'
    BY <2>1, <2>3 DEF IInv, TypeOK
  <2>5. \A j \in Jobs : Owns(j)' /\ Assigned(j)' /\ KeepsClaim(j)'
    BY <2>1 DEF IInv, JobInv, Owns, Assigned, KeepsClaim, Enqueued
  <2>6. ASSUME NEW j \in Jobs PROVE KnowsEffect(j)'
    <3>1. KnowsEffect(j) /\ Assigned(j)
      BY DEF IInv, JobInv
    <3>2. CASE job[j].pc = "idle"
      BY <2>1, <3>2 DEF KnowsEffect
    <3>3. CASE job[j].pc # "idle"
      <4>1. job[j].op \in Ops
        BY <3>1, <3>3 DEF Assigned
      <4> QED BY <2>1, <2>2, <2>3, <3>1, <4>1 DEF KnowsEffect
    <3> QED BY <3>2, <3>3
  <2>7. NotYetEnqueued' /\ LedgerInv' /\ AtMostOneEffect' /\ ConfirmedMeansEffect'
    BY <2>1, <2>3 DEF IInv, NotYetEnqueued, Enqueued, LedgerInv, AtMostOneEffect,
       ConfirmedMeansEffect
  <2>8. NoReplay' /\ PendingHasBudget'
    BY <2>1, <2>2, <2>3 DEF IInv, NoReplay, PendingHasBudget
  <2> QED BY <2>4, <2>5, <2>6, <2>7, <2>8 DEF IInv, JobInv
<1>20. ASSUME NEW j \in Jobs, SettleIntegration(j) PROVE IInv'
  <2> DEFINE op == job[j].op
             pc == job[j].pc
             next == IF pc = "observing" THEN "observed" ELSE "finishing"
             late == LeaseOver(j)
  <2>1. PICK l \in Resumed(op) : \E outcome \in Answers(op, pc, l) :
           /\ ledger' = [ledger EXCEPT ![op] = l]
           /\ job' = [job EXCEPT ![j].pc = next, ![j].late = late, ![j].outcome = outcome]
    BY <1>20 DEF SettleIntegration
  <2>2. PICK outcome \in Answers(op, pc, l) :
           /\ ledger' = [ledger EXCEPT ![op] = l]
           /\ job' = [job EXCEPT ![j].pc = next, ![j].late = late, ![j].outcome = outcome]
    BY <2>1
  <2>3. /\ pc \in {"delivering", "widened", "observing"}
        /\ Kind[op] = "integration"
        /\ UNCHANGED <<rev, bound, row, retired, holder, effects>>
    BY <1>20 DEF SettleIntegration
  <2>4. Owns(j) /\ Assigned(j) /\ KeepsClaim(j) /\ KnowsEffect(j)
    BY DEF IInv, JobInv
  <2>5. op \in Ops /\ holder = j
    BY <2>3, <2>4 DEF Assigned, Owns, Owning
  <2>6. l \in Ledger /\ (l = "integrated" => effects[op] = 1)
    BY <2>1, <2>5, SettledIsPublished
  <2>7. outcome \in Outcome /\ (outcome = "confirmed" => effects[op] = 1)
    BY <2>2, <2>6 DEF Answers, Outcome, Ledger
  <2>8. /\ \A k \in Jobs \ {j} : job'[k] = job[k]
        /\ job' \in [Jobs -> Job]
        /\ job'[j].pc = next
        /\ job'[j].op = op
        /\ job'[j].expected = job[j].expected
        /\ job'[j].outcome = outcome
    <3>1. late \in BOOLEAN /\ next \in PC
      BY DEF LeaseOver, PC
    <3> HIDE DEF late, next
    <3>2. TypeOK /\ job[j] \in Job
      BY DEF IInv, TypeOK
    <3> DEFINE new == [job[j] EXCEPT !.pc = next, !.late = late, !.outcome = outcome]
    <3>3. job' = [job EXCEPT ![j] = new]
      BY <2>2
    <3>4. /\ new \in Job
          /\ new.pc = next /\ new.op = op /\ new.expected = job[j].expected
          /\ new.outcome = outcome
      BY <2>7, <3>1, <3>2 DEF Job
    <3> HIDE DEF new
    <3> QED BY <3>2, <3>3, <3>4, JobReplaced
  <2>9. LedgerInv' /\ ledger' \in [Ops -> Ledger]
    BY <2>2, <2>3, <2>5, <2>6 DEF IInv, LedgerInv, TypeOK
  <2>10. TypeOK'
    BY <2>3, <2>8, <2>9 DEF IInv, TypeOK
  <2>11. Owns(j)' /\ Assigned(j)'
    BY <2>3, <2>4, <2>5, <2>8 DEF Owns, Owning, Assigned, Enqueued, ResultKinds
  <2>12. KeepsClaim(j)' /\ KnowsEffect(j)'
    BY <2>3, <2>4, <2>7, <2>8 DEF KeepsClaim, KnowsEffect, ResultKinds
  <2>13. \A o \in Ops : effects'[o] <= 1 /\ effects[o] <= effects'[o]
    BY <2>3, SameEffects
  <2> HIDE DEF next, late
  <2> QED
    BY <2>3, <2>5, <2>8, <2>9, <2>10, <2>11, <2>12, <2>13, OneJobMoves
<1>21. ASSUME NEW op \in Ops, ReconcileProject(op) PROVE IInv'
  <2>1. PICK l \in Resumed(op) : ledger' = [ledger EXCEPT ![op] = l] /\ l # ledger[op]
    BY <1>21 DEF ReconcileProject
  <2>2. /\ UNCHANGED <<rev, bound, row, retired, holder, job, effects>>
        /\ Kind[op] = "integration"
    BY <1>21, <2>1 DEF ReconcileProject, Resumed, IInv, LedgerInv
  <2>3. l \in Ledger /\ (l = "integrated" => effects[op] = 1)
    BY <2>1, SettledIsPublished
  <2>4. LedgerInv' /\ ledger' \in [Ops -> Ledger]
    BY <2>1, <2>2, <2>3 DEF IInv, LedgerInv, TypeOK
  <2>5. TypeOK'
    BY <2>2, <2>4 DEF IInv, TypeOK
  <2>6. JobInv'
    BY <2>2 DEF IInv, JobInv, Owns, Assigned, KeepsClaim, KnowsEffect, Enqueued
  <2> QED
    BY <2>2, <2>4, <2>5, <2>6 DEF IInv, NotYetEnqueued, Enqueued,
       AtMostOneEffect, ConfirmedMeansEffect, NoReplay, PendingHasBudget
<1>22. ASSUME NEW j \in Jobs, LookUpRun(j) PROVE IInv'
  <2> DEFINE op == job[j].op
             outcome == IF Recorded(op) THEN "confirmed" ELSE "retryable"
             new == [job[j] EXCEPT !.pc = "observed", !.outcome = outcome]
  <2>1. Owns(j) /\ Assigned(j) /\ KeepsClaim(j)
    BY DEF IInv, JobInv
  <2>2. /\ job[j].pc = "observing"
        /\ Kind[op] = "verification"
        /\ UNCHANGED <<rev, bound, row, retired, holder, ledger, effects>>
        /\ job' = [job EXCEPT ![j] = new]
    BY <1>22 DEF LookUpRun
  <2>3. op \in Ops /\ holder = j
    BY <2>1, <2>2 DEF Assigned, Owns, Owning
  <2>4. outcome \in Outcome /\ (outcome = "confirmed" => effects[op] = 1)
    BY <2>2, <2>3 DEF Recorded, Outcome, IInv, TypeOK, AtMostOneEffect
  <2>5. /\ new \in Job
        /\ new.pc = "observed" /\ new.op = op /\ new.expected = job[j].expected
        /\ new.outcome = outcome
    <3>1. job[j] \in Job /\ "observed" \in PC
      BY DEF IInv, TypeOK, PC
    <3> HIDE DEF outcome
    <3> QED BY <2>4, <3>1 DEF Job
  <2> HIDE DEF new, outcome
  <2>6. /\ \A k \in Jobs \ {j} : job'[k] = job[k]
        /\ job' \in [Jobs -> Job]
        /\ job'[j] = new
    BY <2>2, <2>5 DEF IInv, TypeOK
  <2>7. TypeOK'
    BY <2>2, <2>6 DEF IInv, TypeOK
  <2>8. Owns(j)' /\ Assigned(j)'
    BY <2>1, <2>2, <2>3, <2>5, <2>6 DEF Owns, Owning, Assigned, Enqueued, ResultKinds
  <2>9. KeepsClaim(j)' /\ KnowsEffect(j)'
    BY <2>1, <2>2, <2>4, <2>5, <2>6 DEF KeepsClaim, KnowsEffect, ResultKinds
  <2> QED
    BY <2>2, <2>3, <2>6, <2>7, <2>8, <2>9, OneJobSteps
<1>23. ASSUME NEW j \in Jobs, ObserveOperation(j) PROVE IInv'
  <2> DEFINE op == job[j].op
             outcome == job[j].outcome
             observed == UpdateOutcome(row[op], outcome)
  <2>1. Owns(j) /\ Assigned(j) /\ KnowsEffect(j)
    BY DEF IInv, JobInv
  <2>2. /\ op \in Ops
        /\ Enqueued(op)
        /\ Kind[op] \in ResultKinds
        /\ row[op] \in Row
        /\ outcome \in Outcome
        /\ holder = j
    BY <1>23, <2>1 DEF ObserveOperation, Assigned, Owns, Owning, IInv, TypeOK, Job
  <2>3. /\ job' \in [Jobs -> Job]
        /\ \A k \in Jobs \ {j} : job'[k] = job[k]
        /\ job'[j] = Idle
    BY <1>23 DEF ObserveOperation, Return, IInv, TypeOK, Idle, NoClaim, Job, PC, Outcome
  <2>4. /\ row' \in [Ops -> Row]
        /\ row'[op] = observed
        /\ \A o \in Ops \ {op} : row'[o] = row[o]
    BY <1>23, <2>2, OutcomeFacts DEF ObserveOperation, IInv, TypeOK
  <2>5. UNCHANGED <<rev, bound, retired, ledger, effects>> /\ holder' = None
    BY <1>23 DEF ObserveOperation
  <2>6. TypeOK'
    BY <2>3, <2>4, <2>5 DEF IInv, TypeOK
  <2>7. Owns(j)' /\ Assigned(j)' /\ KeepsClaim(j)' /\ KnowsEffect(j)'
    <3>1. job'[j].pc = "idle"
      BY <2>3 DEF Idle
    <3>2. Owns(j)'
      BY <2>5, <3>1, ConstantsAssumption DEF Owns, Owning
    <3>3. Assigned(j)' /\ KeepsClaim(j)' /\ KnowsEffect(j)'
      BY <3>1 DEF Assigned, KeepsClaim, KnowsEffect
    <3> QED BY <3>2, <3>3
  <2>8. /\ observed.state = "confirmed" => effects[op] = 1
        /\ observed.state = "pending" => observed.attempts < MaxAttempts
    BY <1>23, <2>1, <2>2, OutcomeFacts DEF ObserveOperation, KnowsEffect
  <2>9. \A o \in Ops : effects[o] <= 1 /\ effects[o] <= effects[o]
    BY DEF IInv, TypeOK, AtMostOneEffect
  <2> HIDE DEF observed, outcome
  <2> QED
    BY <2>2, <2>3, <2>4, <2>5, <2>6, <2>7, <2>8, <2>9, OneJobMoves
<1> QED
  BY <1>1, <1>2, <1>3, <1>4, <1>5, <1>6, <1>7, <1>8, <1>9, <1>10, <1>11, <1>12,
     <1>13, <1>14, <1>15, <1>16, <1>17, <1>18, <1>19, <1>20, <1>21, <1>22, <1>23
  DEF Next, JobStep, Proceed

\* The inductive invariant holds in every reachable state.
THEOREM InductiveInvariant == Spec => []IInv
BY InitIInv, NextIInv, PTL DEF Spec

\* The types of the variables, for every value of the constants.
THEOREM TypeCorrect == Spec => []TypeOK
<1>1. IInv => TypeOK
  BY DEF IInv
<1> QED BY <1>1, InductiveInvariant, PTL

\* The effect of every operation is made at most once, and a delivery is
\* confirmed only if it was made.
THEOREM EffectsAreSound == Spec => [](AtMostOneEffect /\ ConfirmedMeansEffect)
<1>1. IInv => AtMostOneEffect /\ ConfirmedMeansEffect
  BY DEF IInv
<1> QED BY <1>1, InductiveInvariant, PTL

\* No operation outside the result lane is offered again after its effect.
THEOREM NothingReplayed == Spec => []NoReplay
<1>1. IInv => NoReplay
  BY DEF IInv
<1> QED BY <1>1, InductiveInvariant, PTL

\* The claim of a job stands in the store while it may make the effect.
THEOREM EffectsAreFenced == Spec => []EffectIsFenced
<1>1. IInv => EffectIsFenced
  BY DEF IInv, JobInv, Owns, Owning, KeepsClaim, EffectIsFenced
<1> QED BY <1>1, InductiveInvariant, PTL

\* A pending row always has retry budget left.
THEOREM BudgetKept == Spec => []PendingHasBudget
<1>1. IInv => PendingHasBudget
  BY DEF IInv
<1> QED BY <1>1, InductiveInvariant, PTL

-----------------------------------------------------------------------------
\* No step confirms a delivery for a task that changed.
LEMMA StepIsCurrent == IInv /\ [Next]_vars => [CompletionIsCurrent]_vars
<1> SUFFICES ASSUME IInv, Next, NEW o \in Ops,
                    row[o].state # "confirmed", row'[o].state = "confirmed",
                    \/ row[o].state = "claimed" /\ Kind[o] # "routine"
                    \/ Kind[o] = "finalization"
             PROVE  BindingCurrent(o)
  BY DEF CompletionIsCurrent
<1> USE ConstantsAssumption
<1>1. /\ row \in [Ops -> Row]
      /\ \A j \in Jobs : job[j].outcome \in Outcome
  BY DEF IInv, TypeOK, Job
<1>2. ~UNCHANGED row
  OBVIOUS
<1>3. CASE \E j \in Jobs : JobStep(j)
  <2>1. PICK j \in Jobs : JobStep(j)
    BY <1>3
  <2>2. CASE ClaimOperation(j)
    <3>1. row' = [row EXCEPT ![job[j].op] = ClaimRow(row[job[j].op])]
      BY <2>2 DEF ClaimOperation
    <3>2. o = job[j].op
      BY <1>1, <3>1
    <3> QED BY <1>1, <3>1, <3>2 DEF ClaimRow, Row
  <2>3. CASE FinishOperation(j)
    <3>1. o = job[j].op
      BY <1>1, <2>3 DEF FinishOperation
    <3> QED BY <2>3, <3>1 DEF FinishOperation, ClaimStands
  <2>4. CASE ObserveOperation(j)
    <3>1. o = job[j].op /\ row[o].state = "ambiguous"
      BY <1>1, <2>4 DEF ObserveOperation
    <3>2. Kind[o] \in ResultKinds
      BY <2>4, <3>1 DEF ObserveOperation, IInv, JobInv, Assigned
    <3> QED BY <3>1, <3>2 DEF ResultKinds
  <2> QED
    BY <1>2, <2>1, <2>2, <2>3, <2>4
    DEF JobStep, Proceed, Withdraw, ValidateClaim, ShowNotification, CaptureFinalization,
        RunRoutine, RecordRun, BeginIntegration, Release, Reacquire, PassChecks,
        SettleIntegration, LookUpRun, Abandon
<1>4. CASE ExpireClaims
  <2>1. row[o].state = "claimed" /\ row'[o] = ExpireRow(row[o])
    BY <1>4 DEF ExpireClaims
  <2>2. [row[o] EXCEPT !.epoch = @ + 1] \in Row
    BY <1>1 DEF Row
  <2> QED BY <2>1, <2>2, OutcomeFacts DEF ExpireRow, Outcome
<1>5. ASSUME NEW op \in Ops,
             \/ Enqueue(op) \/ Tick(op) \/ ObserveFinalization(op)
             \/ RetireOperation(op) \/ RetireStale(op) \/ ResetResultJob(op)
      PROVE  BindingCurrent(o)
  <2>1. o = op
    BY <1>1, <1>5 DEF Enqueue, Tick, ObserveFinalization, RetireOperation,
       RetireStale, ResetResultJob
  <2>2. CASE Enqueue(op) \/ Tick(op) \/ ResetResultJob(op)
    <3>1. row'[o] \in {NewRow, [row[o] EXCEPT !.ripe = TRUE], ResetRow(row[o])}
      BY <1>1, <2>1, <2>2 DEF Enqueue, Tick, ResetResultJob
    <3>2. /\ NewRow.state # "confirmed"
          /\ [row[o] EXCEPT !.ripe = TRUE].state = row[o].state
          /\ ResetRow(row[o]).state # "confirmed"
      BY <1>1 DEF ResetRow, NewRow, Row
    <3> QED BY <3>1, <3>2
  <2>3. CASE RetireOperation(op) \/ RetireStale(op)
    <3>1. row'[o] = UpdateOutcome(row[o], "permanent_failure")
      BY <1>1, <2>1, <2>3 DEF RetireOperation, RetireStale
    <3>2. row[o] \in Row /\ "permanent_failure" \in Outcome
      BY <1>1 DEF Outcome
    <3>3. UpdateOutcome(row[o], "permanent_failure").state # "confirmed"
      BY <3>2, OutcomeFacts
    <3> QED BY <3>1, <3>3
  <2>4. CASE ObserveFinalization(op)
    BY <2>1, <2>4 DEF ObserveFinalization
  <2> QED BY <1>5, <2>2, <2>3, <2>4
<1> QED
  BY <1>2, <1>3, <1>4, <1>5
  DEF Next, ChangeScope, Select, PublishRef, ReconcileProject, ObserveResult

\* Completions are current in every behaviour.
THEOREM CompletionsAreCurrent == Spec => NoStaleCompletion
BY InductiveInvariant, StepIsCurrent, PTL DEF Spec, NoStaleCompletion

-----------------------------------------------------------------------------
\* The refinement of DeliveryPromise

VerdictOf == [op \in Ops |-> Verdict(row[op].state)]

\* One row changes and no effect is made: the verdict of that operation moves
\* as the promise allows.
LEMMA RowStepKeepsPromise ==
    ASSUME IInv, NEW op \in Ops, NEW new \in Row,
           row' = [row EXCEPT ![op] = new], UNCHANGED effects,
           \/ Verdict(new.state) = Verdict(row[op].state)
           \/ Verdict(row[op].state) = "open" /\ new.state = "confirmed" /\ effects[op] = 1
           \/ Verdict(row[op].state) = "open" /\ new.state = "permanent_failure"
           \/ /\ Kind[op] \in ResultKinds
              /\ row[op].state = "permanent_failure"
              /\ Verdict(new.state) = "open"
    PROVE  [Promise!Next]_(Promise!vars)
<1>1. /\ VerdictOf' = [VerdictOf EXCEPT ![op] = Verdict(new.state)]
      /\ VerdictOf[op] = Verdict(row[op].state)
  BY DEF VerdictOf, IInv, TypeOK
<1>2. CASE Verdict(new.state) = Verdict(row[op].state)
  <2>1. VerdictOf' = VerdictOf
    BY <1>1, <1>2 DEF VerdictOf
  <2> QED BY <2>1 DEF Promise!vars, VerdictOf
<1>3. CASE Verdict(row[op].state) = "open" /\ new.state = "confirmed" /\ effects[op] = 1
  <2>1. Promise!Confirm(op)
    BY <1>1, <1>3 DEF Promise!Confirm, Verdict, VerdictOf
  <2> QED BY <2>1 DEF Promise!Next
<1>4. CASE Verdict(row[op].state) = "open" /\ new.state = "permanent_failure"
  <2>1. Promise!Fail(op)
    BY <1>1, <1>4 DEF Promise!Fail, Verdict, VerdictOf
  <2> QED BY <2>1 DEF Promise!Next
<1>5. CASE Kind[op] \in ResultKinds /\ row[op].state = "permanent_failure" /\ Verdict(new.state) = "open"
  <2>1. Promise!Reopen(op)
    BY <1>1, <1>5 DEF Promise!Reopen, Verdict, VerdictOf
  <2> QED BY <2>1 DEF Promise!Next
<1> QED BY <1>2, <1>3, <1>4, <1>5

\* Every step of the delivery is a step of the promise or leaves it alone.
LEMMA StepKeepsPromise == IInv /\ [Next]_vars => [Promise!Next]_(Promise!vars)
<1> SUFFICES ASSUME IInv, [Next]_vars PROVE [Promise!Next]_(Promise!vars)
  OBVIOUS
<1> USE ConstantsAssumption
<1>1. /\ row \in [Ops -> Row]
      /\ effects \in [Ops -> Nat]
      /\ \A j \in Jobs : job[j].outcome \in Outcome
  BY DEF IInv, TypeOK, Job
<1>2. CASE UNCHANGED <<row, effects>>
  BY <1>2 DEF Promise!vars
<1>3. ASSUME NEW j \in Jobs, JobStep(j) PROVE [Promise!Next]_(Promise!vars)
  <2> DEFINE op == job[j].op
  <2>1. Owns(j) /\ Assigned(j) /\ KeepsClaim(j) /\ KnowsEffect(j)
    BY DEF IInv, JobInv
  <2>2. CASE ClaimOperation(j)
    <3>1. /\ op \in Ops
          /\ row[op].state = "pending"
          /\ row' = [row EXCEPT ![op] = ClaimRow(row[op])]
          /\ UNCHANGED effects
      BY <2>1, <2>2 DEF ClaimOperation, Claimable, Assigned
    <3>2. ClaimRow(row[op]) \in Row
      BY <1>1, <3>1, RowOperators
    <3>3. ClaimRow(row[op]).state = "claimed"
      BY <1>1, <3>1 DEF ClaimRow, Row
    <3> QED BY <3>1, <3>2, <3>3, RowStepKeepsPromise DEF Verdict
  <2>3. CASE FinishOperation(j)
    <3>1. /\ op \in Ops
          /\ row[op].state = "claimed"
          /\ row' = [row EXCEPT ![op] = UpdateOutcome(row[op], job[j].outcome)]
          /\ UNCHANGED effects
          /\ job[j].outcome = "confirmed" => effects[op] = 1
      BY <2>1, <2>3 DEF FinishOperation, ClaimStands, Holds, Assigned, KnowsEffect
    <3>2. /\ UpdateOutcome(row[op], job[j].outcome) \in Row
          /\ UpdateOutcome(row[op], job[j].outcome).state = "confirmed" => effects[op] = 1
      <4>1. row[op] \in Row /\ job[j].outcome \in Outcome
        BY <1>1, <3>1
      <4> HIDE DEF op
      <4>2. /\ UpdateOutcome(row[op], job[j].outcome) \in Row
            /\ UpdateOutcome(row[op], job[j].outcome).state = "confirmed" => job[j].outcome = "confirmed"
        BY <4>1, OutcomeFacts
      <4> QED BY <3>1, <4>2
    <3> QED BY <3>1, <3>2, RowStepKeepsPromise DEF Verdict, Row, DeliveryState
  <2>4. CASE ObserveOperation(j)
    <3>1. /\ op \in Ops
          /\ row[op].state = "ambiguous"
          /\ row' = [row EXCEPT ![op] = UpdateOutcome(row[op], job[j].outcome)]
          /\ UNCHANGED effects
          /\ job[j].outcome = "confirmed" => effects[op] = 1
      BY <2>1, <2>4 DEF ObserveOperation, Assigned, KnowsEffect
    <3>2. /\ UpdateOutcome(row[op], job[j].outcome) \in Row
          /\ UpdateOutcome(row[op], job[j].outcome).state = "confirmed" => effects[op] = 1
      <4>1. row[op] \in Row /\ job[j].outcome \in Outcome
        BY <1>1, <3>1
      <4> HIDE DEF op
      <4>2. /\ UpdateOutcome(row[op], job[j].outcome) \in Row
            /\ UpdateOutcome(row[op], job[j].outcome).state = "confirmed" => job[j].outcome = "confirmed"
        BY <4>1, OutcomeFacts
      <4> QED BY <3>1, <4>2
    <3> QED BY <3>1, <3>2, RowStepKeepsPromise DEF Verdict, Row, DeliveryState
  <2>5. ASSUME Withdraw(j) \/ ShowNotification(j) \/ CaptureFinalization(j) \/ RunRoutine(j)
                 \/ RecordRun(j) \/ Reacquire(j)
        PROVE  [Promise!Next]_(Promise!vars)
    <3>1. UNCHANGED row /\ (UNCHANGED effects \/ effects' = [effects EXCEPT ![op] = @ + 1])
      BY <2>5 DEF Withdraw, ShowNotification, CaptureFinalization, RunRoutine, RecordRun,
         Reacquire, Delivered
    <3>2. CASE UNCHANGED effects
      BY <1>2, <3>1, <3>2
    <3>3. CASE ~UNCHANGED effects
      <4>1. /\ op \in Ops
            /\ row[op].state = "claimed"
            /\ effects[op] = 0
        BY <2>1, <2>5, <3>3 DEF Withdraw, ShowNotification, CaptureFinalization, RunRoutine,
           RecordRun, Reacquire, Delivered, Assigned, KeepsClaim, KnowsEffect, Holds, ResultKinds
      <4>2. Promise!Perform(op)
        BY <1>1, <3>1, <3>3, <4>1 DEF Promise!Perform, Verdict
      <4> QED BY <4>1, <4>2 DEF Promise!Next
    <3> QED BY <3>2, <3>3
  <2> QED
    BY <1>2, <1>3, <2>2, <2>3, <2>4, <2>5
    DEF JobStep, Proceed, ValidateClaim, BeginIntegration, Release, PassChecks,
        SettleIntegration, LookUpRun, Abandon
<1>4. CASE ExpireClaims
  <2>1. \A op \in Ops : Verdict(row'[op].state) = Verdict(row[op].state)
    <3> SUFFICES ASSUME NEW op \in Ops, row'[op] # row[op]
                 PROVE  Verdict(row'[op].state) = Verdict(row[op].state)
      OBVIOUS
    <3>1. row[op].state = "claimed" /\ row'[op] = ExpireRow(row[op])
      BY <1>4 DEF ExpireClaims
    <3>2. ExpireRow(row[op]).state = "ambiguous"
      BY <1>1 DEF ExpireRow, UpdateOutcome, OutcomeState, Row
    <3> QED BY <3>1, <3>2 DEF Verdict
  <2>2. VerdictOf' = VerdictOf
    BY <2>1 DEF VerdictOf
  <2> QED BY <1>4, <2>2 DEF ExpireClaims, Promise!vars, VerdictOf
<1>5. ASSUME NEW op \in Ops,
             \/ Enqueue(op) \/ Tick(op) \/ ObserveFinalization(op)
             \/ RetireOperation(op) \/ RetireStale(op) \/ ResetResultJob(op)
      PROVE  [Promise!Next]_(Promise!vars)
  <2> DEFINE Keeps(new) ==
               /\ new \in Row
               /\ row' = [row EXCEPT ![op] = new]
               /\ \/ Verdict(new.state) = Verdict(row[op].state)
                  \/ Verdict(row[op].state) = "open" /\ new.state = "confirmed" /\ effects[op] = 1
                  \/ Verdict(row[op].state) = "open" /\ new.state = "permanent_failure"
                  \/ /\ Kind[op] \in ResultKinds
                     /\ row[op].state = "permanent_failure"
                     /\ Verdict(new.state) = "open"
  <2>1. UNCHANGED effects
    BY <1>5 DEF Enqueue, Tick, ObserveFinalization, RetireOperation,
       RetireStale, ResetResultJob
  <2>2. effects[op] # 0 => effects[op] = 1
    BY <1>1 DEF IInv, AtMostOneEffect
  <2>3. CASE Enqueue(op)
    BY <1>2, <2>3 DEF Enqueue, IInv, NotYetEnqueued, TypeOK
  <2>4. CASE Tick(op)
    <3>1. [row[op] EXCEPT !.ripe = TRUE] \in Row
      BY <1>1, RowOperators
    <3>2. [row[op] EXCEPT !.ripe = TRUE].state = row[op].state
      BY <1>1 DEF Row
    <3>3. row' = [row EXCEPT ![op] = [row[op] EXCEPT !.ripe = TRUE]]
      BY <2>4 DEF Tick
    <3>4. Keeps([row[op] EXCEPT !.ripe = TRUE])
      BY <3>1, <3>2, <3>3
    <3> QED BY <2>1, <3>4, RowStepKeepsPromise
  <2>5. CASE ObserveFinalization(op)
    <3>1. UpdateOutcome(row[op], "confirmed") \in Row
      BY <1>1, OutcomeFacts DEF Outcome
    <3>2. UpdateOutcome(row[op], "confirmed").state = "confirmed"
      BY <1>1 DEF UpdateOutcome, OutcomeState, Row
    <3>3. Keeps(UpdateOutcome(row[op], "confirmed"))
      BY <2>2, <2>5, <3>1, <3>2 DEF ObserveFinalization, Verdict
    <3> QED BY <2>1, <3>3, RowStepKeepsPromise
  <2>6. CASE RetireOperation(op) \/ RetireStale(op)
    <3>1. UpdateOutcome(row[op], "permanent_failure") \in Row
      BY <1>1, OutcomeFacts DEF Outcome
    <3>2. UpdateOutcome(row[op], "permanent_failure").state = "permanent_failure"
      BY <1>1 DEF UpdateOutcome, OutcomeState, Row
    <3>3. Keeps(UpdateOutcome(row[op], "permanent_failure"))
      BY <2>6, <3>1, <3>2 DEF RetireOperation, RetireStale, Verdict
    <3> QED BY <2>1, <3>3, RowStepKeepsPromise
  <2>7. CASE ResetResultJob(op)
    <3>1. ResetRow(row[op]) \in Row
      BY <1>1, RowOperators
    <3>2. ResetRow(row[op]).state = "pending"
      BY <1>1 DEF ResetRow, Row
    <3>3. Keeps(ResetRow(row[op]))
      BY <2>7, <3>1, <3>2 DEF ResetResultJob, Verdict
    <3> QED BY <2>1, <3>3, RowStepKeepsPromise
  <2> QED BY <1>5, <2>3, <2>4, <2>5, <2>6, <2>7
<1>6. ASSUME NEW op \in Ops, PublishRef(op) PROVE [Promise!Next]_(Promise!vars)
  <2>1. Kind[op] \in ResultKinds /\ row[op].state # "confirmed"
    BY <1>1, <1>6 DEF PublishRef, IInv, LedgerInv, ResultKinds, ConfirmedMeansEffect
  <2>2. Promise!Perform(op)
    BY <1>1, <1>6, <2>1 DEF PublishRef, Promise!Perform, Verdict
  <2> QED BY <2>2 DEF Promise!Next
<1> QED
  BY <1>2, <1>3, <1>4, <1>5, <1>6
  DEF Next, ChangeScope, Select, ReconcileProject, ObserveResult, vars

\* The delivery implements its promise, for every number of operations, jobs
\* and retries.
THEOREM DeliveryImplementsPromise == Spec => PromiseKept
<1>1. Init => Promise!Init
  BY DEF Init, Promise!Init, NewRow, Verdict
<1> QED
  BY <1>1, StepKeepsPromise, InductiveInvariant, PTL DEF Spec, PromiseKept, Promise!Spec
=============================================================================
