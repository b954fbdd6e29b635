-------------------------- MODULE AttemptLifecycle --------------------------
(***************************************************************************)
(* One worker attempt from its reservation to the proof of its end:        *)
(* admission, approval, the launch with its one-use boundaries, the brief, *)
(* cancellation, completion and termination (store/reservations.rs,        *)
(* store/approvals.rs, store/launch.rs, store/worktrees.rs,                *)
(* store/worker_brief.rs, store/worker_termination.rs, store/control.rs,   *)
(* store/scheduler.rs and the services of canonical_worker).               *)
(*                                                                         *)
(* Every service owns the root lock exclusively, and every command of the  *)
(* operator owns the project: they do not overlap.  A service that commits *)
(* a boundary and hands its request to the Herdr server is one step here;  *)
(* it may die between the two, the request may wait on the server or be    *)
(* lost, and the reply may never arrive.  Only two services keep the lock  *)
(* over several requests, a stock launch and a brief: `held' names their   *)
(* attempt.                                                                *)
(***************************************************************************)
EXTENDS Naturals, FiniteSets

CONSTANTS
    Tasks,
    Attempts,          \* attempts that may be admitted
    Trees,             \* may inputs pin repositories: a set of BOOLEAN
    Kinds,             \* creation intents the server supports
    MaxActiveWorkers,  \* the highest capacity a policy sets
    MaxEpoch,          \* bound: control changes
    MaxRevision,       \* bound: policy changes
    None

ASSUME AttemptAssumption ==
    /\ Trees \subseteq BOOLEAN
    /\ Kinds \subseteq {"layout", "direct", "stock"}
    /\ MaxActiveWorkers \in Nat /\ MaxEpoch \in Nat /\ MaxRevision \in Nat
    /\ None \notin Attempts \cup Tasks

BriefDeliveries == 3

VARIABLES
    control,  \* [active, epoch]: project_control
    policy,   \* [revision, max]: scheduler_policy
    task,     \* [Tasks -> [state, rev, active]]
    attempt,  \* [Attempts -> the attempt row, its requests and its inputs]
    launch,   \* [Attempts -> delivery row of runtime.launch]
    brief,    \* [Attempts -> delivery row of runtime.worker_brief]
    events,   \* [Attempts -> boundary events recorded for the launch]
    revoked,  \* attempts whose approval was revoked or has expired
    held,     \* the attempt whose service keeps the root lock, or None
    wire,     \* [Attempts -> requests the Herdr server has not executed]
    world     \* [Attempts -> what exists outside the store]

records == <<control, policy, task, attempt, launch, brief, events, revoked>>
vars == <<records, held, wire, world>>

TaskState == {"queued", "running", "blocked", "succeeded", "cancelled"}
AttemptState == {"none", "reserved", "launching", "running",
                 "completed", "failed", "cancelled"}
DeliveryState == {"none", "pending", "claimed", "ambiguous", "confirmed", "failed"}
Boundary == {"trees", "ready", "creation", "workspace", "layout", "target",
             "release", "name", "started"}
Request == {"workspace", "spawn", "line", "gate", "rename", "prompt"}

\* tried: attempts = 1; live: the lease has not run out.
NoDelivery == [state |-> "none", tried |-> FALSE, live |-> FALSE]
NoBrief == [state |-> "none", tried |-> FALSE, live |-> FALSE, rev |-> 0, sent |-> 0]
NoAttempt ==
    [state |-> "none", rev |-> 0, ended |-> FALSE, cancelled |-> FALSE, completing |-> FALSE,
     trees |-> FALSE, kind |-> None, task |-> None, taskRev |-> 0, epoch |-> 0, policy |-> 0]

\* worker: the supervisor waits at its gate, runs the agent, or has exited; it
\* never comes back.  shell: the workspace exists.  spec: the launch file exists.
\* rebooted: the host was restarted after the supervisor had been started.
NoWorld ==
    [worker |-> "absent", spawns |-> 0, shell |-> FALSE, spec |-> FALSE,
     named |-> FALSE, told |-> FALSE, rebooted |-> FALSE]

Init ==
    /\ control = [active |-> TRUE, epoch |-> 1]
    /\ policy = [revision |-> 1, max |-> MaxActiveWorkers]
    /\ task = [t \in Tasks |-> [state |-> "queued", rev |-> 1, active |-> None]]
    /\ attempt = [a \in Attempts |-> NoAttempt]
    /\ launch = [a \in Attempts |-> NoDelivery]
    /\ brief = [a \in Attempts |-> NoBrief]
    /\ events = [a \in Attempts |-> {}]
    /\ revoked = {}
    /\ held = None
    /\ wire = [a \in Attempts |-> {}]
    /\ world = [a \in Attempts |-> NoWorld]

-----------------------------------------------------------------------------
\* Views of the store

Idle == held = None

Retains(a) == attempt[a].state # "none" /\ ~attempt[a].ended

Retained == {a \in Attempts : Retains(a)}

Active(a) == \E t \in Tasks : t = attempt[a].task /\ task[t].active = a

Unresolved(d) == d.state \in {"pending", "claimed", "ambiguous"}

\* check_launch: the reservation is untouched and every authority it was
\* approved under still stands.  Any request to the attempt moves its revision.
CheckLaunch(a) ==
    /\ attempt[a].rev = 1 /\ attempt[a].state = "reserved" /\ Retains(a)
    /\ task[attempt[a].task].state = "running" /\ Active(a)
    /\ task[attempt[a].task].rev = attempt[a].taskRev + 1
    /\ a \notin revoked
    /\ control.active /\ control.epoch = attempt[a].epoch
    /\ policy.revision = attempt[a].policy

\* validate_claim with validate_use, immediately before an effect.
ClaimStands(a) ==
    /\ launch[a].state = "claimed" /\ launch[a].live
    /\ CheckLaunch(a)

\* context, authority and check of a worker brief.
CheckBrief(a) ==
    /\ launch[a].state = "confirmed"
    /\ Retains(a) /\ attempt[a].state = "launching"
    /\ Active(a) /\ task[attempt[a].task].state = "running"
    /\ control.active /\ control.epoch = attempt[a].epoch
    /\ ~attempt[a].cancelled /\ ~attempt[a].completing
    /\ a \notin revoked

\* claim_operation of a launch or a brief, both of which are claimed once.
Claim(d) == [d EXCEPT !.state = "claimed", !.tried = TRUE, !.live = TRUE]

\* update_outcome
Resolve(d, state) == [d EXCEPT !.state = state, !.live = FALSE]

\* A request handed to the server, or none: the service died in between.
Send(a, request) ==
    wire' \in {[wire EXCEPT ![a] = @ \cup {request}], wire}

\* Mutant: the task keeps its attempt.
EndAttemptOnly(a, state, taskState) ==
    /\ attempt' = [attempt EXCEPT ![a].rev = @ + 1, ![a].state = state, ![a].ended = TRUE]
    /\ task' = [task EXCEPT ![attempt[a].task].state = taskState, ![attempt[a].task].rev = @ + 1]

\* The end of an attempt in the store: capacity is released and the task is
\* freed at its next revision.
End(a, state, taskState) ==
    /\ attempt' = [attempt EXCEPT ![a].rev = @ + 1, ![a].state = state, ![a].ended = TRUE]
    /\ task' = [task EXCEPT ![attempt[a].task] =
                    [state |-> taskState, rev |-> @.rev + 1, active |-> None]]

-----------------------------------------------------------------------------
\* Commands of the operator and of the scheduler

\* set_project_state(Paused) and invalidate, which also moves the epoch of a
\* paused project: every authority of the epoch ends.
Pause ==
    /\ Idle /\ control.epoch < MaxEpoch
    /\ control' = [active |-> FALSE, epoch |-> control.epoch + 1]
    /\ UNCHANGED <<policy, task, attempt, launch, brief, events, revoked, held, wire, world>>

\* Mutant: a project may resume once its deliveries are finished.
ResumeDelivered ==
    /\ Idle /\ control.epoch < MaxEpoch
    /\ \A a \in Attempts : ~Unresolved(launch[a]) /\ ~Unresolved(brief[a])
    /\ control' = [active |-> TRUE, epoch |-> control.epoch + 1]
    /\ UNCHANGED <<policy, task, attempt, launch, brief, events, revoked, held, wire, world>>

\* set_project_state(Active), of a paused project or with another configuration:
\* blockers wants no unfinished delivery and every retained worker briefed and
\* observed, though it may have exited since the observation (thirty seconds).
Resume ==
    /\ Idle /\ control.epoch < MaxEpoch
    /\ \A a \in Attempts : ~Unresolved(launch[a]) /\ ~Unresolved(brief[a])
    /\ \A a \in Retained :
          attempt[a].state = "running" /\ Active(a) /\ world[a].worker \in {"agent", "exited"}
    /\ \A t \in Tasks : task[t].state = "running" => task[t].active # None
    /\ control' = [active |-> TRUE, epoch |-> control.epoch + 1]
    /\ UNCHANGED <<policy, task, attempt, launch, brief, events, revoked, held, wire, world>>

\* set_scheduler_policy: a new capacity, or only a new limit of attempts per task.
SetSchedulerPolicy ==
    /\ Idle /\ policy.revision < MaxRevision
    /\ \E max \in 0 .. MaxActiveWorkers :
          policy' = [revision |-> policy.revision + 1, max |-> max]
    /\ UNCHANGED <<control, task, attempt, launch, brief, events, revoked, held, wire, world>>

\* revoke_approval, or the clock passes the end of the grant.
RevokeApproval(a) ==
    /\ attempt[a].state # "none" /\ a \notin revoked
    /\ revoked' = revoked \cup {a}
    /\ UNCHANGED <<control, policy, task, attempt, launch, brief, events, held, wire, world>>

\* queue_task of a task that is not queued (the others change nothing here).
QueueTask(t) ==
    /\ Idle
    /\ task[t].active = None /\ task[t].state = "blocked"
    /\ \A a \in Retained : attempt[a].task # t
    /\ task' = [task EXCEPT ![t].state = "queued", ![t].rev = @ + 1]
    /\ UNCHANGED <<control, policy, attempt, launch, brief, events, revoked, held, wire, world>>

\* Mutant: only attempts of the running tasks are counted.
AdmitPreparedLaunched(a, t) ==
    /\ Idle
    /\ attempt[a].state = "none"
    /\ control.active
    /\ Cardinality({b \in Retained : "started" \in events[b]}) < policy.max
    /\ task[t].state = "queued" /\ task[t].active = None
    /\ \A b \in Retained : attempt[b].task # t
    /\ \E trees \in Trees : attempt' = [attempt EXCEPT ![a] =
          [NoAttempt EXCEPT !.state = "reserved", !.rev = 1,
                            !.task = t, !.taskRev = task[t].rev, !.trees = trees,
                            !.epoch = control.epoch, !.policy = policy.revision]]
    /\ task' = [task EXCEPT ![t] =
          [state |-> "running", rev |-> @.rev + 1, active |-> a]]
    /\ launch' = [launch EXCEPT ![a].state = "pending"]
    /\ UNCHANGED <<control, policy, brief, events, revoked, held, wire, world>>

\* admit_prepared: reserve capacity, bind the inputs, enqueue the launch.
AdmitPrepared(a, t) ==
    /\ Idle
    /\ attempt[a].state = "none"
    /\ control.active
    /\ Cardinality(Retained) < policy.max
    /\ task[t].state = "queued" /\ task[t].active = None
    /\ \A b \in Retained : attempt[b].task # t
    /\ \E trees \in Trees : attempt' = [attempt EXCEPT ![a] =
          [NoAttempt EXCEPT !.state = "reserved", !.rev = 1,
                            !.task = t, !.taskRev = task[t].rev, !.trees = trees,
                            !.epoch = control.epoch, !.policy = policy.revision]]
    /\ task' = [task EXCEPT ![t] =
          [state |-> "running", rev |-> @.rev + 1, active |-> a]]
    /\ launch' = [launch EXCEPT ![a].state = "pending"]
    /\ UNCHANGED <<control, policy, brief, events, revoked, held, wire, world>>

\* Mutant: a launch without a selected target counts as never started.
NeverClaimedTarget(a) ==
    /\ attempt[a].state = "reserved"
    /\ task[attempt[a].task].state = "running" /\ Active(a)
    /\ "target" \notin events[a]

\* The proof that cancellation needs in order to release capacity at once.
NeverClaimed(a) ==
    /\ attempt[a].state = "reserved"
    /\ task[attempt[a].task].state = "running" /\ Active(a)
    /\ task[attempt[a].task].rev = attempt[a].taskRev + 1
    /\ launch[a].state = "pending" /\ ~launch[a].tried
    /\ \A b \in Attempts \ {a} :
          attempt[b].task = attempt[a].task => ~Retains(b) /\ ~Unresolved(launch[b])

\* cancel_attempt, a new request: it releases an unclaimed launch, and otherwise
\* only moves the revisions that every later effect is compared with.
CancelAttempt(a) ==
    /\ Idle /\ Retains(a) /\ ~attempt[a].cancelled
    /\ IF NeverClaimed(a)
       THEN /\ attempt' = [attempt EXCEPT ![a].rev = @ + 1, ![a].cancelled = TRUE,
                                          ![a].state = "cancelled", ![a].ended = TRUE]
            /\ task' = [task EXCEPT ![attempt[a].task] =
                            [state |-> "cancelled", rev |-> @.rev + 1, active |-> None]]
            /\ launch' = [launch EXCEPT ![a] = Resolve(@, "failed")]
       ELSE /\ attempt' = [attempt EXCEPT ![a].rev = @ + 1, ![a].cancelled = TRUE]
            /\ task' = IF Active(a) THEN [task EXCEPT ![attempt[a].task].rev = @ + 1] ELSE task
            /\ UNCHANGED launch
    /\ UNCHANGED <<control, policy, brief, events, revoked, held, wire, world>>

\* request_completion, for an accepted submission (not modelled) of a started
\* worker; the task keeps its revision.
RequestCompletion(a) ==
    /\ Idle /\ Active(a) /\ Retains(a)
    /\ ~attempt[a].cancelled /\ ~attempt[a].completing
    /\ "started" \in events[a]
    /\ attempt' = [attempt EXCEPT ![a].rev = @ + 1, ![a].completing = TRUE]
    /\ UNCHANGED <<control, policy, task, launch, brief, events, revoked, held, wire, world>>

\* retire_operation: the outcome is closed, resources and capacity stay.
RetireLaunch(a) ==
    /\ Idle /\ launch[a].state \in {"pending", "ambiguous"}
    /\ launch' = [launch EXCEPT ![a] = Resolve(@, "failed")]
    /\ UNCHANGED <<control, policy, task, attempt, brief, events, revoked, held, wire, world>>

RetireBrief(a) ==
    /\ Idle /\ brief[a].state \in {"pending", "ambiguous"}
    /\ brief' = [brief EXCEPT ![a] = Resolve(@, "failed")]
    /\ UNCHANGED <<control, policy, task, attempt, launch, events, revoked, held, wire, world>>

\* The clock passes a lease; services that own the lock notice at their next check.
Lapse(a) ==
    \/ /\ launch[a].state = "claimed" /\ launch[a].live
       /\ launch' = [launch EXCEPT ![a].live = FALSE]
       /\ UNCHANGED <<control, policy, task, attempt, brief, events, revoked, held, wire, world>>
    \/ /\ brief[a].state = "claimed" /\ brief[a].live
       /\ brief' = [brief EXCEPT ![a].live = FALSE]
       /\ UNCHANGED <<control, policy, task, attempt, launch, events, revoked, held, wire, world>>

\* expire_claims: every claim past its lease becomes ambiguous.
ExpireClaims ==
    LET lapsed(d) == d.state = "claimed" /\ ~d.live
    IN  /\ Idle
        /\ \E a \in Attempts : lapsed(launch[a]) \/ lapsed(brief[a])
        /\ launch' = [a \in Attempts |->
              IF lapsed(launch[a]) THEN Resolve(launch[a], "ambiguous") ELSE launch[a]]
        /\ brief' = [a \in Attempts |->
              IF lapsed(brief[a]) THEN Resolve(brief[a], "ambiguous") ELSE brief[a]]
        /\ UNCHANGED <<control, policy, task, attempt, events, revoked, held, wire, world>>

-----------------------------------------------------------------------------
\* The launch services

Reconciling(a) ==
    /\ launch[a].tried /\ launch[a].state # "confirmed"
    /\ attempt[a].state = "reserved" /\ Retains(a)

\* worktree_preparation: claim, approval and the worktree intent in one commit.
PrepareTrees(a) ==
    /\ Idle /\ attempt[a].trees
    /\ launch[a].state = "pending" /\ ~launch[a].tried
    /\ CheckLaunch(a)
    /\ launch' = [launch EXCEPT ![a] = Claim(@)]
    /\ events' = [events EXCEPT ![a] = {"trees"}]
    /\ UNCHANGED <<control, policy, task, attempt, brief, revoked, held, wire, world>>

\* observe_worktrees: the complete checkouts, also after the lease.
ObserveTrees(a) ==
    /\ Idle
    /\ launch[a].tried /\ launch[a].state \in {"claimed", "ambiguous"}
    /\ "trees" \in events[a] /\ "ready" \notin events[a]
    /\ events' = [events EXCEPT ![a] = @ \cup {"ready"}]
    /\ UNCHANGED <<control, policy, task, attempt, launch, brief, revoked, held, wire, world>>

\* The claim that a creation is made under: a new one, or that of the worktrees.
CreationClaim(a) ==
    IF attempt[a].trees
    THEN /\ "ready" \in events[a]
         /\ events[a] \cap {"creation", "target", "started"} = {}
         /\ ClaimStands(a)
         /\ UNCHANGED launch
    ELSE /\ launch[a].state = "pending" /\ ~launch[a].tried
         /\ CheckLaunch(a)
         /\ launch' = [launch EXCEPT ![a] = Claim(@)]

RecordCreation(a, kind) ==
    /\ CreationClaim(a)
    /\ events' = [events EXCEPT ![a] = @ \cup {"creation"}]
    /\ attempt' = [attempt EXCEPT ![a].kind = kind]
    /\ UNCHANGED <<control, policy, task, brief, revoked>>

\* Mutant: a claim whose creation found nothing is used for another creation.
CreateRootAgain(a) ==
    /\ Idle
    /\ \/ RecordCreation(a, "direct")
       \/ /\ ClaimStands(a) /\ "creation" \in events[a] /\ "target" \notin events[a]
          /\ UNCHANGED records
    /\ Send(a, "spawn")
    /\ UNCHANGED <<held, world>>

\* create_resource, supervised root or a layout in a workspace that exists: the
\* server starts the supervisor itself.
CreateRoot(a) ==
    /\ Idle /\ "direct" \in Kinds
    /\ RecordCreation(a, "direct")
    /\ Send(a, "spawn")
    /\ UNCHANGED <<held, world>>

\* create_legacy_resource, in a workspace of its own whose layout starts the
\* supervisor: an older version made it, the present one only continues it.
CreateWorkspace(a) ==
    /\ Idle /\ "layout" \in Kinds
    /\ RecordCreation(a, "layout")
    /\ Send(a, "workspace")
    /\ UNCHANGED <<held, world>>

\* record_launch_workspace, observe_launch_workspace
RecordWorkspace(a) ==
    /\ Idle
    /\ launch[a].tried /\ launch[a].state \in {"claimed", "ambiguous"}
    /\ attempt[a].state = "reserved" /\ Retains(a)
    /\ "creation" \in events[a] /\ attempt[a].kind = "layout" /\ world[a].shell
    /\ events[a] \cap {"workspace", "layout", "target", "started"} = {}
    /\ events' = [events EXCEPT ![a] = @ \cup {"workspace"}]
    /\ UNCHANGED <<control, policy, task, attempt, launch, brief, revoked, held, wire, world>>

\* continue_workspace_layout: record_launch_layout right before the request, as
\* long as the bootstrap shell of the workspace is the recorded one.
ApplyLayout(a) ==
    /\ Idle /\ ClaimStands(a)
    /\ "workspace" \in events[a] /\ world[a].shell
    /\ events[a] \cap {"layout", "target", "started"} = {}
    /\ events' = [events EXCEPT ![a] = @ \cup {"layout"}]
    /\ Send(a, "spawn")
    /\ UNCHANGED <<control, policy, task, attempt, launch, brief, revoked, held, world>>

\* stock_root: the launch file is written before the workspace is requested; the
\* service keeps the lock until it has seen the supervisor or given up.
CreateStock(a) ==
    /\ Idle /\ "stock" \in Kinds
    /\ RecordCreation(a, "stock")
    /\ \/ /\ held' = a
          /\ world' = [world EXCEPT ![a].spec = TRUE]
          /\ wire' = [wire EXCEPT ![a] = @ \cup {"workspace"}]
       \/ UNCHANGED <<held, wire, world>>

\* The workspace answered: type the line that executes the launch file.
TypeLine(a) ==
    /\ held = a /\ attempt[a].kind = "stock" /\ "target" \notin events[a]
    /\ world[a].shell /\ world[a].spec /\ "line" \notin wire[a]
    /\ wire' = [wire EXCEPT ![a] = @ \cup {"line"}]
    /\ UNCHANGED <<records, held, world>>

\* The deadline passes: remove the launch file, then close the workspace if it
\* is known; each may fail.
AbandonStock(a) ==
    /\ held = a /\ attempt[a].kind = "stock" /\ "target" \notin events[a]
    /\ \E closed \in {FALSE, world[a].shell}, spec \in {FALSE, world[a].spec} :
          world' = [world EXCEPT ![a].spec = spec,
                                 ![a].shell = @ /\ ~closed,
                                 ![a].worker = IF closed /\ @ # "absent" THEN "exited" ELSE @]
    /\ held' = None
    /\ UNCHANGED <<records, wire>>

\* A service that owns the lock dies or fails without cleaning up.
ServiceDies(a) ==
    /\ held = a
    /\ held' = None
    /\ UNCHANGED <<records, wire, world>>

\* retain_observed_launch_target, observe_launch_target: the supervisor is seen
\* alive.  Observation needs no authority but the consumed approval.
ObserveTarget(a) ==
    /\ held \in {None, a}
    /\ Reconciling(a)
    /\ "creation" \in events[a] /\ "target" \notin events[a]
    /\ attempt[a].kind = "layout" => "layout" \in events[a]
    /\ world[a].worker \in {"gated", "agent"}
    /\ events' = [events EXCEPT ![a] = @ \cup {"target"}]
    /\ held' = None
    /\ UNCHANGED <<control, policy, task, attempt, launch, brief, revoked, wire, world>>

\* reconcile_resource finds no supervisor: a stock launch must not start later.
RemoveSpec(a) ==
    /\ Idle /\ Reconciling(a)
    /\ "creation" \in events[a] /\ "target" \notin events[a]
    /\ attempt[a].kind = "stock" /\ world[a].spec
    /\ world[a].worker \notin {"gated", "agent"}
    /\ world' = [world EXCEPT ![a].spec = FALSE]
    /\ UNCHANGED <<records, held, wire>>

\* Mutant: the gate opens for any claim that is still leased.
ReleaseGateLeased(a) ==
    /\ Idle /\ launch[a].state = "claimed" /\ launch[a].live
    /\ "target" \in events[a] /\ events[a] \cap {"release", "started"} = {}
    /\ world[a].worker = "gated"
    /\ events' = [events EXCEPT ![a] = @ \cup {"release"}]
    /\ Send(a, "gate")
    /\ UNCHANGED <<control, policy, task, attempt, launch, brief, revoked, held, world>>

\* release_gate: the release is recorded immediately before the input is sent.
ReleaseGate(a) ==
    /\ Idle /\ ClaimStands(a)
    /\ "target" \in events[a] /\ events[a] \cap {"release", "started"} = {}
    /\ world[a].worker = "gated"
    /\ events' = [events EXCEPT ![a] = @ \cup {"release"}]
    /\ Send(a, "gate")
    /\ UNCHANGED <<control, policy, task, attempt, launch, brief, revoked, held, world>>

\* name_started_agent on an unnamed agent: the intent, then the request.
NameAgent(a) ==
    /\ Idle /\ ClaimStands(a)
    /\ "release" \in events[a] /\ events[a] \cap {"name", "started"} = {}
    /\ world[a].worker = "agent" /\ ~world[a].named
    /\ events' = [events EXCEPT ![a] = @ \cup {"name"}]
    /\ Send(a, "rename")
    /\ UNCHANGED <<control, policy, task, attempt, launch, brief, revoked, held, world>>

\* reconcile_start repeats a recorded rename, which changes nothing when repeated.
RenameAgain(a) ==
    /\ Idle /\ Reconciling(a)
    /\ "name" \in events[a] /\ "started" \notin events[a]
    /\ world[a].worker = "agent" /\ ~world[a].named
    /\ wire' = [wire EXCEPT ![a] = @ \cup {"rename"}]
    /\ UNCHANGED <<records, held, world>>

\* block_unnamed_start: nobody may name the agent any more.
BlockUnnamedStart(a) ==
    /\ Idle /\ launch[a].tried /\ launch[a].state = "ambiguous"
    /\ "release" \in events[a] /\ events[a] \cap {"name", "started"} = {}
    /\ world[a].worker = "agent" /\ ~world[a].named
    /\ launch' = [launch EXCEPT ![a] = Resolve(@, "failed")]
    /\ UNCHANGED <<control, policy, task, attempt, brief, events, revoked, held, wire, world>>

\* observe_launch_started: the named agent is seen; this confirms the launch.
ObserveStarted(a) ==
    /\ Idle
    /\ launch[a].tried /\ launch[a].state \in {"claimed", "ambiguous"}
    /\ {"target", "release"} \subseteq events[a]
    /\ Active(a) /\ Retains(a) /\ attempt[a].state = "reserved"
    /\ world[a].worker = "agent" /\ world[a].named
    /\ launch' = [launch EXCEPT ![a] = Resolve(@, "confirmed")]
    /\ attempt' = [attempt EXCEPT ![a].rev = @ + 1, ![a].state = "launching"]
    /\ events' = [events EXCEPT ![a] = @ \cup {"started"}]
    /\ UNCHANGED <<control, policy, task, brief, revoked, held, wire, world>>

-----------------------------------------------------------------------------
\* The brief

\* prepare_brief, enqueue_worker_brief: one brief for an attempt, ever.
EnqueueBrief(a) ==
    /\ Idle /\ CheckBrief(a) /\ brief[a].state = "none"
    /\ brief' = [brief EXCEPT ![a].state = "pending", ![a].rev = task[attempt[a].task].rev]
    /\ UNCHANGED <<control, policy, task, attempt, launch, events, revoked, held, wire, world>>

BriefCurrent(a) == CheckBrief(a) /\ brief[a].rev = task[attempt[a].task].rev

\* deliver_brief: the agent is ready before the claim, which is taken once.
ClaimBrief(a) ==
    /\ Idle /\ world[a].worker = "agent"
    /\ brief[a].state = "pending" /\ ~brief[a].tried
    /\ BriefCurrent(a)
    /\ brief' = [brief EXCEPT ![a] = Claim(@)]
    /\ held' = a
    /\ UNCHANGED <<control, policy, task, attempt, launch, events, revoked, wire, world>>

\* Mutant: the deliveries are counted one too far.
PromptOnceMore(a) ==
    /\ held = a /\ brief[a].state = "claimed" /\ brief[a].live
    /\ BriefCurrent(a)
    /\ brief[a].sent <= BriefDeliveries
    /\ wire' = [wire EXCEPT ![a] = @ \cup {"prompt"}]
    /\ brief' = [brief EXCEPT ![a].sent = @ + 1]
    /\ UNCHANGED <<control, policy, task, attempt, launch, events, revoked, held, world>>

\* The prompt, and its repetition while the agent stays idle.
Prompt(a) ==
    /\ held = a /\ brief[a].state = "claimed" /\ brief[a].live
    /\ BriefCurrent(a)
    /\ brief[a].sent < BriefDeliveries
    /\ wire' = [wire EXCEPT ![a] = @ \cup {"prompt"}]
    /\ brief' = [brief EXCEPT ![a].sent = @ + 1]
    /\ UNCHANGED <<control, policy, task, attempt, launch, events, revoked, held, world>>

\* record_worker_brief: the agent left its idle prompt.
RecordBrief(a) ==
    /\ held = a /\ brief[a].state = "claimed" /\ brief[a].live
    /\ world[a].told
    /\ launch[a].state = "confirmed"
    /\ attempt[a].state = "launching" /\ Retains(a)
    /\ Active(a) /\ task[attempt[a].task].state = "running"
    /\ brief[a].rev = task[attempt[a].task].rev
    /\ brief' = [brief EXCEPT ![a] = Resolve(@, "confirmed")]
    /\ attempt' = [attempt EXCEPT ![a].rev = @ + 1, ![a].state = "running"]
    /\ held' = None
    /\ UNCHANGED <<control, policy, task, launch, events, revoked, wire, world>>

\* record_worker_brief_unaccepted, after the last delivery.
BriefUnaccepted(a) ==
    /\ held = a /\ brief[a].state = "claimed" /\ brief[a].live
    /\ brief[a].sent = BriefDeliveries
    /\ brief' = [brief EXCEPT ![a] = Resolve(@, "ambiguous")]
    /\ held' = None
    /\ UNCHANGED <<control, policy, task, attempt, launch, events, revoked, wire, world>>

-----------------------------------------------------------------------------
\* Termination

\* stop_worktree_preparation: no native request was ever recorded.
StopPreparation(a) ==
    /\ Idle
    /\ "trees" \in events[a] /\ events[a] \subseteq {"trees", "ready"}
    /\ attempt[a].state = "reserved" /\ Retains(a) /\ Active(a)
    /\ launch[a].tried /\ launch[a].state # "confirmed"
    /\ \/ attempt[a].cancelled
       \/ launch[a].state = "claimed" /\ ~launch[a].live
       \/ launch[a].state \in {"ambiguous", "failed"}
    /\ IF attempt[a].cancelled THEN End(a, "cancelled", "cancelled")
                               ELSE End(a, "failed", "blocked")
    /\ launch' = [launch EXCEPT ![a] = Resolve(@, "failed")]
    /\ UNCHANGED <<control, policy, brief, events, revoked, held, wire, world>>

\* Mutant: termination expects the reservation that check_launch approved.
StagedUntouched(a) ==
    /\ "target" \in events[a] /\ "started" \notin events[a]
    /\ attempt[a].state = "reserved" /\ Retains(a) /\ Active(a)
    /\ task[attempt[a].task].rev = attempt[a].taskRev + 1
    /\ launch[a].tried /\ launch[a].state # "confirmed"

\* The two cases in which reconcile_termination may act on a worker.
Staged(a) ==
    /\ "target" \in events[a] /\ "started" \notin events[a]
    /\ attempt[a].state = "reserved" /\ Retains(a) /\ Active(a)
    /\ launch[a].tried /\ launch[a].state # "confirmed"

Started(a) ==
    /\ "started" \in events[a] /\ launch[a].state = "confirmed"
    /\ Retains(a) /\ Active(a)

\* stop_recorded: the supervisor and everything below it are gone.
StopWorker(a) ==
    /\ Idle /\ world[a].worker \in {"gated", "agent"}
    /\ \/ Staged(a) /\ attempt[a].cancelled
       \/ Started(a) /\ (attempt[a].cancelled \/ attempt[a].completing)
    /\ world' = [world EXCEPT ![a].worker = "exited"]
    /\ UNCHANGED <<records, held, wire>>

\* require_workspace_quiescence: nothing recorded the end of the bootstrap shell
\* of a workspace of its own; only a reboot since the worker started proves it.
WorkspaceQuiet(a) == attempt[a].kind # "layout" \/ world[a].rebooted

\* record_launch_stopped: the staged supervisor has provably exited, and its
\* repositories and outputs are preserved.
RecordLaunchStopped(a) ==
    /\ Idle /\ Staged(a) /\ world[a].worker = "exited" /\ WorkspaceQuiet(a)
    /\ IF attempt[a].cancelled THEN End(a, "cancelled", "cancelled")
                               ELSE End(a, "failed", "blocked")
    /\ launch' = [launch EXCEPT ![a] = Resolve(@, "failed")]
    /\ UNCHANGED <<control, policy, brief, events, revoked, held, wire, world>>

\* Mutant: the brief is left as it is.
RecordWorkerTerminationBriefless(a) ==
    /\ Idle /\ Started(a) /\ world[a].worker = "exited" /\ WorkspaceQuiet(a)
    /\ \/ attempt[a].cancelled /\ End(a, "cancelled", "cancelled")
       \/ /\ ~attempt[a].cancelled /\ attempt[a].completing
          /\ \E taskState \in {"succeeded", "blocked"} : End(a, "completed", taskState)
       \/ ~attempt[a].cancelled /\ ~attempt[a].completing /\ End(a, "failed", "blocked")
    /\ UNCHANGED <<control, policy, launch, brief, events, revoked, held, wire, world>>

\* record_worker_termination: cancellation overrides completion, memory
\* obligations (not modelled) may keep a completed task blocked, and an
\* outstanding brief is retired with the worker.
RecordWorkerTermination(a) ==
    /\ Idle /\ Started(a) /\ world[a].worker = "exited" /\ WorkspaceQuiet(a)
    /\ \/ attempt[a].cancelled /\ End(a, "cancelled", "cancelled")
       \/ /\ ~attempt[a].cancelled /\ attempt[a].completing
          /\ \E taskState \in {"succeeded", "blocked"} : End(a, "completed", taskState)
       \/ ~attempt[a].cancelled /\ ~attempt[a].completing /\ End(a, "failed", "blocked")
    /\ brief' = IF Unresolved(brief[a])
                THEN [brief EXCEPT ![a] = Resolve(@, "failed")] ELSE brief
    /\ UNCHANGED <<control, policy, launch, events, revoked, held, wire, world>>

-----------------------------------------------------------------------------
\* Outside the store

Alive(a) == world[a].worker \in {"gated", "agent"}

\* A supervisor is started; the counter says how often.
Spawned(w) == [w EXCEPT !.worker = "gated", !.spawns = @ + 1]

\* The Herdr server executes a request; one whose pane or agent is gone is lost,
\* and a dialog of the agent may swallow a prompt.
Execute(a, request) ==
    LET w == world[a]
    IN  /\ request \in wire[a]
        /\ wire' = [wire EXCEPT ![a] = @ \ {request}]
        /\ \E taken \in {TRUE, request # "prompt"} : world' = [world EXCEPT ![a] =
              CASE request = "workspace" -> [w EXCEPT !.shell = TRUE]
                [] request = "spawn" -> Spawned(w)
                [] request = "line" /\ w.shell /\ w.spec -> [Spawned(w) EXCEPT !.spec = FALSE]
                [] request = "gate" /\ w.worker = "gated" -> [w EXCEPT !.worker = "agent"]
                [] request = "rename" /\ w.worker = "agent" -> [w EXCEPT !.named = TRUE]
                [] request = "prompt" /\ w.worker = "agent" /\ taken -> [w EXCEPT !.told = TRUE]
                [] OTHER -> w]
        /\ UNCHANGED <<records, held>>

\* The agent ends, or its supervisor at the wall deadline.
WorkerExits(a) ==
    /\ Alive(a)
    /\ world' = [world EXCEPT ![a].worker = "exited"]
    /\ UNCHANGED <<records, held, wire>>

\* The host restarts: every process is gone, with it what the server had not
\* executed; the store and the launch files stay.
HostReboots ==
    /\ \E a \in Attempts : Alive(a) \/ world[a].shell \/ wire[a] # {} \/ held = a
    /\ world' = [a \in Attempts |-> [world[a] EXCEPT
          !.worker = IF Alive(a) THEN "exited" ELSE @,
          !.shell = FALSE,
          !.rebooted = world[a].worker # "absent"]]
    /\ wire' = [a \in Attempts |-> {}]
    /\ held' = None
    /\ UNCHANGED records

-----------------------------------------------------------------------------
Command(a) ==
    \/ \E t \in Tasks : AdmitPrepared(a, t)
    \/ CancelAttempt(a) \/ RequestCompletion(a)
    \/ RevokeApproval(a) \/ RetireLaunch(a) \/ RetireBrief(a)

Launch(a) ==
    \/ PrepareTrees(a) \/ ObserveTrees(a)
    \/ CreateRoot(a) \/ CreateWorkspace(a) \/ RecordWorkspace(a) \/ ApplyLayout(a)
    \/ CreateStock(a) \/ TypeLine(a) \/ AbandonStock(a) \/ ServiceDies(a)
    \/ ObserveTarget(a) \/ RemoveSpec(a)
    \/ ReleaseGate(a) \/ NameAgent(a) \/ RenameAgain(a)
    \/ BlockUnnamedStart(a) \/ ObserveStarted(a)

Briefing(a) ==
    \/ EnqueueBrief(a) \/ ClaimBrief(a) \/ Prompt(a) \/ RecordBrief(a) \/ BriefUnaccepted(a)

RecordEnd(a) == StopPreparation(a) \/ RecordLaunchStopped(a) \/ RecordWorkerTermination(a)

Termination(a) == StopWorker(a) \/ RecordEnd(a)

Outside(a) ==
    \/ Lapse(a) \/ WorkerExits(a)
    \/ \E request \in Request : Execute(a, request)

Next ==
    \/ Pause \/ Resume \/ SetSchedulerPolicy \/ ExpireClaims \/ HostReboots
    \/ \E t \in Tasks : QueueTask(t)
    \/ \E a \in Attempts :
          Command(a) \/ Launch(a) \/ Briefing(a) \/ Termination(a) \/ Outside(a)

Spec == Init /\ [][Next]_vars

-----------------------------------------------------------------------------
\* Properties

Deliveries == [state : DeliveryState, tried : BOOLEAN, live : BOOLEAN]

\* The rows, requests and processes of every attempt keep their types; in
\* particular a brief is sent at most BriefDeliveries times.
TypeOK ==
    /\ control \in [active : BOOLEAN, epoch : Nat]
    /\ policy \in [revision : Nat, max : 0 .. MaxActiveWorkers]
    /\ task \in [Tasks -> [state : TaskState, rev : Nat, active : Attempts \cup {None}]]
    /\ attempt \in [Attempts ->
          [state : AttemptState, rev : Nat, ended : BOOLEAN, cancelled : BOOLEAN,
           completing : BOOLEAN, trees : BOOLEAN, kind : Kinds \cup {None},
           task : Tasks \cup {None}, taskRev : Nat, epoch : Nat, policy : Nat]]
    /\ launch \in [Attempts -> Deliveries]
    /\ brief \in [Attempts ->
          [state : DeliveryState, tried : BOOLEAN, live : BOOLEAN, rev : Nat,
           sent : 0 .. BriefDeliveries]]
    /\ events \in [Attempts -> SUBSET Boundary]
    /\ revoked \subseteq Attempts
    /\ held \in Attempts \cup {None}
    /\ wire \in [Attempts -> SUBSET Request]
    /\ world \in [Attempts ->
          [worker : {"absent", "gated", "agent", "exited"}, spawns : Nat,
           shell : BOOLEAN, spec : BOOLEAN, named : BOOLEAN, told : BOOLEAN,
           rebooted : BOOLEAN]]

\* A worker exists, or can still come from a request the server has not executed.
MayRun(a) ==
    \/ Alive(a)
    \/ "spawn" \in wire[a]
    \/ world[a].spec /\ ("line" \in wire[a] \/ held = a)

\* So does the bootstrap shell of a workspace of its own.
ShellMayRun(a) == attempt[a].kind = "layout" /\ (world[a].shell \/ "workspace" \in wire[a])

\* Capacity is released only when no worker of the attempt and no bootstrap shell
\* runs or can appear any more, whichever of cancel_attempt,
\* stop_worktree_preparation, record_launch_stopped and record_worker_termination
\* released it (require_workspace_quiescence for the shell).
EndedIsQuiet == \A a \in Attempts : attempt[a].ended => ~MayRun(a) /\ ~ShellMayRun(a)

\* At most one supervisor is ever started for an attempt, although creation may be
\* interrupted and recovered, and a task never has two workers, although it is
\* retried while the server may still hold requests of an earlier attempt.
OneWorkerPerTask ==
    /\ \A a \in Attempts : world[a].spawns <= 1
    /\ \A a, b \in Attempts :
          a # b /\ attempt[a].task = attempt[b].task => ~(MayRun(a) /\ MayRun(b))

\* Workers that run or may appear never exceed the highest capacity that a policy
\* gave the project (admit_prepared counts attempts without proof of an end).
WorkersWithinCapacity ==
    Cardinality({a \in Attempts : MayRun(a)}) <= MaxActiveWorkers

\* The attempt rows and the task rows agree: a running task names the one attempt
\* that retains capacity for it, and no other task names an attempt
\* (admit_prepared, cancel_attempt, the termination services, queue_task).
TaskOwnsAttempt ==
    /\ \A a \in Retained : Active(a)
    /\ \A t \in Tasks :
          /\ (task[t].active # None) <=> (task[t].state = "running")
          /\ task[t].active # None => task[t].active \in Retained

\* The authority a launch was approved under no longer stands.
Withdrawn(a) ==
    \/ attempt[a].cancelled \/ a \in revoked
    \/ attempt[a].state # "none" /\ (control.epoch # attempt[a].epoch
                                     \/ policy.revision # attempt[a].policy)

\* An attempt that is cancelled, whose approval is revoked, whose project was
\* paused or whose policy changed before the gate was released never runs an
\* agent, not even after a resume (check_launch, release_gate).
WithdrawnNeverStarts ==
    [][\A a \in Attempts :
          Withdrawn(a) /\ "release" \notin events[a]
             => "release" \notin events'[a] /\ world'[a].worker # "agent"]_vars

\* Proof of the end is final: no service, late observation, expiry or retirement
\* changes the attempt or its launch, brief and boundaries afterwards.
EndedStaysEnded ==
    [][\A a \in Attempts : attempt[a].ended =>
          /\ attempt'[a] = attempt[a] /\ launch'[a] = launch[a]
          /\ brief'[a] = brief[a] /\ events'[a] = events[a]]_vars

\* A project that was paused is active again only with attempts that were admitted
\* since, or whose worker had already been briefed (blockers, set_project_state):
\* no unfinished launch of an older epoch is left in it.
ResumeIsClean ==
    control.active =>
        \A a \in Retained : attempt[a].epoch = control.epoch \/ attempt[a].state = "running"

\* The controller offers the termination of retained attempts again and again
\* (controller_hint), its services get the root lock, and a stop takes effect.
Fairness ==
    \A a \in Attempts :
        /\ WF_vars(StopWorker(a))
        /\ WF_vars(ServiceDies(a))

FairSpec == Spec /\ Fairness

\* Before an end is recorded the repositories and the outputs are captured, which
\* fails as long as they cannot be read or written.
PreservationWorks(a) == WF_vars(RecordEnd(a))

\* Evidence from which termination can prove an end.
Provable(a) ==
    \/ "target" \in events[a] /\ WorkspaceQuiet(a)
    \/ "trees" \in events[a] /\ events[a] \subseteq {"trees", "ready"}

\* Once an attempt is cancelled, or its worker has ended, and the launch left
\* evidence to prove it with, its capacity is released, provided that its results
\* can be preserved (reconcile_termination).  An attempt in a workspace of its own
\* keeps its capacity until the host restarts (docs/canonical-worker-launch.md,
\* "its stop alone cannot mark the attempt terminated or free its reservation").
CapacityReturns ==
    \A a \in Attempts :
        PreservationWorks(a) =>
            (Retains(a) /\ Provable(a) /\ (attempt[a].cancelled \/ world[a].worker = "exited")
                ~> attempt[a].ended)

=============================================================================
