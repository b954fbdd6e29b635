------------------------------ MODULE Executor ------------------------------
(***************************************************************************)
(* The bounded command executor of the ticker: executor.rs, with the       *)
(* project round of fair_admission.rs and the entry checks of              *)
(* runner.rs (RealRunner::run).                                            *)
(*                                                                         *)
(* Callers submit requests into two lanes; every lane has its own worker   *)
(* threads.  One mutex protects queue, running, admitted, rounds and       *)
(* stopping; a worker leaves it between choosing a job, entering the       *)
(* runner, and reporting, so callers, stop and other workers act in        *)
(* between.  Cancellation tokens and the clock are read without the mutex. *)
(***************************************************************************)
EXTENDS Naturals, Sequences, FiniteSets, SequencesExt

CONSTANTS
    Jobs,         \* requests a caller may submit, again after every answer
    Workers,      \* threads
    WorkerLane,   \* [Workers -> Lanes]
    Class,        \* [Jobs -> Classes]: Lane of the request
    Key,          \* [Jobs -> ...]: the operation, scoped by its project
    Project,      \* [Jobs -> ...]
    Machine,      \* [Jobs -> ...]
    Terminal,     \* [Jobs -> ...], or None
    Reserved,     \* jobs for which reserved_control holds
    Outstanding,  \* [Lanes -> Nat]: Limits::outstanding
    PerProject,
    PerMachine,
    MaxAdvisory,  \* 16 in the code
    None

Lanes == {"control", "transfer"}
Classes == Lanes \cup {"advisory"}

WorkersOf(l) == {w \in Workers : WorkerLane[w] = l}

\* Executor::new refuses other limits.
ASSUME LimitsAssumption ==
    /\ WorkerLane \in [Workers -> Lanes]
    /\ Class \in [Jobs -> Classes]
    /\ Reserved \subseteq Jobs
    /\ None \notin Jobs
    /\ PerProject \in Nat \ {0} /\ PerMachine \in Nat \ {0} /\ MaxAdvisory \in Nat
    /\ \A l \in Lanes : /\ Outstanding[l] \in Nat
                        /\ IsFiniteSet(WorkersOf(l))
                        /\ Cardinality(WorkersOf(l)) \in 1 .. Outstanding[l]

VARIABLES
    queue,      \* [Lanes -> Seq(Jobs)]
    running,    \* jobs taken from a queue and not yet reported
    admitted,   \* [Lanes -> Nat]: the slots in use
    served,     \* [Lanes -> SUBSET projects]: ProjectRound
    stopping,
    suspect,    \* terminals whose runner panicked with a process (metrics.uncertain is \/)
    cancelled,  \* jobs whose token is cancelled
    passed,     \* jobs whose deadline the clock has reached
    worker,     \* [Workers -> [pc, job]]
    waiting     \* jobs whose ticket waits for its completion

vars == <<queue, running, admitted, served, stopping, suspect, cancelled, passed,
          worker, waiting>>

\* `entered': the runner was called; `command': its process exists; `unwound',
\* `panicked': it panicked without and with a process; `reporting': the result is
\* known.
PC == {"waiting", "selected", "entered", "command", "unwound", "panicked", "reporting",
       "exited"}

Idle == [pc |-> "waiting", job |-> None]

Init ==
    /\ queue = [l \in Lanes |-> <<>>]
    /\ running = {}
    /\ admitted = [l \in Lanes |-> 0]
    /\ served = [l \in Lanes |-> {}]
    /\ stopping = FALSE
    /\ suspect = {}
    /\ cancelled = {}
    /\ passed = {}
    /\ worker = [w \in Workers |-> Idle]
    /\ waiting = {}

-----------------------------------------------------------------------------
\* Views of the state

\* Advisory requests share the Transfer lane.
Index(j) == IF Class[j] = "control" THEN "control" ELSE "transfer"

Queued == UNION {ToSet(queue[l]) : l \in Lanes}

Advisory == {j \in Jobs : Class[j] = "advisory"}

\* Jobs that a worker must answer without running them.
Void == cancelled \cup passed

RunningIn(l) == {j \in running : Index(j) = l}

TransferFull == admitted["transfer"] >= Outstanding["transfer"]

\* While Transfer is full, ordinary work leaves one Control worker free.
OrdinaryCap(l) ==
    LET n == Cardinality(WorkersOf(l))
    IN  IF l = "control" /\ n >= 2 /\ TransferFull THEN n - 1 ELSE n

Room(j, l) ==
    /\ Cardinality({k \in RunningIn(l) : Project[k] = Project[j]}) < PerProject
    /\ Cardinality({k \in RunningIn(l) : Machine[k] = Machine[j]}) < PerMachine
    /\ \A k \in running : Terminal[j] # None => Terminal[k] # Terminal[j]

\* eligible_indexes: void jobs need no room, they will not run.
Eligible(j, l) ==
    \/ j \in Void
    \/ /\ Room(j, l)
       /\ \/ l = "control" /\ j \in Reserved
          \/ Cardinality(RunningIn(l) \ Reserved) < OrdinaryCap(l)

CanonicalPending == (Queued \cup running) \ Advisory # {}

\* The positions of the queue that select hands to the project round.
Candidates(l) ==
    {i \in DOMAIN queue[l] :
        /\ Eligible(queue[l][i], l)
        /\ CanonicalPending => queue[l][i] \notin Advisory}

\* A round ends when the project of every candidate was served in it.
Round(l) ==
    IF \A i \in Candidates(l) : Project[queue[l][i]] \in served[l]
    THEN {} ELSE served[l]

\* Mutant: the newest candidate is chosen.
ChosenNewest(l) ==
    {i \in Candidates(l) : \A k \in Candidates(l) : k <= i}

\* ProjectRound::select: the oldest candidate of a project not yet served.
Chosen(l) ==
    LET fresh == {i \in Candidates(l) : Project[queue[l][i]] \notin Round(l)}
    IN  {i \in fresh : \A k \in fresh : i <= k}

Goto(w, pc) == worker' = [worker EXCEPT ![w].pc = pc]

-----------------------------------------------------------------------------
\* Callers

\* The guard of submit.
Admissible(j) ==
    LET l == Index(j)
    IN  /\ ~stopping
        /\ admitted[l] < Outstanding[l]
        /\ j \in Advisory =>
              /\ admitted[l] < Outstanding[l] \div 2
              /\ Cardinality((Queued \cup running) \cap Advisory) < MaxAdvisory
        /\ \A k \in Queued \cup running : Key[k] # Key[j]

\* Mutant: new work waits for the advisory command that is already running.
SubmitPatient(j) ==
    LET l == Index(j)
    IN  /\ j \notin waiting
        /\ Admissible(j)
        /\ cancelled' = cancelled \ {j}
        /\ passed' = passed \ {j}
        /\ queue' = [queue EXCEPT ![l] = Append(@, j)]
        /\ admitted' = [admitted EXCEPT ![l] = @ + 1]
        /\ waiting' = waiting \cup {j}
        /\ UNCHANGED <<running, served, stopping, suspect, worker>>

\* submit, accepted (a refusal changes nothing): a fresh token and deadline, a
\* slot, and running advisory commands are cancelled in favour of other work.
Submit(j) ==
    LET l      == Index(j)
        yields == IF j \in Advisory THEN {} ELSE running \cap Advisory
    IN  /\ j \notin waiting
        /\ Admissible(j)
        /\ cancelled' = (cancelled \ {j}) \cup yields
        /\ passed' = passed \ {j}
        /\ queue' = [queue EXCEPT ![l] = Append(@, j)]
        /\ admitted' = [admitted EXCEPT ![l] = @ + 1]
        /\ waiting' = waiting \cup {j}
        /\ UNCHANGED <<running, served, stopping, suspect, worker>>

\* Ticket::cancel
Cancel(j) ==
    /\ j \in waiting /\ j \notin cancelled
    /\ cancelled' = cancelled \cup {j}
    /\ UNCHANGED <<queue, running, admitted, served, stopping, suspect, passed, worker, waiting>>

\* The clock reaches the deadline of a request.
Expire(j) ==
    /\ j \in waiting /\ j \notin passed
    /\ passed' = passed \cup {j}
    /\ UNCHANGED <<queue, running, admitted, served, stopping, suspect, cancelled, worker, waiting>>

\* Executor::stop and Drop, up to the wait for the threads.
Stop ==
    /\ ~stopping
    /\ stopping' = TRUE
    /\ cancelled' = cancelled \cup Queued \cup running
    /\ UNCHANGED <<queue, running, admitted, served, suspect, passed, worker, waiting>>

-----------------------------------------------------------------------------
\* Worker threads

\* Under the mutex: take a job out of the queue into running.
Select(w) ==
    LET l == WorkerLane[w]
    IN  /\ worker[w].pc = "waiting"
        /\ \E i \in Chosen(l) :
              LET j == queue[l][i]
              IN  /\ queue' = [queue EXCEPT ![l] = RemoveAt(@, i)]
                  /\ running' = {k \in running : Key[k] # Key[j]} \cup {j}
                  /\ served' = [served EXCEPT ![l] = Round(l) \cup {Project[j]}]
                  /\ worker' = [worker EXCEPT ![w] = [pc |-> "selected", job |-> j]]
        /\ UNCHANGED <<admitted, stopping, suspect, cancelled, passed, waiting>>

\* Mutant: a stopping worker does not drain its queue.
ExitUndrained(w) ==
    /\ worker[w].pc = "waiting"
    /\ stopping
    /\ Goto(w, "exited")
    /\ UNCHANGED <<queue, running, admitted, served, stopping, suspect, cancelled, passed, waiting>>

\* The loop ends once the executor is stopping and the lane's queue is empty.
Exit(w) ==
    /\ worker[w].pc = "waiting"
    /\ stopping
    /\ queue[WorkerLane[w]] = <<>>
    /\ Goto(w, "exited")
    /\ UNCHANGED <<queue, running, admitted, served, stopping, suspect, cancelled, passed, waiting>>

\* The token is cancelled or the deadline is over: the runner is not called.
Skip(w) ==
    /\ worker[w].pc = "selected"
    /\ worker[w].job \in Void
    /\ Goto(w, "reporting")
    /\ UNCHANGED <<queue, running, admitted, served, stopping, suspect, cancelled, passed, waiting>>

\* The runner is called.  A clock that reads exactly the deadline leaves a
\* remaining time of zero, which is still some time.
Enter(w) ==
    /\ worker[w].pc = "selected"
    /\ worker[w].job \notin cancelled
    /\ Goto(w, "entered")
    /\ UNCHANGED <<queue, running, admitted, served, stopping, suspect, cancelled, passed, waiting>>

\* Mutant: the runner trusts the deadline check of the worker.
SpawnUnchecked(w) ==
    /\ worker[w].pc = "entered"
    /\ worker[w].job \notin cancelled
    /\ Goto(w, "command")
    /\ UNCHANGED <<queue, running, admitted, served, stopping, suspect, cancelled, passed, waiting>>

\* RealRunner::run reads the token and the clock again before it spawns.
Spawn(w) ==
    /\ worker[w].pc = "entered"
    /\ worker[w].job \notin Void
    /\ Goto(w, "command")
    /\ UNCHANGED <<queue, running, admitted, served, stopping, suspect, cancelled, passed, waiting>>

\* The runner returns: refused before the spawn, a failed spawn, an exited
\* command, or one terminated after its token or the clock was read.
RunnerReturns(w) ==
    /\ worker[w].pc \in {"entered", "command"}
    /\ Goto(w, "reporting")
    /\ UNCHANGED <<queue, running, admitted, served, stopping, suspect, cancelled, passed, waiting>>

\* The runner, or an adapter around it, unwinds at any point after its entry.  The
\* worker cannot tell whether a process was started; the terminal is suspect if so.
RunnerPanics(w) ==
    /\ \/ /\ worker[w].pc = "entered"
          /\ suspect' = suspect
          /\ Goto(w, "unwound")
       \/ /\ worker[w].pc = "command"
          /\ suspect' = suspect \cup {Terminal[worker[w].job]}
          /\ Goto(w, "panicked")
    /\ UNCHANGED <<queue, running, admitted, served, stopping, cancelled, passed, waiting>>

\* Mutant: the panic stops admission and leaves queued commands alone.
QuarantineAdmission(w) ==
    /\ worker[w].pc \in {"unwound", "panicked"}
    /\ stopping' = TRUE
    /\ cancelled' = cancelled \cup running
    /\ Goto(w, "reporting")
    /\ UNCHANGED <<queue, running, admitted, served, suspect, passed, waiting>>

\* The worker stops the whole executor before it gives the terminal free.
Quarantine(w) ==
    /\ worker[w].pc \in {"unwound", "panicked"}
    /\ stopping' = TRUE
    /\ cancelled' = cancelled \cup Queued \cup running
    /\ Goto(w, "reporting")
    /\ UNCHANGED <<queue, running, admitted, served, suspect, passed, waiting>>

\* The completion reaches the ticket: its channel has room for the one message.
Answer(w) ==
    LET j == worker[w].job
    IN  /\ waiting' = waiting \ {j}
        /\ cancelled' = cancelled \ {j}
        /\ passed' = passed \ {j}
        /\ worker' = [worker EXCEPT ![w] = Idle]

\* Mutant: the slot is given back twice.
ReportTwice(w) ==
    LET j == worker[w].job
    IN  /\ worker[w].pc = "reporting"
        /\ running' = {k \in running : Key[k] # Key[j]}
        /\ admitted' = [admitted EXCEPT ![WorkerLane[w]] = @ - 2]
        /\ Answer(w)
        /\ UNCHANGED <<queue, served, stopping, suspect>>

\* Mutant: a cancelled command keeps its slot.
ReportUncancelled(w) ==
    LET j == worker[w].job
    IN  /\ worker[w].pc = "reporting"
        /\ running' = {k \in running : Key[k] # Key[j]}
        /\ admitted' = IF j \in cancelled THEN admitted
                       ELSE [admitted EXCEPT ![WorkerLane[w]] = @ - 1]
        /\ Answer(w)
        /\ UNCHANGED <<queue, served, stopping, suspect>>

\* Under the mutex again: the entry and the slot are given back.  The answer is
\* sent after the unlock; nobody but the owner of the ticket sees the difference.
Report(w) ==
    LET j == worker[w].job
    IN  /\ worker[w].pc = "reporting"
        /\ running' = {k \in running : Key[k] # Key[j]}
        /\ admitted' = [admitted EXCEPT ![WorkerLane[w]] = @ - 1]
        /\ Answer(w)
        /\ UNCHANGED <<queue, served, stopping, suspect>>

\* Every thread has ended and stop returns.
Ended ==
    /\ \A w \in Workers : worker[w].pc = "exited"
    /\ UNCHANGED vars

WorkerStep(w) ==
    \/ Select(w)
    \/ Exit(w)
    \/ Skip(w)
    \/ Enter(w)
    \/ Spawn(w)
    \/ RunnerReturns(w)
    \/ RunnerPanics(w)
    \/ Quarantine(w)
    \/ Report(w)

Next ==
    \/ \E j \in Jobs : Submit(j) \/ Cancel(j) \/ Expire(j)
    \/ Stop
    \/ \E w \in Workers : WorkerStep(w)
    \/ Ended

Spec == Init /\ [][Next]_vars

-----------------------------------------------------------------------------
\* Properties

\* The fields behind the mutex and the workers' jobs keep their types.
TypeOK ==
    /\ queue \in [Lanes -> Seq(Jobs)]
    /\ running \subseteq Jobs
    /\ admitted \in [Lanes -> Nat]
    /\ DOMAIN served = Lanes
    /\ stopping \in BOOLEAN
    /\ cancelled \subseteq Jobs /\ passed \subseteq Jobs
    /\ worker \in [Workers -> [pc : PC, job : Jobs \cup {None}]]
    /\ waiting \subseteq Jobs

Busy(w) == worker[w].pc \notin {"waiting", "exited"}

\* Workers whose process runs, or may run after a panic.
Commanding == {w \in Workers : worker[w].pc \in {"command", "panicked"}}

\* A slot is in use exactly for the requests that wait in the lane's queue or sit
\* with one of its workers, whichever way a request ends (submit, worker): the
\* lane never exceeds its bound, and no skipped, panicking or timed-out request
\* leaves a slot behind.  The running map names exactly the workers' jobs.
SlotsExact ==
    /\ \A l \in Lanes :
          /\ admitted[l] = Len(queue[l]) + Cardinality({w \in WorkersOf(l) : Busy(w)})
          /\ admitted[l] <= Outstanding[l]
    /\ running = {worker[w].job : w \in {v \in Workers : Busy(v)}}

\* Commands that run at the same time have different terminals, in whichever
\* lanes, and stay within the limits per project and machine of their lane
\* (eligible_indexes), although void requests are taken without room.
CommandsExclude ==
    /\ \A v, w \in Commanding :
          v # w /\ Terminal[worker[v].job] # None
             => Terminal[worker[v].job] # Terminal[worker[w].job]
    /\ \A v \in Commanding :
          LET peers == {w \in Commanding : WorkerLane[w] = WorkerLane[v]}
          IN  /\ Cardinality({w \in peers : Project[worker[w].job] = Project[worker[v].job]})
                    <= PerProject
              /\ Cardinality({w \in peers : Machine[worker[w].job] = Machine[worker[v].job]})
                    <= PerMachine

\* Advisory work yields: while any other request waits or runs, every advisory
\* request that a worker holds has been told to stop (submit, select).
AdvisoryYields == CanonicalPending => running \cap Advisory \subseteq cancelled

\* The comment at the panic handler of worker: no successor command enters a
\* terminal whose runner panicked while its process may have been alive.
NoSuccessorAfterPanic ==
    \A w \in Workers :
        worker[w].pc = "command" => Terminal[worker[w].job] \notin suspect \ {None}

\* The comment in eligible_indexes: one of the two Control workers stays free for
\* cancel, reconcile and observation while Transfer cannot take more work.
ControlStaysFree ==
    TransferFull =>
        Cardinality({w \in WorkersOf("control") : w \in Commanding /\ worker[w].job \notin Reserved})
            < Cardinality(WorkersOf("control"))

\* Workers poll their queue every 20 ms and a runner ends its command at the
\* deadline at the latest, so no worker stops for ever; time passes.
Fairness ==
    /\ \A w \in Workers : WF_vars(WorkerStep(w))
    /\ \A j \in Jobs : WF_vars(Expire(j))

FairSpec == Spec /\ Fairness

\* Every request of the Control and Transfer lanes is answered, whatever other
\* requests keep arriving, and whether or not the executor is stopped (worker,
\* ProjectRound::select).  Advisory requests are promised no answer while
\* other work keeps arriving.
CanonicalAnswered ==
    \A j \in Jobs \ Advisory : j \in waiting ~> j \notin waiting

\* A stop, or a panic, ends every worker with all requests answered (stop, Drop).
StopDrains ==
    stopping ~> /\ \A w \in Workers : worker[w].pc = "exited"
                /\ waiting = {}

=============================================================================
