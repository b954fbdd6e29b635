--------------------------- MODULE ExecutionGuard ---------------------------
(***************************************************************************)
(* Cooperative ownership (execution_guard.rs): the root barrier, the       *)
(* project effect lock, the resource fences and the routine lock, taken by *)
(* threads of several processes, kept by transfer supervisors              *)
(* (supervision.rs, runner.rs) and copied by every fork.                   *)
(*                                                                         *)
(* A lock is a flock: it belongs to an open file description.  It goes     *)
(* when somebody unlocks the description, or when the last descriptor of   *)
(* it is closed.  A forked child holds a copy of every descriptor of its   *)
(* process until it execs.  All locks are try-locks, so the only waiting   *)
(* is a retry loop or the spawn gate.                                      *)
(*                                                                         *)
(* One thread has one guard at a time, so a description is a pair          *)
(* <<thread, lock>>.  widen takes the shared root a second time before it  *)
(* drops the first one; the two are one description here.                  *)
(***************************************************************************)
EXTENDS Naturals

CONSTANTS
    Threads,     \* executor workers, the ticker, CLI commands
    Processes,
    ProcessOf,   \* [Threads -> Processes]
    Projects,    \* the effect.lock of every project
    Resources,   \* git directories, artifact and scratch directories
    Root,        \* .execution.lock
    Routine,     \* .routine-execution.lock
    None

ASSUME GuardAssumption ==
    /\ ProcessOf \in [Threads -> Processes]
    /\ Root \notin Projects \cup Resources
    /\ Routine \notin Projects \cup Resources \cup {Root}
    /\ Projects \cap Resources = {}
    /\ None \notin Projects

Locks == {Root, Routine} \cup Projects \cup Resources

\* RootGuard, ProjectGuard (with the fence of its check) and ProjectSharedGuard.
Guards ==
    [kind : {"root"}, project : {None}, resources : {{}}]
        \cup [kind : {"project"}, project : Projects, resources : {{}} \cup {{r} : r \in Resources}]
        \cup [kind : {"shared"}, project : Projects, resources : SUBSET Resources \ {{}}]

VARIABLES
    pc,           \* phase of every thread
    guard,        \* the guard a thread has or had last
    held,         \* its LockFile handles
    transferred,  \* the locks it marked transferred
    handles,      \* its InheritedLock handles
    child,        \* its forked child before exec: "none", "plain", "supervised"
    fork,         \* the descriptions that this child has copies of
    sup           \* the descriptors that its transfer supervisor keeps open

vars == <<pc, guard, held, transferred, handles, child, fork, sup>>

-----------------------------------------------------------------------------
\* Descriptions and compatibility

Open(t, l) == l \in held[t] \cup handles[t] \cup sup[t] \/ \E u \in Threads : <<t, l>> \in fork[u]

Exclusive(g, l) ==
    CASE g.kind = "root"    -> TRUE
      [] g.kind = "project" -> l # Root
      [] OTHER              -> l \in Resources

\* try_lock or try_lock_shared of thread t on lock l would succeed.
Free(t, l) ==
    \A u \in Threads \ {t} : Open(u, l) => ~Exclusive(guard[t], l) /\ ~Exclusive(guard[u], l)

\* What acquire takes: the root, the project, the fences, the routine lock.
Wanted(g) ==
    CASE g.kind = "root"    -> {Root}
      [] g.kind = "project" -> {Root, g.project}
      [] OTHER              -> {Root, g.project, Routine} \cup g.resources

Rank(l) ==
    CASE l = Root -> 0 [] l \in Projects -> 1 [] l \in Resources -> 2 [] OTHER -> 3

NextWanted(t, l) ==
    LET missing == Wanted(guard[t]) \ held[t]
    IN  l \in missing /\ \A k \in missing : Rank(l) <= Rank(k)

\* SPAWN_GATE is held shared from fork to exec, and exclusively by a close.
GateFree(t) == \A u \in Threads : ProcessOf[u] = ProcessOf[t] => child[u] = "none"

NoGuard == [kind |-> "root", project |-> None, resources |-> {}]

Init ==
    /\ pc = [t \in Threads |-> "idle"]
    /\ guard = [t \in Threads |-> NoGuard]
    /\ held = [t \in Threads |-> {}]
    /\ transferred = [t \in Threads |-> {}]
    /\ handles = [t \in Threads |-> {}]
    /\ child = [t \in Threads |-> "none"]
    /\ fork = [t \in Threads |-> {}]
    /\ sup = [t \in Threads |-> {}]

-----------------------------------------------------------------------------
\* Acquisition

\* A thread starts to acquire a guard.  A supervisor that outlived its last
\* guard has ended; another thread stands for one that does not wait for it.
Begin(t, g) ==
    /\ pc[t] = "idle"
    /\ \A l \in Locks : ~Open(t, l)
    /\ g.kind = "project" => g.resources = {}
    /\ pc' = [pc EXCEPT ![t] = "acquiring"]
    /\ guard' = [guard EXCEPT ![t] = g]
    /\ UNCHANGED <<held, transferred, handles, child, fork, sup>>

Acquire(t, l) ==
    /\ pc[t] = "acquiring"
    /\ NextWanted(t, l)
    /\ Free(t, l)
    /\ held' = [held EXCEPT ![t] = @ \cup {l}]
    /\ pc' = [pc EXCEPT ![t] = IF Wanted(guard[t]) \subseteq held[t] \cup {l} THEN "working" ELSE @]
    /\ UNCHANGED <<guard, transferred, handles, child, fork, sup>>

\* The lock is taken: the acquisition fails, and the locks it has are dropped.
\* exclusive_by and widen retry first, until their deadline.
Refuse(t, l) ==
    /\ pc[t] = "acquiring"
    /\ NextWanted(t, l)
    /\ ~Free(t, l)
    /\ pc' = [pc EXCEPT ![t] = "releasing"]
    /\ UNCHANGED <<guard, held, transferred, handles, child, fork, sup>>

\* Mutant: any guard is narrowed, not only one of a project.
NarrowAny(t, r) ==
    /\ pc[t] = "working" /\ child[t] = "none" /\ transferred[t] = {}
    /\ Free(t, r)
    /\ pc' = [pc EXCEPT ![t] = "checking"]
    /\ guard' = [guard EXCEPT ![t].resources = {r}]
    /\ held' = [held EXCEPT ![t] = (@ \ {guard[t].project}) \cup {r}]
    /\ fork' = [u \in Threads |-> fork[u] \ {<<t, guard[t].project>>}]
    /\ UNCHANGED <<transferred, handles, child, sup>>

\* A check takes the fence of its scratch directory and gives up the project.
Narrow(t, r) ==
    /\ pc[t] = "working"
    /\ child[t] = "none"
    /\ guard[t].kind = "project"
    /\ transferred[t] = {}
    /\ Free(t, r)
    /\ pc' = [pc EXCEPT ![t] = "checking"]
    /\ guard' = [guard EXCEPT ![t].resources = {r}]
    /\ held' = [held EXCEPT ![t] = (@ \ {guard[t].project}) \cup {r}]
    /\ fork' = [u \in Threads |-> fork[u] \ {<<t, guard[t].project>>}]
    /\ UNCHANGED <<transferred, handles, child, sup>>

\* The check is over: the fence is released, then the project taken again.
Widen(t) ==
    /\ pc[t] = "checking"
    /\ child[t] = "none"
    /\ pc' = [pc EXCEPT ![t] = "acquiring"]
    /\ guard' = [guard EXCEPT ![t].resources = {}]
    /\ held' = [held EXCEPT ![t] = @ \ guard[t].resources]
    /\ fork' = [u \in Threads |-> fork[u] \ {<<t, r>> : r \in guard[t].resources}]
    /\ UNCHANGED <<transferred, handles, child, sup>>

-----------------------------------------------------------------------------
\* Transfer to a supervisor

\* inherit_transfer (inherit for the root guard).  An undeclared project effect
\* takes the routine lock for its supervisor only, and closes its own descriptor of it
\* through the spawn gate; the other locks are only cloned.
InheritTransfer(t) ==
    LET locks == IF guard[t].kind = "project" THEN held[t] \cup {Routine} ELSE held[t]
    IN  /\ pc[t] = "working"
        /\ child[t] = "none"
        /\ handles[t] = {}
        /\ \A l \in locks : Free(t, l)
        /\ guard[t].kind = "project" => GateFree(t)
        /\ transferred' = [transferred EXCEPT ![t] = locks]
        /\ handles' = [handles EXCEPT ![t] = locks]
        /\ UNCHANGED <<pc, guard, held, child, fork, sup>>

\* The routine lock is taken: root and project are marked transferred already.
TransferRefused(t) ==
    /\ pc[t] = "working"
    /\ child[t] = "none"
    /\ handles[t] = {}
    /\ guard[t].kind = "project"
    /\ ~Free(t, Routine)
    /\ transferred' = [transferred EXCEPT ![t] = held[t]]
    /\ pc' = [pc EXCEPT ![t] = "releasing"]
    /\ UNCHANGED <<guard, held, handles, child, fork, sup>>

\* A command is forked: the child has every descriptor of the process.
Spawn(t, kind) ==
    /\ pc[t] \in {"working", "checking"}
    /\ child[t] = "none"
    /\ kind = "supervised" => handles[t] # {} /\ sup[t] = {}
    /\ child' = [child EXCEPT ![t] = kind]
    /\ fork' = [fork EXCEPT ![t] =
          UNION {{<<u, l>> : l \in held[u] \cup handles[u]} : u \in {v \in Threads : ProcessOf[v] = ProcessOf[t]}}]
    /\ UNCHANGED <<pc, guard, held, transferred, handles, sup>>

\* The child execs: only the descriptors passed to a supervisor stay open.
Exec(t) ==
    /\ child[t] # "none"
    /\ sup' = IF child[t] = "supervised"
              THEN [sup EXCEPT ![t] = {l \in Locks : <<t, l>> \in fork[t]}]
              ELSE sup
    /\ child' = [child EXCEPT ![t] = "none"]
    /\ fork' = [fork EXCEPT ![t] = {}]
    /\ UNCHANGED <<pc, guard, held, transferred, handles>>

\* The supervisor and its descendants end: by themselves, by the collector's
\* deadline or, after the death of the owner, by their own timeout.
SupervisorEnds(t) ==
    /\ sup[t] # {}
    /\ sup' = [sup EXCEPT ![t] = {}]
    /\ UNCHANGED <<pc, guard, held, transferred, handles, child, fork>>

-----------------------------------------------------------------------------
\* Release

\* The effect is over or failed; a killed supervisor may need a moment to die.
Finish(t) ==
    /\ pc[t] \in {"working", "checking"}
    /\ child[t] = "none"
    /\ pc' = [pc EXCEPT ![t] = "releasing"]
    /\ UNCHANGED <<guard, held, transferred, handles, child, fork, sup>>

\* Mutant: the drop unlocks a transferred lock too.
DropUnlocking(t, l) ==
    /\ pc[t] = "releasing"
    /\ handles[t] = {}
    /\ l \in held[t]
    /\ held' = [held EXCEPT ![t] = @ \ {l}]
    /\ sup' = [sup EXCEPT ![t] = @ \ {l}]
    /\ fork' = [u \in Threads |-> fork[u] \ {<<t, l>>}]
    /\ UNCHANGED <<pc, guard, transferred, handles, child>>

\* Mutant: the drop closes the descriptor and does not unlock it.
DropClosing(t, l) ==
    /\ pc[t] = "releasing"
    /\ handles[t] = {}
    /\ l \in held[t]
    /\ l \in transferred[t] => GateFree(t)
    /\ held' = [held EXCEPT ![t] = @ \ {l}]
    /\ UNCHANGED <<pc, guard, transferred, handles, child, fork, sup>>

\* Mutant: a transferred lock is left to its supervisor and never closed.
DropForgetting(t, l) ==
    /\ pc[t] = "releasing"
    /\ handles[t] = {}
    /\ l \in held[t] \ transferred[t]
    /\ held' = [held EXCEPT ![t] = @ \ {l}]
    /\ fork' = [u \in Threads |-> fork[u] \ {<<t, l>>}]
    /\ UNCHANGED <<pc, guard, transferred, handles, child, sup>>

\* Drop of a LockFile: unlock the description, or close a transferred one.  The
\* handles are declared after the guard and dropped before it.
Drop(t, l) ==
    /\ pc[t] = "releasing"
    /\ handles[t] = {}
    /\ l \in held[t]
    /\ held' = [held EXCEPT ![t] = @ \ {l}]
    /\ \/ /\ l \in transferred[t]
          /\ GateFree(t)
          /\ UNCHANGED <<fork, sup>>
       \/ /\ l \notin transferred[t]
          /\ fork' = [u \in Threads |-> fork[u] \ {<<t, l>>}]
          /\ sup' = [sup EXCEPT ![t] = @ \ {l}]
    /\ UNCHANGED <<pc, guard, transferred, handles, child>>

\* Mutant: the copy is closed while another thread forks.
CloseTransferredUngated(t, l) ==
    /\ pc[t] = "releasing"
    /\ l \in handles[t]
    /\ handles' = [handles EXCEPT ![t] = @ \ {l}]
    /\ UNCHANGED <<pc, guard, held, transferred, child, fork, sup>>

\* Drop of the next InheritedLock.
CloseTransferred(t, l) ==
    /\ pc[t] = "releasing"
    /\ l \in handles[t]
    /\ \A k \in handles[t] : Rank(l) <= Rank(k)
    /\ GateFree(t)
    /\ handles' = [handles EXCEPT ![t] = @ \ {l}]
    /\ UNCHANGED <<pc, guard, held, transferred, child, fork, sup>>

Done(t) ==
    /\ pc[t] = "releasing"
    /\ held[t] = {} /\ handles[t] = {}
    /\ pc' = [pc EXCEPT ![t] = "idle"]
    /\ guard' = [guard EXCEPT ![t] = IF sup[t] = {} THEN NoGuard ELSE @]
    /\ transferred' = [transferred EXCEPT ![t] = {}]
    /\ UNCHANGED <<held, handles, child, fork, sup>>

\* A process dies: its descriptors are closed, nothing is unlocked.
Crash(p) ==
    LET dead == {t \in Threads : ProcessOf[t] = p}
    IN  /\ \E t \in dead : pc[t] \notin {"idle", "dead"}
        /\ pc' = [t \in Threads |-> IF t \in dead THEN "dead" ELSE pc[t]]
        /\ held' = [t \in Threads |-> IF t \in dead THEN {} ELSE held[t]]
        /\ handles' = [t \in Threads |-> IF t \in dead THEN {} ELSE handles[t]]
        /\ UNCHANGED <<guard, transferred, child, fork, sup>>

\* The process is started again after its orphans are gone; other processes
\* stand for one that starts earlier.
Restart(p) ==
    LET dead == {t \in Threads : ProcessOf[t] = p}
    IN  /\ \A t \in dead : pc[t] = "dead" /\ \A l \in Locks : ~Open(t, l)
        /\ \A t \in dead : child[t] = "none"
        /\ pc' = [t \in Threads |-> IF t \in dead THEN "idle" ELSE pc[t]]
        /\ guard' = [t \in Threads |-> IF t \in dead THEN NoGuard ELSE guard[t]]
        /\ transferred' = [t \in Threads |-> IF t \in dead THEN {} ELSE transferred[t]]
        /\ UNCHANGED <<held, handles, child, fork, sup>>

-----------------------------------------------------------------------------
Next ==
    \/ \E t \in Threads :
          \/ \E g \in Guards : Begin(t, g)
          \/ \E l \in Locks : Acquire(t, l) \/ Refuse(t, l) \/ Drop(t, l) \/ CloseTransferred(t, l)
          \/ \E r \in Resources : Narrow(t, r)
          \/ \E kind \in {"plain", "supervised"} : Spawn(t, kind)
          \/ Widen(t) \/ InheritTransfer(t) \/ TransferRefused(t)
          \/ Exec(t) \/ SupervisorEnds(t) \/ Finish(t) \/ Done(t)
    \/ \E p \in Processes : Crash(p) \/ Restart(p)

Spec == Init /\ [][Next]_vars

-----------------------------------------------------------------------------
\* Properties

\* Every variable keeps its type.
TypeOK ==
    /\ pc \in [Threads -> {"idle", "acquiring", "working", "checking", "releasing", "dead"}]
    /\ guard \in [Threads -> Guards]
    /\ held \in [Threads -> SUBSET Locks]
    /\ transferred \in [Threads -> SUBSET Locks]
    /\ handles \in [Threads -> SUBSET Locks]
    /\ child \in [Threads -> {"none", "plain", "supervised"}]
    /\ fork \in [Threads -> SUBSET (Threads \X Locks)]
    /\ sup \in [Threads -> SUBSET Locks]

\* The supervised part of an effect goes on without the thread that began it.
Supervised(t) == sup[t] # {} \/ child[t] = "supervised"

Running(t) == pc[t] \in {"working", "checking"} \/ Supervised(t)

\* What the guards promise to keep apart: anything from a root effect; two
\* effects of a project, unless both declared a footprint or one is in its
\* check; two effects on one resource; two transfers, unless both declared.
Excludes(t, u) ==
    LET declared == guard[t].kind = "shared" /\ guard[u].kind = "shared"
    IN  \/ guard[t].kind = "root" \/ guard[u].kind = "root"
        \/ /\ guard[t].project = guard[u].project
           /\ pc[t] # "checking" /\ pc[u] # "checking"
           /\ ~declared
        \/ guard[t].resources \cap guard[u].resources # {}
        \/ Supervised(t) /\ Supervised(u) /\ ~declared

\* Effects that exclude each other never run at once, also when the thread
\* that began one has returned or died and only its supervisor is left.
EffectsExclude ==
    \A t, u \in Threads : t # u /\ Running(t) /\ Running(u) => ~Excludes(t, u)

\* No lock is left behind with a child that another thread has forked: while
\* the process lives, a lock is open only for its owner and its supervisor.
NoLeakedLock ==
    \A t \in Threads, l \in Locks :
        Open(t, l) /\ pc[t] # "dead" => l \in held[t] \cup handles[t] \cup sup[t]

-----------------------------------------------------------------------------
\* The inductive invariant behind EffectsExclude and NoLeakedLock

\* flock: descriptions that are open at once for one lock all share it.
LockSafety ==
    \A t, u \in Threads, l \in Locks :
        t # u /\ Open(t, l) /\ Open(u, l) =>
            ~Exclusive(guard[t], l) /\ ~Exclusive(guard[u], l)

\* The locks that a supervisor needs to keep.
Fenced(g) == IF g.kind = "root" THEN Wanted(g) ELSE Wanted(g) \cup {Routine}

\* An effect holds the locks of its guard, in its thread or its supervisor.
EffectHolds(t) ==
    /\ pc[t] = "working" => Wanted(guard[t]) \subseteq held[t]
    /\ pc[t] = "checking" => guard[t].kind = "project" /\ {Root} \cup guard[t].resources \subseteq held[t]
    /\ pc[t] = "working" /\ handles[t] # {} => Fenced(guard[t]) \subseteq handles[t]
    /\ child[t] = "supervised" => \A l \in Fenced(guard[t]) : <<t, l>> \in fork[t]
    /\ sup[t] # {} => Fenced(guard[t]) \subseteq sup[t]

\* Only a guard in its check has a fence besides the ones it declared.
FenceOfCheck(t) ==
    guard[t].kind = "project" /\ (pc[t] \in {"acquiring", "working"} \/ Supervised(t)) =>
        guard[t].resources = {}

\* What the phases of a thread say of its descriptors.
Phases(t) ==
    /\ pc[t] \in {"idle", "acquiring", "checking"} => transferred[t] = {} /\ handles[t] = {}
    /\ pc[t] \in {"acquiring", "checking"} => sup[t] = {} /\ child[t] # "supervised"
    /\ pc[t] \in {"idle", "acquiring", "releasing"} => child[t] = "none"
    /\ pc[t] = "working" /\ handles[t] = {} => transferred[t] = {}
    /\ pc[t] = "idle" => held[t] = {}
    /\ child[t] = "none" => fork[t] = {}

\* Whatever outlives the LockFile is marked, so its drop does not unlock it.
Marked(t) ==
    pc[t] \in {"working", "releasing"} =>
        /\ handles[t] \cup sup[t] \subseteq transferred[t]
        /\ child[t] = "supervised" => handles[t] # {} /\ held[t] \subseteq transferred[t]
        /\ handles[t] # {} /\ pc[t] = "working" => held[t] \subseteq transferred[t]

\* A pending child has copies of its own process, which are still open there.
Copies(u) ==
    \A t \in Threads, l \in Locks : <<t, l>> \in fork[u] =>
        /\ ProcessOf[t] = ProcessOf[u]
        /\ pc[t] # "dead" => l \in held[t] \cup handles[t]

IInv ==
    /\ TypeOK
    /\ LockSafety
    /\ \A t \in Threads : EffectHolds(t) /\ FenceOfCheck(t) /\ Phases(t) /\ Marked(t) /\ Copies(t)

-----------------------------------------------------------------------------
\* Progress.  An exec does not wait for anything, a supervisor has a timeout, a
\* thread that releases goes on; std's RwLock prefers a waiting writer, so a
\* close is not overtaken by spawns for ever.
Fairness ==
    \A t \in Threads :
        /\ WF_vars(Exec(t))
        /\ WF_vars(SupervisorEnds(t))
        /\ SF_vars(Done(t) \/ \E l \in Locks : Drop(t, l) \/ CloseTransferred(t, l))

FairSpec == Spec /\ Fairness

\* What a thread gives back, or leaves behind when it dies, becomes free: no
\* orphaned transfer and no pending child keeps a project locked for good.
LocksReturn ==
    \A t \in Threads : pc[t] \in {"releasing", "dead"} ~> \A l \in Locks : ~Open(t, l)
=============================================================================
