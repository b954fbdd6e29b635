------------------------ MODULE ExecutionGuardProofs ------------------------
(***************************************************************************)
(* Proofs about ExecutionGuard, for any number of threads, processes,      *)
(* projects and resources: effects that exclude each other never run at    *)
(* once, and no pending child keeps a lock of a living process.            *)
(***************************************************************************)
EXTENDS ExecutionGuard, TLAPS

-----------------------------------------------------------------------------
\* Guards

\* What a guard record says of its kind, and that its locks are locks.
LEMMA GuardFacts ==
    ASSUME NEW g \in Guards
    PROVE  /\ g.kind \in {"root", "project", "shared"}
           /\ g.kind # "root" => g.project \in Projects
           /\ g.resources \subseteq Resources
           /\ Wanted(g) \subseteq Locks
           /\ Fenced(g) \subseteq Locks
           /\ Root \in Wanted(g)
           /\ g.kind # "root" => g.project \in Wanted(g) /\ Routine \in Fenced(g)
           /\ Wanted(g) \subseteq Fenced(g)
<1>1. /\ g.kind \in {"root", "project", "shared"}
      /\ g.kind # "root" => g.project \in Projects
      /\ g.resources \subseteq Resources
  BY DEF Guards
<1>2. Wanted(g) \subseteq Locks /\ Root \in Wanted(g)
  BY <1>1 DEF Wanted, Locks
<1> QED
  BY <1>1, <1>2 DEF Wanted, Fenced, Locks

\* A lock that only one thread gains, after a successful try-lock, stays safe.
LEMMA OneThreadLocks ==
    ASSUME LockSafety,
           NEW t \in Threads,
           \A u \in Threads, l \in Locks : Exclusive(guard'[u], l) = Exclusive(guard[u], l) \/ ~Open(u, l)',
           \A u \in Threads \ {t}, l \in Locks : Open(u, l)' => Open(u, l),
           \A l \in Locks : Open(t, l)' => Open(t, l) \/ Free(t, l)
    PROVE  LockSafety'
<1> SUFFICES ASSUME NEW v \in Threads, NEW w \in Threads, NEW l \in Locks,
                    v # w, Open(v, l)', Open(w, l)'
             PROVE  ~Exclusive(guard'[v], l) /\ ~Exclusive(guard'[w], l)
  BY DEF LockSafety
<1>1. ~Exclusive(guard[v], l) /\ ~Exclusive(guard[w], l)
  <2>1. CASE Open(v, l) /\ Open(w, l)
    BY <2>1 DEF LockSafety
  <2>2. CASE v = t /\ Free(t, l)
    BY <2>2 DEF Free
  <2>3. CASE w = t /\ Free(t, l)
    BY <2>3 DEF Free
  <2> QED
    BY <2>1, <2>2, <2>3
<1> QED
  BY <1>1
-----------------------------------------------------------------------------
\* Every action preserves the inductive invariant

\* Begin: nothing of the thread is open, so its new guard excludes nobody yet.
LEMMA BeginStep ==
    ASSUME IInv, NEW t \in Threads, NEW g \in Guards, Begin(t, g)
    PROVE  IInv'
<1> USE DEF IInv
<1>a. sup[t] = {} /\ held[t] = {} /\ \A k \in Locks : ~Open(t, k)'
  <2>1. \A k \in Locks : ~Open(t, k)
    BY DEF Begin
  <2> QED
    BY <2>1 DEF TypeOK, Begin, Open
<1>1. TypeOK'
  BY GuardAssumption, <1>a DEF TypeOK, Begin, Locks
<1>2. LockSafety'
  <2>1. \A u \in Threads, k \in Locks : Open(u, k)' => Open(u, k)
    BY DEF TypeOK, Begin, Open
  <2>2. \A u \in Threads, k \in Locks : Exclusive(guard'[u], k) = Exclusive(guard[u], k) \/ ~Open(u, k)'
    BY <1>a DEF TypeOK, Begin, Exclusive
  <2> QED
    BY <2>1, <2>2, OneThreadLocks DEF Begin
<1>3. ASSUME NEW v \in Threads
      PROVE  (EffectHolds(v) /\ FenceOfCheck(v) /\ Phases(v) /\ Marked(v) /\ Copies(v))'
  <2>1. EffectHolds(v)'
    BY GuardFacts, <1>a DEF TypeOK, Begin, EffectHolds, Phases, Supervised, Locks
  <2>2. FenceOfCheck(v)'
    BY GuardFacts, <1>a DEF TypeOK, Begin, FenceOfCheck, Phases, Supervised, Locks
  <2>3. Phases(v)'
    BY GuardFacts, <1>a DEF TypeOK, Begin, Phases, Supervised, Locks
  <2>4. Marked(v)'
    BY GuardFacts, <1>a DEF TypeOK, Begin, Marked, Phases, Supervised, Locks
  <2>5. Copies(v)'
    BY GuardFacts, <1>a DEF TypeOK, Begin, Copies, Phases, Supervised, Locks
  <2> QED
    BY <2>1, <2>2, <2>3, <2>4, <2>5
<1> QED
  BY <1>1, <1>2, <1>3

\* Acquire: the try-lock succeeded, so the new description is compatible.
LEMMA AcquireStep ==
    ASSUME IInv, NEW t \in Threads, NEW l \in Locks, Acquire(t, l)
    PROVE  IInv'
<1> USE DEF IInv
<1>1. TypeOK'
  BY GuardAssumption DEF TypeOK, Acquire, Locks, NextWanted
<1>2. LockSafety'
  <2>1. \A u \in Threads, k \in Locks : Open(u, k)' => Open(u, k) \/ (u = t /\ k = l)
    BY DEF TypeOK, Acquire, Open
  <2>2. \A u \in Threads, k \in Locks : Exclusive(guard'[u], k) = Exclusive(guard[u], k) \/ ~Open(u, k)'
    BY <2>1 DEF TypeOK, Acquire, Exclusive
  <2> QED
    BY <2>1, <2>2, OneThreadLocks DEF Acquire
<1>3. ASSUME NEW v \in Threads
      PROVE  (EffectHolds(v) /\ FenceOfCheck(v) /\ Phases(v) /\ Marked(v) /\ Copies(v))'
  <2>1. EffectHolds(v)'
    BY GuardFacts DEF TypeOK, Acquire, EffectHolds, Phases, Supervised, Locks, NextWanted
  <2>2. FenceOfCheck(v)'
    BY GuardFacts DEF TypeOK, Acquire, FenceOfCheck, Phases, Supervised, Locks, NextWanted
  <2>3. Phases(v)'
    BY GuardFacts DEF TypeOK, Acquire, Phases, Supervised, Locks, NextWanted
  <2>4. Marked(v)'
    BY GuardFacts DEF TypeOK, Acquire, Marked, Phases, Supervised, Locks, NextWanted
  <2>5. Copies(v)'
    BY GuardFacts DEF TypeOK, Acquire, Copies, Phases, Supervised, Locks, NextWanted
  <2> QED
    BY <2>1, <2>2, <2>3, <2>4, <2>5
<1> QED
  BY <1>1, <1>2, <1>3

\* Refuse: only the phase changes.
LEMMA RefuseStep ==
    ASSUME IInv, NEW t \in Threads, NEW l \in Locks, Refuse(t, l)
    PROVE  IInv'
<1> USE DEF IInv
<1>1. TypeOK'
  BY GuardAssumption DEF TypeOK, Refuse, Locks
<1>2. LockSafety'
  <2>1. \A u \in Threads, k \in Locks : Open(u, k)' => Open(u, k)
    BY DEF TypeOK, Refuse, Open
  <2>2. \A u \in Threads, k \in Locks : Exclusive(guard'[u], k) = Exclusive(guard[u], k) \/ ~Open(u, k)'
    BY <2>1 DEF TypeOK, Refuse, Exclusive
  <2> QED
    BY <2>1, <2>2, OneThreadLocks DEF Refuse
<1>3. ASSUME NEW v \in Threads
      PROVE  (EffectHolds(v) /\ FenceOfCheck(v) /\ Phases(v) /\ Marked(v) /\ Copies(v))'
  <2>1. EffectHolds(v)'
    BY GuardFacts DEF TypeOK, Refuse, EffectHolds, Phases, Supervised, Locks
  <2>2. FenceOfCheck(v)'
    BY GuardFacts DEF TypeOK, Refuse, FenceOfCheck, Phases, Supervised, Locks
  <2>3. Phases(v)'
    BY GuardFacts DEF TypeOK, Refuse, Phases, Supervised, Locks
  <2>4. Marked(v)'
    BY GuardFacts DEF TypeOK, Refuse, Marked, Phases, Supervised, Locks
  <2>5. Copies(v)'
    BY GuardFacts DEF TypeOK, Refuse, Copies, Phases, Supervised, Locks
  <2> QED
    BY <2>1, <2>2, <2>3, <2>4, <2>5
<1> QED
  BY <1>1, <1>2, <1>3

\* Narrow: the fence is free, and the unlocked project had no other copy.
LEMMA NarrowStep ==
    ASSUME IInv, NEW t \in Threads, NEW r \in Resources, Narrow(t, r)
    PROVE  IInv'
<1> USE DEF IInv
<1> DEFINE new == [guard[t] EXCEPT !.resources = {r}]
<1>a. guard[t] \in Guards /\ guard[t].kind = "project" /\ guard[t].project \in Projects
  BY GuardFacts DEF TypeOK, Narrow
<1>b. /\ new \in Guards
      /\ new.kind = "project" /\ new.project = guard[t].project /\ new.resources = {r}
  BY <1>a DEF Guards
<1>c. guard' = [guard EXCEPT ![t] = new]
  BY <1>a DEF Narrow, TypeOK
<1> HIDE DEF new
<1>d. sup[t] = {} /\ handles[t] = {} /\ child[t] = "none" /\ fork[t] = {}
  BY DEF Narrow, Phases, Marked, TypeOK
<1>1. TypeOK'
  <2>1. guard' \in [Threads -> Guards]
    BY <1>b, <1>c DEF TypeOK
  <2>2. held' \in [Threads -> SUBSET Locks]
    BY DEF TypeOK, Narrow, Locks
  <2>3. fork' \in [Threads -> SUBSET (Threads \X Locks)]
    BY DEF TypeOK, Narrow
  <2> QED
    BY <2>1, <2>2, <2>3 DEF TypeOK, Narrow
<1>2. LockSafety'
  <2>1. \A u \in Threads, k \in Locks : Open(u, k)' => Open(u, k) \/ (u = t /\ k = r)
    BY DEF TypeOK, Narrow, Open
  <2>2. \A u \in Threads, k \in Locks : Exclusive(guard'[u], k) = Exclusive(guard[u], k) \/ ~Open(u, k)'
    BY <1>a, <1>b, <1>c DEF TypeOK, Exclusive
  <2> QED
    BY <2>1, <2>2, OneThreadLocks DEF Narrow
<1>3. ASSUME NEW v \in Threads
      PROVE  (EffectHolds(v) /\ FenceOfCheck(v) /\ Phases(v) /\ Marked(v) /\ Copies(v))'
  <2>1. EffectHolds(v)'
    BY GuardFacts, GuardAssumption, <1>a, <1>b, <1>c, <1>d DEF TypeOK, Narrow, EffectHolds, Wanted, Locks
  <2>2. FenceOfCheck(v)'
    BY GuardFacts, <1>a, <1>b, <1>c, <1>d DEF TypeOK, Narrow, FenceOfCheck, Phases, Supervised, Locks
  <2>3. Phases(v)'
    BY GuardFacts, <1>a, <1>b, <1>c, <1>d DEF TypeOK, Narrow, Phases, Supervised, Locks
  <2>4. Marked(v)'
    BY GuardFacts, <1>a, <1>b, <1>c, <1>d DEF TypeOK, Narrow, Marked, Phases, Supervised, Locks
  <2>5. Copies(v)'
    BY GuardFacts, <1>a, <1>b, <1>c, <1>d DEF TypeOK, Narrow, Copies, Phases, Supervised, Locks
  <2> QED
    BY <2>1, <2>2, <2>3, <2>4, <2>5
<1> QED
  BY <1>1, <1>2, <1>3

\* Widen: the fence goes, the root stays.
LEMMA WidenStep ==
    ASSUME IInv, NEW t \in Threads, Widen(t)
    PROVE  IInv'
<1> USE DEF IInv
<1> DEFINE new == [guard[t] EXCEPT !.resources = {}]
<1>a. guard[t] \in Guards /\ guard[t].kind = "project" /\ guard[t].project \in Projects
  BY GuardFacts DEF TypeOK, Widen, EffectHolds
<1>b. /\ new \in Guards
      /\ new.kind = "project" /\ new.project = guard[t].project /\ new.resources = {}
  BY <1>a DEF Guards
<1>c. guard' = [guard EXCEPT ![t] = new]
  BY <1>a DEF Widen, TypeOK
<1> HIDE DEF new
<1>d. sup[t] = {} /\ handles[t] = {} /\ child[t] = "none" /\ fork[t] = {}
  BY DEF Widen, Phases, Marked, TypeOK
<1>1. TypeOK'
  <2>1. guard' \in [Threads -> Guards]
    BY <1>b, <1>c DEF TypeOK
  <2>2. held' \in [Threads -> SUBSET Locks]
    BY DEF TypeOK, Widen, Locks
  <2>3. fork' \in [Threads -> SUBSET (Threads \X Locks)]
    BY DEF TypeOK, Widen
  <2> QED
    BY <2>1, <2>2, <2>3 DEF TypeOK, Widen
<1>2. LockSafety'
  <2>1. \A u \in Threads, k \in Locks : Open(u, k)' => Open(u, k)
    BY DEF TypeOK, Widen, Open
  <2>2. \A u \in Threads, k \in Locks : Exclusive(guard'[u], k) = Exclusive(guard[u], k) \/ ~Open(u, k)'
    BY <1>a, <1>b, <1>c DEF TypeOK, Exclusive
  <2> QED
    BY <2>1, <2>2, OneThreadLocks DEF Widen
<1>3. ASSUME NEW v \in Threads
      PROVE  (EffectHolds(v) /\ FenceOfCheck(v) /\ Phases(v) /\ Marked(v) /\ Copies(v))'
  <2>1. EffectHolds(v)'
    BY GuardFacts, GuardAssumption, <1>a, <1>b, <1>c, <1>d DEF TypeOK, Widen, EffectHolds, Wanted, Locks
  <2>2. FenceOfCheck(v)'
    BY GuardFacts, <1>a, <1>b, <1>c, <1>d DEF TypeOK, Widen, FenceOfCheck, Phases, Supervised, Locks
  <2>3. Phases(v)'
    BY GuardFacts, <1>a, <1>b, <1>c, <1>d DEF TypeOK, Widen, Phases, Supervised, Locks
  <2>4. Marked(v)'
    BY GuardFacts, <1>a, <1>b, <1>c, <1>d DEF TypeOK, Widen, Marked, Phases, Supervised, Locks
  <2>5. Copies(v)'
    BY GuardFacts, <1>a, <1>b, <1>c, <1>d DEF TypeOK, Widen, Copies, Phases, Supervised, Locks
  <2> QED
    BY <2>1, <2>2, <2>3, <2>4, <2>5
<1> QED
  BY <1>1, <1>2, <1>3

\* InheritTransfer: whatever the handles keep open is marked transferred.
LEMMA TransferStep ==
    ASSUME IInv, NEW t \in Threads, InheritTransfer(t)
    PROVE  IInv'
<1> USE DEF IInv
<1>1. TypeOK'
  BY GuardAssumption DEF TypeOK, InheritTransfer, Locks
<1>2. LockSafety'
  <2>1. \A u \in Threads, k \in Locks : Open(u, k)' => Open(u, k) \/ (u = t /\ Free(t, k))
    BY DEF TypeOK, InheritTransfer, Open
  <2>2. \A u \in Threads, k \in Locks : Exclusive(guard'[u], k) = Exclusive(guard[u], k) \/ ~Open(u, k)'
    BY <2>1 DEF TypeOK, InheritTransfer, Exclusive
  <2> QED
    BY <2>1, <2>2, OneThreadLocks DEF InheritTransfer
<1>3. ASSUME NEW v \in Threads
      PROVE  (EffectHolds(v) /\ FenceOfCheck(v) /\ Phases(v) /\ Marked(v) /\ Copies(v))'
  <2>1. EffectHolds(v)'
    BY GuardFacts DEF TypeOK, InheritTransfer, EffectHolds, Phases, Supervised, Locks, Fenced, Wanted
  <2>2. FenceOfCheck(v)'
    BY GuardFacts DEF TypeOK, InheritTransfer, FenceOfCheck, Phases, Supervised, Locks
  <2>3. Phases(v)'
    BY GuardFacts DEF TypeOK, InheritTransfer, Phases, Supervised, Locks
  <2>4. Marked(v)'
    BY GuardFacts DEF TypeOK, InheritTransfer, Marked, Phases, Supervised, Locks, EffectHolds
  <2>5. Copies(v)'
    BY GuardFacts DEF TypeOK, InheritTransfer, Copies, Phases, Supervised, Locks
  <2> QED
    BY <2>1, <2>2, <2>3, <2>4, <2>5
<1> QED
  BY <1>1, <1>2, <1>3

\* TransferRefused: the marked locks are closed later, through the gate.
LEMMA TransferRefusedStep ==
    ASSUME IInv, NEW t \in Threads, TransferRefused(t)
    PROVE  IInv'
<1> USE DEF IInv
<1>1. TypeOK'
  BY GuardAssumption DEF TypeOK, TransferRefused, Locks
<1>2. LockSafety'
  <2>1. \A u \in Threads, k \in Locks : Open(u, k)' => Open(u, k)
    BY DEF TypeOK, TransferRefused, Open
  <2>2. \A u \in Threads, k \in Locks : Exclusive(guard'[u], k) = Exclusive(guard[u], k) \/ ~Open(u, k)'
    BY <2>1 DEF TypeOK, TransferRefused, Exclusive
  <2> QED
    BY <2>1, <2>2, OneThreadLocks DEF TransferRefused
<1>3. ASSUME NEW v \in Threads
      PROVE  (EffectHolds(v) /\ FenceOfCheck(v) /\ Phases(v) /\ Marked(v) /\ Copies(v))'
  <2>1. EffectHolds(v)'
    BY GuardFacts DEF TypeOK, TransferRefused, EffectHolds, Phases, Supervised, Locks
  <2>2. FenceOfCheck(v)'
    BY GuardFacts DEF TypeOK, TransferRefused, FenceOfCheck, Phases, Supervised, Locks
  <2>3. Phases(v)'
    BY GuardFacts DEF TypeOK, TransferRefused, Phases, Supervised, Locks
  <2>4. Marked(v)'
    BY GuardFacts DEF TypeOK, TransferRefused, Marked, Phases, Supervised, Locks
  <2>5. Copies(v)'
    BY GuardFacts DEF TypeOK, TransferRefused, Copies, Phases, Supervised, Locks
  <2> QED
    BY <2>1, <2>2, <2>3, <2>4, <2>5
<1> QED
  BY <1>1, <1>2, <1>3

\* Spawn: the child copies descriptors, it opens no description.
LEMMA SpawnStep ==
    ASSUME IInv, NEW t \in Threads, NEW k \in {"plain", "supervised"}, Spawn(t, k)
    PROVE  IInv'
<1> USE DEF IInv
<1>1. TypeOK'
  BY GuardAssumption DEF TypeOK, Spawn, Locks
<1>2. LockSafety'
  <2>1. \A u \in Threads, m \in Locks : Open(u, m)' => Open(u, m)
    BY DEF TypeOK, Spawn, Open
  <2>2. \A u \in Threads, m \in Locks : Exclusive(guard'[u], m) = Exclusive(guard[u], m) \/ ~Open(u, m)'
    BY <2>1 DEF TypeOK, Spawn, Exclusive
  <2> QED
    BY <2>1, <2>2, OneThreadLocks DEF Spawn
<1>3. ASSUME NEW v \in Threads
      PROVE  (EffectHolds(v) /\ FenceOfCheck(v) /\ Phases(v) /\ Marked(v) /\ Copies(v))'
  <2>1. EffectHolds(v)'
    BY GuardFacts DEF TypeOK, Spawn, EffectHolds, Phases, Supervised, Locks
  <2>2. FenceOfCheck(v)'
    BY GuardFacts DEF TypeOK, Spawn, FenceOfCheck, Phases, Supervised, Locks
  <2>3. Phases(v)'
    BY GuardFacts DEF TypeOK, Spawn, Phases, Supervised, Locks
  <2>4. Marked(v)'
    BY GuardFacts DEF TypeOK, Spawn, Marked, Phases, Supervised, Locks
  <2>5. Copies(v)'
    BY GuardFacts DEF TypeOK, Spawn, Copies, Phases, Supervised, Locks
  <2> QED
    BY <2>1, <2>2, <2>3, <2>4, <2>5
<1> QED
  BY <1>1, <1>2, <1>3

\* Exec: a supervisor keeps the locks that were passed to it.
LEMMA ExecStep ==
    ASSUME IInv, NEW t \in Threads, Exec(t)
    PROVE  IInv'
<1> USE DEF IInv
<1>1. TypeOK'
  BY GuardAssumption DEF TypeOK, Exec, Locks
<1>2. LockSafety'
  <2>1. \A u \in Threads, k \in Locks : Open(u, k)' => Open(u, k)
    BY DEF TypeOK, Exec, Open
  <2>2. \A u \in Threads, k \in Locks : Exclusive(guard'[u], k) = Exclusive(guard[u], k) \/ ~Open(u, k)'
    BY <2>1 DEF TypeOK, Exec, Exclusive
  <2> QED
    BY <2>1, <2>2, OneThreadLocks DEF Exec
<1>3. ASSUME NEW v \in Threads
      PROVE  (EffectHolds(v) /\ FenceOfCheck(v) /\ Phases(v) /\ Marked(v) /\ Copies(v))'
  <2>1. EffectHolds(v)'
    <3>1. Fenced(guard[v]) \subseteq Locks
      BY GuardFacts DEF TypeOK
    <3> QED
      BY <3>1 DEF TypeOK, Exec, EffectHolds, Phases
  <2>2. FenceOfCheck(v)'
    BY GuardFacts DEF TypeOK, Exec, FenceOfCheck, Phases, Supervised, Locks
  <2>3. Phases(v)'
    BY GuardFacts DEF TypeOK, Exec, Phases, Supervised, Locks
  <2>4. Marked(v)'
    <3>1. CASE v # t \/ child[t] # "supervised"
      BY <3>1 DEF TypeOK, Exec, Marked
    <3>2. CASE v = t /\ child[t] = "supervised" /\ pc[t] \in {"working", "releasing"}
      <4>1. sup'[t] \subseteq held[t] \cup handles[t]
        BY <3>2 DEF TypeOK, Exec, Copies
      <4> QED
        BY <4>1, <3>2 DEF TypeOK, Exec, Marked
    <3> QED
      BY <3>1, <3>2 DEF Exec, Marked
  <2>5. Copies(v)'
    BY GuardFacts DEF TypeOK, Exec, Copies, Phases, Supervised, Locks
  <2> QED
    BY <2>1, <2>2, <2>3, <2>4, <2>5
<1> QED
  BY <1>1, <1>2, <1>3

\* SupervisorEnds: descriptors are closed.
LEMMA SupervisorEndsStep ==
    ASSUME IInv, NEW t \in Threads, SupervisorEnds(t)
    PROVE  IInv'
<1> USE DEF IInv
<1>1. TypeOK'
  BY GuardAssumption DEF TypeOK, SupervisorEnds, Locks
<1>2. LockSafety'
  <2>1. \A u \in Threads, k \in Locks : Open(u, k)' => Open(u, k)
    BY DEF TypeOK, SupervisorEnds, Open
  <2>2. \A u \in Threads, k \in Locks : Exclusive(guard'[u], k) = Exclusive(guard[u], k) \/ ~Open(u, k)'
    BY <2>1 DEF TypeOK, SupervisorEnds, Exclusive
  <2> QED
    BY <2>1, <2>2, OneThreadLocks DEF SupervisorEnds
<1>3. ASSUME NEW v \in Threads
      PROVE  (EffectHolds(v) /\ FenceOfCheck(v) /\ Phases(v) /\ Marked(v) /\ Copies(v))'
  <2>1. EffectHolds(v)'
    BY GuardFacts DEF TypeOK, SupervisorEnds, EffectHolds, Phases, Supervised, Locks
  <2>2. FenceOfCheck(v)'
    BY GuardFacts DEF TypeOK, SupervisorEnds, FenceOfCheck, Phases, Supervised, Locks
  <2>3. Phases(v)'
    BY GuardFacts DEF TypeOK, SupervisorEnds, Phases, Supervised, Locks
  <2>4. Marked(v)'
    BY GuardFacts DEF TypeOK, SupervisorEnds, Marked, Phases, Supervised, Locks
  <2>5. Copies(v)'
    BY GuardFacts DEF TypeOK, SupervisorEnds, Copies, Phases, Supervised, Locks
  <2> QED
    BY <2>1, <2>2, <2>3, <2>4, <2>5
<1> QED
  BY <1>1, <1>2, <1>3

\* Finish: no child of the thread is pending.
LEMMA FinishStep ==
    ASSUME IInv, NEW t \in Threads, Finish(t)
    PROVE  IInv'
<1> USE DEF IInv
<1>1. TypeOK'
  BY GuardAssumption DEF TypeOK, Finish, Locks
<1>2. LockSafety'
  <2>1. \A u \in Threads, k \in Locks : Open(u, k)' => Open(u, k)
    BY DEF TypeOK, Finish, Open
  <2>2. \A u \in Threads, k \in Locks : Exclusive(guard'[u], k) = Exclusive(guard[u], k) \/ ~Open(u, k)'
    BY <2>1 DEF TypeOK, Finish, Exclusive
  <2> QED
    BY <2>1, <2>2, OneThreadLocks DEF Finish
<1>3. ASSUME NEW v \in Threads
      PROVE  (EffectHolds(v) /\ FenceOfCheck(v) /\ Phases(v) /\ Marked(v) /\ Copies(v))'
  <2>1. EffectHolds(v)'
    BY GuardFacts DEF TypeOK, Finish, EffectHolds, Phases, Supervised, Locks
  <2>2. FenceOfCheck(v)'
    BY GuardFacts DEF TypeOK, Finish, FenceOfCheck, Phases, Supervised, Locks
  <2>3. Phases(v)'
    BY GuardFacts DEF TypeOK, Finish, Phases, Supervised, Locks
  <2>4. Marked(v)'
    BY GuardFacts DEF TypeOK, Finish, Marked, Phases, Supervised, Locks
  <2>5. Copies(v)'
    BY GuardFacts DEF TypeOK, Finish, Copies, Phases, Supervised, Locks
  <2> QED
    BY <2>1, <2>2, <2>3, <2>4, <2>5
<1> QED
  BY <1>1, <1>2, <1>3

\* Drop: an unlock spares the transferred locks, a close waits for the gate.
LEMMA DropStep ==
    ASSUME IInv, NEW t \in Threads, NEW l \in Locks, Drop(t, l)
    PROVE  IInv'
<1> USE DEF IInv
<1>1. TypeOK'
  BY GuardAssumption DEF TypeOK, Drop, Locks
<1>2. LockSafety'
  <2>1. \A u \in Threads, k \in Locks : Open(u, k)' => Open(u, k)
    BY DEF TypeOK, Drop, Open
  <2>2. \A u \in Threads, k \in Locks : Exclusive(guard'[u], k) = Exclusive(guard[u], k) \/ ~Open(u, k)'
    BY <2>1 DEF TypeOK, Drop, Exclusive
  <2> QED
    BY <2>1, <2>2, OneThreadLocks DEF Drop
<1>3. ASSUME NEW v \in Threads
      PROVE  (EffectHolds(v) /\ FenceOfCheck(v) /\ Phases(v) /\ Marked(v) /\ Copies(v))'
  <2>a. UNCHANGED <<pc, guard, transferred, handles, child>>
    BY DEF Drop
  <2>b. held'[v] = IF v = t THEN held[v] \ {l} ELSE held[v]
    BY DEF TypeOK, Drop
  <2>c. sup'[v] = sup[v]
    <3>1. sup[t] \subseteq transferred[t]
      BY DEF Drop, Marked
    <3>2. sup \in [Threads -> SUBSET Locks]
      BY DEF TypeOK
    <3> HIDE DEF IInv
    <3>3. sup' = sup \/ (l \notin transferred[t] /\ sup' = [sup EXCEPT ![t] = @ \ {l}])
      BY DEF Drop
    <3> QED
      BY <3>1, <3>2, <3>3
  <2>d. /\ fork'[v] \subseteq fork[v]
        /\ v # t => \A k : <<v, k>> \in fork[v] => <<v, k>> \in fork'[v]
    BY DEF TypeOK, Drop
  <2>e. pc[t] = "releasing" /\ handles[t] = {} /\ child[t] = "none"
    BY DEF Drop, Phases
  <2>f. EffectHolds(v) /\ FenceOfCheck(v) /\ Phases(v) /\ Marked(v) /\ Copies(v)
    OBVIOUS
  <2>g. <<t, l>> \notin fork'[v] \/ ProcessOf[t] # ProcessOf[v]
    BY DEF TypeOK, Drop, GateFree, Phases
  <2>h. \A u \in Threads, k \in Locks : <<u, k>> # <<t, l>> /\ k \in held[u] => k \in held'[u]
    BY DEF TypeOK, Drop
  <2> HIDE DEF IInv
  <2>1. EffectHolds(v)'
    BY <2>a, <2>b, <2>c, <2>d, <2>e, <2>f DEF EffectHolds
  <2>2. FenceOfCheck(v)'
    BY <2>a, <2>c, <2>f DEF FenceOfCheck, Supervised
  <2>3. Phases(v)'
    BY <2>a, <2>b, <2>c, <2>d, <2>f DEF Phases
  <2>4. Marked(v)'
    BY <2>a, <2>b, <2>c, <2>f DEF Marked
  <2>5. Copies(v)'
    BY <2>a, <2>d, <2>f, <2>g, <2>h DEF Copies
  <2> QED
    BY <2>1, <2>2, <2>3, <2>4, <2>5
<1> QED
  BY <1>1, <1>2, <1>3

\* CloseTransferred: the gate is free, so no child has a copy.
LEMMA CloseStep ==
    ASSUME IInv, NEW t \in Threads, NEW l \in Locks, CloseTransferred(t, l)
    PROVE  IInv'
<1> USE DEF IInv
<1>1. TypeOK'
  BY GuardAssumption DEF TypeOK, CloseTransferred, Locks
<1>2. LockSafety'
  <2>1. \A u \in Threads, k \in Locks : Open(u, k)' => Open(u, k)
    BY DEF TypeOK, CloseTransferred, Open
  <2>2. \A u \in Threads, k \in Locks : Exclusive(guard'[u], k) = Exclusive(guard[u], k) \/ ~Open(u, k)'
    BY <2>1 DEF TypeOK, CloseTransferred, Exclusive
  <2> QED
    BY <2>1, <2>2, OneThreadLocks DEF CloseTransferred
<1>3. ASSUME NEW v \in Threads
      PROVE  (EffectHolds(v) /\ FenceOfCheck(v) /\ Phases(v) /\ Marked(v) /\ Copies(v))'
  <2>1. EffectHolds(v)'
    BY GuardFacts DEF TypeOK, CloseTransferred, EffectHolds, Phases, Supervised, Locks
  <2>2. FenceOfCheck(v)'
    BY GuardFacts DEF TypeOK, CloseTransferred, FenceOfCheck, Phases, Supervised, Locks
  <2>3. Phases(v)'
    BY GuardFacts DEF TypeOK, CloseTransferred, Phases, Supervised, Locks
  <2>4. Marked(v)'
    BY GuardFacts DEF TypeOK, CloseTransferred, Marked, Phases, Supervised, Locks
  <2>5. Copies(v)'
    BY GuardFacts DEF TypeOK, CloseTransferred, Copies, Phases, Supervised, Locks, GateFree
  <2> QED
    BY <2>1, <2>2, <2>3, <2>4, <2>5
<1> QED
  BY <1>1, <1>2, <1>3

\* Done: the guard is forgotten only when its supervisor has ended.
LEMMA DoneStep ==
    ASSUME IInv, NEW t \in Threads, Done(t)
    PROVE  IInv'
<1> USE DEF IInv
<1>a. NoGuard \in Guards
  BY DEF NoGuard, Guards
<1>1. TypeOK'
  BY GuardAssumption, <1>a DEF TypeOK, Done, Locks
<1>2. LockSafety'
  <2>1. \A u \in Threads, k \in Locks : Open(u, k)' => Open(u, k)
    BY DEF TypeOK, Done, Open
  <2>2. ASSUME NEW u \in Threads, NEW k \in Locks
        PROVE  Exclusive(guard'[u], k) = Exclusive(guard[u], k) \/ ~Open(u, k)'
    <3>1. CASE u = t /\ sup[t] = {}
      BY <3>1 DEF TypeOK, Done, Open, Copies
    <3>2. CASE u # t \/ sup[t] # {}
      <4>1. guard'[u] = guard[u]
        BY <3>2 DEF TypeOK, Done
      <4> QED
        BY <4>1
    <3> QED
      BY <3>1, <3>2
  <2> QED
    BY <2>1, <2>2, OneThreadLocks DEF Done
<1>3. ASSUME NEW v \in Threads
      PROVE  (EffectHolds(v) /\ FenceOfCheck(v) /\ Phases(v) /\ Marked(v) /\ Copies(v))'
  <2>1. EffectHolds(v)'
    BY GuardFacts, <1>a DEF TypeOK, Done, EffectHolds, Phases, Supervised, Locks
  <2>2. FenceOfCheck(v)'
    BY GuardFacts, <1>a DEF TypeOK, Done, FenceOfCheck, Phases, Supervised, Locks
  <2>3. Phases(v)'
    BY GuardFacts, <1>a DEF TypeOK, Done, Phases, Supervised, Locks
  <2>4. Marked(v)'
    BY GuardFacts, <1>a DEF TypeOK, Done, Marked, Phases, Supervised, Locks
  <2>5. Copies(v)'
    <3>1. UNCHANGED <<held, handles, child, fork, sup>>
      BY DEF Done
    <3>2. Copies(v)
      OBVIOUS
    <3>3. \A u \in Threads : pc'[u] # "dead" => pc[u] # "dead"
      BY DEF TypeOK, Done
    <3> HIDE DEF IInv
    <3> QED
      BY <3>1, <3>2, <3>3 DEF Copies
  <2> QED
    BY <2>1, <2>2, <2>3, <2>4, <2>5
<1> QED
  BY <1>1, <1>2, <1>3

\* Crash: descriptors are closed and no description is unlocked.
LEMMA CrashStep ==
    ASSUME IInv, NEW p \in Processes, Crash(p)
    PROVE  IInv'
<1> USE DEF IInv
<1>1. TypeOK'
  BY GuardAssumption DEF TypeOK, Crash, Locks
<1>2. LockSafety'
  <2>1. \A u \in Threads, k \in Locks : Open(u, k)' => Open(u, k)
    BY DEF TypeOK, Crash, Open
  <2>2. \A u \in Threads, k \in Locks : Exclusive(guard'[u], k) = Exclusive(guard[u], k) \/ ~Open(u, k)'
    BY <2>1 DEF TypeOK, Crash, Exclusive
  <2> QED
    BY <2>1, <2>2, OneThreadLocks DEF Crash
<1>3. ASSUME NEW v \in Threads
      PROVE  (EffectHolds(v) /\ FenceOfCheck(v) /\ Phases(v) /\ Marked(v) /\ Copies(v))'
  <2>1. EffectHolds(v)'
    BY GuardFacts DEF TypeOK, Crash, EffectHolds, Phases, Supervised, Locks
  <2>2. FenceOfCheck(v)'
    BY GuardFacts DEF TypeOK, Crash, FenceOfCheck, Phases, Supervised, Locks
  <2>3. Phases(v)'
    BY GuardFacts DEF TypeOK, Crash, Phases, Supervised, Locks
  <2>4. Marked(v)'
    BY GuardFacts DEF TypeOK, Crash, Marked, Phases, Supervised, Locks
  <2>5. Copies(v)'
    BY GuardFacts DEF TypeOK, Crash, Copies, Phases, Supervised, Locks
  <2> QED
    BY <2>1, <2>2, <2>3, <2>4, <2>5
<1> QED
  BY <1>1, <1>2, <1>3

\* Restart: nothing of the process is open.
LEMMA RestartStep ==
    ASSUME IInv, NEW p \in Processes, Restart(p)
    PROVE  IInv'
<1> USE DEF IInv
<1>a. NoGuard \in Guards
  BY DEF NoGuard, Guards
<1> DEFINE Dead == {t \in Threads : ProcessOf[t] = p}
<1>b. \A t \in Dead : sup[t] = {} /\ handles[t] = {} /\ held[t] = {} /\ child[t] = "none" /\ \A l \in Locks : ~Open(t, l)
  BY DEF TypeOK, Restart, Open
<1>c. \A t \in Threads : guard'[t] = IF t \in Dead THEN NoGuard ELSE guard[t]
  BY DEF TypeOK, Restart
<1>d. \A t \in Threads, l \in Locks : Open(t, l)' <=> Open(t, l)
  BY DEF TypeOK, Restart, Open
<1>1. TypeOK'
  BY GuardAssumption, <1>a DEF TypeOK, Restart, Locks
<1>2. LockSafety'
  <2>1. \A t \in Threads, l \in Locks : Open(t, l) => guard'[t] = guard[t]
    BY <1>b, <1>c
  <2> QED
    BY <2>1, <1>d DEF LockSafety
<1>3. ASSUME NEW v \in Threads
      PROVE  (EffectHolds(v) /\ FenceOfCheck(v) /\ Phases(v) /\ Marked(v) /\ Copies(v))'
  <2>1. EffectHolds(v)'
    BY GuardFacts, <1>a, <1>b, <1>c DEF TypeOK, Restart, EffectHolds, Phases, Supervised
  <2>2. FenceOfCheck(v)'
    BY GuardFacts, <1>a, <1>b, <1>c DEF TypeOK, Restart, FenceOfCheck, Phases, Supervised
  <2>3. Phases(v)'
    BY GuardFacts, <1>a, <1>b, <1>c DEF TypeOK, Restart, Phases, Supervised
  <2>4. Marked(v)'
    BY GuardFacts, <1>a, <1>b, <1>c DEF TypeOK, Restart, Marked, Phases, Supervised
  <2>5. Copies(v)'
    <3>1. UNCHANGED <<held, handles, child, fork, sup>>
      BY DEF Restart
    <3>2. Copies(v)
      OBVIOUS
    <3>3. \A u \in Threads \ Dead : pc'[u] = pc[u]
      BY DEF TypeOK, Restart
    <3>4. \A u \in Dead, k \in Locks : <<u, k>> \notin fork[v]
      BY <1>b DEF Open
    <3> HIDE DEF IInv
    <3> QED
      BY <3>1, <3>2, <3>3, <3>4 DEF Copies
  <2> QED
    BY <2>1, <2>2, <2>3, <2>4, <2>5
<1> QED
  BY <1>1, <1>2, <1>3

-----------------------------------------------------------------------------
\* The theorems

\* Nothing is open initially.
LEMMA InitIInv == Init => IInv
<1> SUFFICES ASSUME Init
             PROVE  IInv
  OBVIOUS
<1>1. NoGuard \in Guards
  BY DEF NoGuard, Guards
<1>2. TypeOK
  BY <1>1 DEF Init, TypeOK
<1>3. \A t \in Threads, l \in Locks : ~Open(t, l)
  BY DEF Init, Open
<1>4. \A t \in Threads : EffectHolds(t) /\ FenceOfCheck(t) /\ Phases(t) /\ Marked(t) /\ Copies(t)
  BY DEF Init, EffectHolds, FenceOfCheck, Phases, Marked, Copies, Supervised
<1> QED
  BY <1>2, <1>3, <1>4 DEF IInv, LockSafety

\* One case per action of Next.
LEMMA NextIInv == IInv /\ [Next]_vars => IInv'
<1> SUFFICES ASSUME IInv, [Next]_vars
             PROVE  IInv'
  OBVIOUS
<1>1. CASE UNCHANGED vars
  <2>1. TypeOK'
    BY <1>1 DEF IInv, vars, TypeOK
  <2>2. LockSafety'
    BY <1>1 DEF IInv, vars, LockSafety, Open
  <2>3. ASSUME NEW v \in Threads
        PROVE  (EffectHolds(v) /\ FenceOfCheck(v))'
    BY <1>1 DEF IInv, vars, EffectHolds, FenceOfCheck, Supervised
  <2>4. ASSUME NEW v \in Threads
        PROVE  (Phases(v) /\ Marked(v) /\ Copies(v))'
    BY <1>1 DEF IInv, vars, Phases, Marked, Copies, Supervised
  <2> QED
    BY <2>1, <2>2, <2>3, <2>4 DEF IInv
<1>2. ASSUME NEW t \in Threads,
             \/ \E g \in Guards : Begin(t, g)
             \/ \E l \in Locks : Acquire(t, l) \/ Refuse(t, l) \/ Drop(t, l) \/ CloseTransferred(t, l)
             \/ \E r \in Resources : Narrow(t, r)
             \/ \E kind \in {"plain", "supervised"} : Spawn(t, kind)
      PROVE  IInv'
  BY <1>2, BeginStep, AcquireStep, RefuseStep, DropStep, CloseStep, NarrowStep, SpawnStep
<1>3. ASSUME NEW t \in Threads,
             \/ Widen(t) \/ InheritTransfer(t) \/ TransferRefused(t)
             \/ Exec(t) \/ SupervisorEnds(t) \/ Finish(t) \/ Done(t)
      PROVE  IInv'
  BY <1>3, WidenStep, TransferStep, TransferRefusedStep, ExecStep, SupervisorEndsStep, FinishStep, DoneStep
<1>4. ASSUME NEW p \in Processes, Crash(p) \/ Restart(p)
      PROVE  IInv'
  BY <1>4, CrashStep, RestartStep
<1> QED
  BY <1>1, <1>2, <1>3, <1>4 DEF Next

\* IInv is inductive: in every reachable state of ExecutionGuard the locks that
\* a guard of execution_guard.rs took are open for its effect.
THEOREM InductiveInvariant == Spec => []IInv
<1>1. Init => IInv
  BY InitIInv
<1>2. IInv /\ [Next]_vars => IInv'
  BY NextIInv
<1> QED
  BY <1>1, <1>2, PTL DEF Spec

\* Every variable of ExecutionGuard keeps its type.
THEOREM TypeCorrect == Spec => []TypeOK
<1>1. IInv => TypeOK
  BY DEF IInv
<1> QED
  BY <1>1, InductiveInvariant, PTL

\* The locks that stand behind a running effect.
LEMMA RunningHolds ==
    ASSUME IInv, NEW t \in Threads, Running(t)
    PROVE  /\ Open(t, Root)
           /\ guard[t].kind # "root" /\ pc[t] # "checking" => Open(t, guard[t].project)
           /\ \A r \in guard[t].resources : Open(t, r)
           /\ guard[t].kind # "root" /\ Supervised(t) => Open(t, Routine)
<1> DEFINE g == guard[t]
<1>g. g \in Guards
  BY DEF IInv, TypeOK
<1>h. g.kind = "root" => g.resources = {}
  BY <1>g DEF Guards
<1>1. Supervised(t) => \A l \in Fenced(g) : Open(t, l)
  BY DEF IInv, EffectHolds, Supervised, Open
<1>2. pc[t] = "working" => \A l \in Wanted(g) : Open(t, l)
  BY DEF IInv, EffectHolds, Open
<1>3. pc[t] = "checking" => /\ g.kind = "project"
                            /\ Open(t, Root) /\ \A r \in g.resources : Open(t, r)
                            /\ ~Supervised(t)
  BY DEF IInv, EffectHolds, Phases, Supervised, Open
<1>4. g.kind = "shared" => g.resources \subseteq Wanted(g)
  BY DEF Wanted
<1>5. g.kind = "project" /\ pc[t] # "checking" => g.resources = {}
  BY DEF IInv, FenceOfCheck, Running
<1> QED
  BY <1>g, <1>h, <1>1, <1>2, <1>3, <1>4, <1>5, GuardFacts DEF Running

\* Effects that exclude each other never run at once, for any number of threads
\* and processes, through crashes, forks, transfers and checks.
THEOREM EffectsAreExclusive == Spec => []EffectsExclude
<1>1. ASSUME IInv
      PROVE  EffectsExclude
  <2> SUFFICES ASSUME NEW t \in Threads, NEW u \in Threads, t # u, Running(t), Running(u)
               PROVE  ~Excludes(t, u)
    BY DEF EffectsExclude
  <2>1. ASSUME NEW l \in Locks, Open(t, l), Open(u, l)
        PROVE  ~Exclusive(guard[t], l) /\ ~Exclusive(guard[u], l)
    BY <1>1, <2>1 DEF IInv, LockSafety
  <2>2. guard[t] \in Guards /\ guard[u] \in Guards
    BY <1>1 DEF IInv, TypeOK
  <2>3. guard[t].kind # "root" /\ guard[u].kind # "root"
    BY <1>1, <2>1, RunningHolds DEF Exclusive, Locks
  <2>4. guard[t].kind \in {"project", "shared"} /\ guard[u].kind \in {"project", "shared"}
    BY <2>2, <2>3, GuardFacts
  <2>5. ~ /\ guard[t].project = guard[u].project
          /\ pc[t] # "checking" /\ pc[u] # "checking"
          /\ ~(guard[t].kind = "shared" /\ guard[u].kind = "shared")
    <3>1. guard[t].project \in Projects /\ guard[t].project \in Locks /\ guard[t].project # Root
      BY <2>2, <2>3, GuardFacts, GuardAssumption DEF Locks
    <3> QED
      BY <1>1, <2>1, <2>3, <2>4, <3>1, RunningHolds DEF Exclusive
  <2>6. guard[t].resources \cap guard[u].resources = {}
    <3> SUFFICES ASSUME NEW r \in guard[t].resources, r \in guard[u].resources
                 PROVE  FALSE
      OBVIOUS
    <3>1. r \in Resources /\ r \in Locks /\ r # Root
      BY <2>2, GuardFacts, GuardAssumption DEF Locks
    <3> QED
      BY <1>1, <2>1, <2>4, <3>1, RunningHolds DEF Exclusive
  <2>7. ~ /\ Supervised(t) /\ Supervised(u)
          /\ ~(guard[t].kind = "shared" /\ guard[u].kind = "shared")
    BY <1>1, <2>1, <2>3, <2>4, RunningHolds, GuardAssumption DEF Exclusive, Locks
  <2> QED
    BY <2>3, <2>5, <2>6, <2>7 DEF Excludes
<1> QED
  BY <1>1, InductiveInvariant, PTL

\* While its process lives, a lock is open only for its owner and the owner's
\* supervisor, never for a child that awaits its exec.
THEOREM LocksDoNotLeak == Spec => []NoLeakedLock
<1>1. IInv => NoLeakedLock
  BY DEF IInv, NoLeakedLock, Open, Copies
<1> QED
  BY <1>1, InductiveInvariant, PTL
=============================================================================
