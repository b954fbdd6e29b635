------------------------- MODULE MCAttemptLifecycle -------------------------
(***************************************************************************)
(* Small projects for TLC.  In the safety run tasks are interchangeable    *)
(* and so are attempts.                                                    *)
(***************************************************************************)
EXTENDS AttemptLifecycle, TLC

CONSTANTS t1, t2, a1, a2

Symmetry == Permutations(Tasks) \cup Permutations(Attempts)

=============================================================================
