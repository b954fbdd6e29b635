------------------------ MODULE MCDependencyEvidence ------------------------
(***************************************************************************)
(* One predecessor with its dependents for TLC.                            *)
(***************************************************************************)
EXTENDS DependencyEvidence, TLC

CONSTANTS p1, p2

\* The policies are interchangeable.
PolicySymmetry == Permutations(Policies)

=============================================================================
