--------------------------- MODULE MCRunLifecycle ---------------------------
(* Small instances of RunLifecycle.  Run ids are interchangeable, and so    *)
(* are input ids.                                                           *)
EXTENDS RunLifecycle, TLC

Symmetry == Permutations(Runs) \cup Permutations(Inputs)

=============================================================================
