--------------------------- MODULE MCLinkedThreads ---------------------------
(* Small instances of LinkedThreads.                                        *)
EXTENDS LinkedThreads, TLC

Symmetry == Permutations(Exchanges) \cup Permutations(Runs) \cup Permutations(OriginRuns)

=============================================================================
