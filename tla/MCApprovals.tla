----------------------------- MODULE MCApprovals -----------------------------
(* Small instances of Approvals.                                            *)
EXTENDS Approvals, TLC

Symmetry == Permutations(Calls) \cup Permutations(Clients) \cup Permutations(Keys)
=============================================================================
