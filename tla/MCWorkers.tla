------------------------------ MODULE MCWorkers ------------------------------
(* A small instance of Workers.                                              *)
EXTENDS Workers, TLC

CONSTANT r1

\* One run with two tasks.
Two == r1 :> 2

Symmetric == Permutations(Workers) \cup Permutations(Callers)
=============================================================================
