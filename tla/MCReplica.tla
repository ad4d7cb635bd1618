------------------------------ MODULE MCReplica ------------------------------
(* Small instances of Replica.                                              *)
EXTENDS Replica, TLC

CONSTANTS t1, t2

\* One thread longer than a tail, one shorter.
MCInitLen == (t1 :> 3) @@ (t2 :> 1)
\* The longer one was seen before its last item.
MCInitSaved == (t1 :> 2) @@ (t2 :> 0)
=============================================================================
