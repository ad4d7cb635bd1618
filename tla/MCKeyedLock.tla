----------------------------- MODULE MCKeyedLock -----------------------------
(* Small instances of KeyedLock.  No symmetry: one run checks a refinement  *)
(* and the other liveness, and the state spaces are small.                  *)
EXTENDS KeyedLock

\* There is always a lock to create: every entry is in use, so clients never
\* need more locks than there are clients.
ASSUME EnoughLocks == \A S \in SUBSET Clients : \E f \in [S -> Locks] :
                         \A c, d \in S : f[c] = f[d] => c = d
=============================================================================
