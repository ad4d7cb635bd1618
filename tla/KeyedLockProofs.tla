--------------------------- MODULE KeyedLockProofs ---------------------------
(***************************************************************************)
(* The keyed lock excludes and implements KeyedMutex, for every set of     *)
(* keys, clients and locks.  The argument: a lease always points to its    *)
(* key's current entry, because an entry goes only with its last lease;    *)
(* entries of different keys are different locks; and a lock's owner is    *)
(* the client inside it.                                                   *)
(***************************************************************************)
EXTENDS KeyedLock, TLAPS

\* A client without a lease is out, and one that is not out leases its key's
\* current lock.
LeaseIsCurrent ==
  \A c \in Clients :
     IF pc[c] = "out" THEN lease[c] = NoLease
     ELSE /\ lease[c].key \in Keys /\ lease[c].lock \in Locks
          /\ entry[lease[c].key] = lease[c].lock

\* No lock serves two keys.
EntriesDiffer == \A j, k \in Keys : entry[j] = entry[k] /\ entry[j] # NoLock => j = k

\* The owner of a lock is inside it.
OwnerIsInside ==
  /\ \A c \in Clients : pc[c] = "inside" => owner[lease[c].lock] = c
  /\ \A l \in Locks : owner[l] # NoClient => pc[owner[l]] = "inside" /\ lease[owner[l]].lock = l

LockInv == TypeOK /\ LeaseIsCurrent /\ EntriesDiffer /\ OwnerIsInside /\ EntriesAreInUse

\* The parts hold before any lease is taken.
LEMMA LockInvInit == Init => LockInv
BY KeyedConstants DEF Init, LockInv, TypeOK, LeaseIsCurrent, EntriesDiffer, OwnerIsInside, EntriesAreInUse, NoLease

\* acquire keeps them: a new entry is a lock nothing else points to.
LEMMA LockInvAcquire ==
  ASSUME LockInv, NEW c \in Clients, NEW k \in Keys, NEW l \in Locks, Acquire(c, k, l)
  PROVE  LockInv'
<1> USE KeyedConstants DEF LockInv, Acquire, NoLease
<1>1. TypeOK' BY DEF TypeOK
<1>2. LeaseIsCurrent'
  <2> SUFFICES ASSUME NEW d \in Clients
               PROVE  IF pc'[d] = "out" THEN lease'[d] = NoLease
                      ELSE /\ lease'[d].key \in Keys /\ lease'[d].lock \in Locks
                           /\ entry'[lease'[d].key] = lease'[d].lock
      BY DEF LeaseIsCurrent
  <2>1. CASE d = c BY <2>1 DEF TypeOK
  <2>2. CASE d # c
    <3>1. pc'[d] = pc[d] /\ lease'[d] = lease[d] BY <2>2 DEF TypeOK
    <3>2. CASE pc[d] = "out" BY <3>1, <3>2 DEF LeaseIsCurrent
    <3>3. CASE pc[d] # "out"
      <4>1. entry[lease[d].key] = lease[d].lock /\ lease[d].key \in Keys /\ lease[d].lock \in Locks
            BY <3>3 DEF LeaseIsCurrent
      <4>2. entry'[lease[d].key] = lease[d].lock BY <4>1 DEF TypeOK, Unused
      <4> QED BY <3>1, <3>3, <4>1, <4>2
    <3> QED BY <3>2, <3>3
  <2> QED BY <2>1, <2>2
<1>3. EntriesDiffer' BY DEF EntriesDiffer, TypeOK, Unused
<1>4. OwnerIsInside' BY DEF OwnerIsInside, TypeOK, LeaseIsCurrent
<1>5. EntriesAreInUse'
  <2> SUFFICES ASSUME NEW j \in Keys, entry'[j] # NoLock PROVE \E d \in Clients : lease'[d].key = j
      BY DEF EntriesAreInUse
  <2>1. CASE j = k BY <2>1 DEF TypeOK
  <2>2. CASE j # k
    <3>1. PICK d \in Clients : lease[d].key = j BY <2>2 DEF EntriesAreInUse, TypeOK
    <3>2. d # c BY <3>1 DEF LeaseIsCurrent
    <3> QED BY <3>1, <3>2 DEF TypeOK
  <2> QED BY <2>1, <2>2
<1> QED BY <1>1, <1>2, <1>3, <1>4, <1>5

\* Entering and leaving the async lock keep them.
LEMMA LockInvLock ==
  ASSUME LockInv, NEW c \in Clients, Lock(c) \/ Unlock(c)
  PROVE  LockInv'
<1> USE KeyedConstants DEF LockInv, Lock, Unlock
<1>0. lease[c].lock \in Locks BY DEF LeaseIsCurrent
<1>1. TypeOK' BY <1>0 DEF TypeOK
<1>2. LeaseIsCurrent' BY DEF LeaseIsCurrent, TypeOK
<1>3. EntriesDiffer' BY DEF EntriesDiffer
<1>4. OwnerIsInside'
  <2>1. CASE Lock(c) BY <1>0, <2>1 DEF OwnerIsInside, TypeOK, LeaseIsCurrent
  <2>2. CASE Unlock(c) BY <1>0, <2>2 DEF OwnerIsInside, TypeOK, LeaseIsCurrent
  <2> QED BY <2>1, <2>2
<1>5. EntriesAreInUse' BY DEF EntriesAreInUse
<1> QED BY <1>1, <1>2, <1>3, <1>4, <1>5

\* Dropping a lease keeps them: an entry with another lease stays.
LEMMA LockInvRelease ==
  ASSUME LockInv, NEW c \in Clients, Release(c)
  PROVE  LockInv'
<1> USE KeyedConstants DEF LockInv, Release, NoLease
<1>0. /\ lease[c].key \in Keys /\ lease[c].lock \in Locks
      /\ entry[lease[c].key] = lease[c].lock
      BY DEF LeaseIsCurrent
<1>1. TypeOK' BY DEF TypeOK
<1>2. LeaseIsCurrent'
  <2> SUFFICES ASSUME NEW d \in Clients
               PROVE  IF pc'[d] = "out" THEN lease'[d] = NoLease
                      ELSE /\ lease'[d].key \in Keys /\ lease'[d].lock \in Locks
                           /\ entry'[lease'[d].key] = lease'[d].lock
      BY DEF LeaseIsCurrent
  <2>1. CASE d = c BY <2>1 DEF TypeOK
  <2>2. CASE d # c
    <3>1. pc'[d] = pc[d] /\ lease'[d] = lease[d] BY <2>2 DEF TypeOK
    <3>2. CASE pc[d] = "out" BY <3>1, <3>2 DEF LeaseIsCurrent
    <3>3. CASE pc[d] # "out"
      <4>1. entry[lease[d].key] = lease[d].lock /\ lease[d].key \in Keys /\ lease[d].lock \in Locks
            BY <3>3 DEF LeaseIsCurrent
      <4>2. entry'[lease[d].key] = lease[d].lock
            BY <1>0, <2>2, <4>1 DEF TypeOK, LastLease
      <4> QED BY <3>1, <3>3, <4>1, <4>2
    <3> QED BY <3>2, <3>3
  <2> QED BY <2>1, <2>2
<1>3. EntriesDiffer' BY <1>0 DEF EntriesDiffer, TypeOK
<1>4. OwnerIsInside' BY DEF OwnerIsInside, TypeOK, LeaseIsCurrent
<1>5. EntriesAreInUse'
  <2> SUFFICES ASSUME NEW j \in Keys, entry'[j] # NoLock PROVE \E d \in Clients : lease'[d].key = j
      BY DEF EntriesAreInUse
  <2>1. entry[j] = entry'[j] BY <1>0 DEF TypeOK
  <2>2. PICK d \in Clients : lease[d].key = j BY <2>1 DEF EntriesAreInUse
  <2>3. CASE d # c BY <2>2, <2>3 DEF TypeOK
  <2>4. CASE d = c
    <3>1. ~LastLease(c) BY <1>0, <2>2, <2>4 DEF TypeOK
    <3>2. PICK e \in Clients \ {c} : lease[e].lock = lease[c].lock BY <3>1 DEF LastLease
    <3>3. entry[lease[e].key] = lease[e].lock /\ lease[e].key \in Keys
          BY <1>0, <3>2 DEF LeaseIsCurrent
    <3>4. lease[e].key = j BY <1>0, <2>2, <2>4, <3>2, <3>3 DEF EntriesDiffer
    <3> QED BY <3>2, <3>4 DEF TypeOK
  <2> QED BY <2>3, <2>4
<1> QED BY <1>1, <1>2, <1>3, <1>4, <1>5

\* LockInv is inductive.
THEOREM LockInvariant == Spec => []LockInv
<1>1. LockInv /\ [Next]_vars => LockInv'
  <2> SUFFICES ASSUME LockInv, [Next]_vars PROVE LockInv' OBVIOUS
  <2>1. CASE UNCHANGED vars
        BY <2>1 DEF vars, LockInv, TypeOK, LeaseIsCurrent, EntriesDiffer, OwnerIsInside, EntriesAreInUse
  <2>2. CASE Next BY <2>2, LockInvAcquire, LockInvLock, LockInvRelease DEF Next
  <2> QED BY <2>1, <2>2
<1> QED BY <1>1, LockInvInit, PTL DEF Spec

\* No two clients are inside one key's lock (keyed_lock.rs, "retries still
\* serialize on one lock").
THEOREM KeyedLockExcludes == Spec => []MutualExclusion
<1>1. LockInv => MutualExclusion BY DEF LockInv, MutualExclusion, LeaseIsCurrent, OwnerIsInside
<1> QED BY <1>1, LockInvariant, PTL

\* No entry outlives its leases ("one-shot keys do not accumulate").
THEOREM NoEntryLeaks == Spec => []EntriesAreInUse
<1>1. LockInv => EntriesAreInUse BY DEF LockInv
<1> QED BY <1>1, LockInvariant, PTL

\* Every step is a step of the permanent lock per key, or leaves it unchanged.
LEMMA MutexStep == LockInv /\ LockInv' /\ [Next]_vars => [Mutex!Next]_(Mutex!vars)
<1> SUFFICES ASSUME LockInv, LockInv', [Next]_vars PROVE [Mutex!Next]_(Mutex!vars) OBVIOUS
<1> USE KeyedConstants DEF LockInv
<1>1. ASSUME NEW c \in Clients, NEW k \in Keys, NEW l \in Locks, Acquire(c, k, l)
      PROVE  Mutex!Request(c, k)
  <2>1. wanted[c] = NoKey BY <1>1 DEF Acquire, wanted
  <2>2. wanted' = [wanted EXCEPT ![c] = k] BY <1>1 DEF Acquire, wanted, TypeOK
  <2>3. heldBy' = heldBy
    <3>1. entry[k] = NoLock => owner[l] = NoClient
          BY <1>1 DEF Acquire, OwnerIsInside, Unused, TypeOK
    <3> QED BY <1>1, <3>1 DEF Acquire, heldBy, TypeOK
  <2> QED BY <2>1, <2>2, <2>3 DEF Mutex!Request
<1>2. ASSUME NEW c \in Clients, Lock(c) PROVE Mutex!Enter(c)
  <2>1. /\ lease[c].key \in Keys /\ entry[lease[c].key] = lease[c].lock
        /\ lease[c].lock \in Locks
        BY <1>2 DEF Lock, LeaseIsCurrent
  <2>2. wanted[c] = lease[c].key /\ wanted' = wanted BY <1>2 DEF Lock, wanted, TypeOK
  <2>3. heldBy[lease[c].key] = NoClient BY <1>2, <2>1 DEF Lock, heldBy
  <2>4. heldBy' = [heldBy EXCEPT ![lease[c].key] = c]
    <3>1. ASSUME NEW j \in Keys
          PROVE  (IF entry'[j] = NoLock THEN NoClient ELSE owner'[entry'[j]])
                 = (IF j = lease[c].key THEN c ELSE heldBy[j])
      <4>1. heldBy[j] = IF entry[j] = NoLock THEN NoClient ELSE owner[entry[j]] BY DEF heldBy
      <4>2. entry[j] # NoLock => entry[j] \in Locks BY DEF TypeOK
      <4>3. entry'[j] = entry[j] BY <1>2 DEF Lock
      <4>4. CASE j = lease[c].key BY <1>2, <2>1, <4>3, <4>4 DEF Lock, TypeOK
      <4>5. CASE j # lease[c].key
            BY <1>2, <2>1, <4>1, <4>2, <4>3, <4>5 DEF Lock, EntriesDiffer, TypeOK
      <4> QED BY <4>4, <4>5
    <3> QED BY <3>1 DEF heldBy
  <2> QED BY <2>1, <2>2, <2>3, <2>4 DEF Mutex!Enter
<1>3. ASSUME NEW c \in Clients, Unlock(c) PROVE Mutex!Leave(c)
  <2>1. /\ lease[c].key \in Keys /\ entry[lease[c].key] = lease[c].lock
        /\ lease[c].lock \in Locks
        BY <1>3 DEF Unlock, LeaseIsCurrent
  <2>2. wanted[c] = lease[c].key BY <1>3 DEF Unlock, wanted
  <2>3. wanted' = [wanted EXCEPT ![c] = NoKey] BY <1>3 DEF Unlock, wanted, TypeOK
  <2>4. heldBy[lease[c].key] = c BY <1>3, <2>1 DEF Unlock, heldBy, OwnerIsInside
  <2>5. heldBy' = [heldBy EXCEPT ![lease[c].key] = NoClient]
    <3>1. ASSUME NEW j \in Keys
          PROVE  (IF entry'[j] = NoLock THEN NoClient ELSE owner'[entry'[j]])
                 = (IF j = lease[c].key THEN NoClient ELSE heldBy[j])
      <4>1. heldBy[j] = IF entry[j] = NoLock THEN NoClient ELSE owner[entry[j]] BY DEF heldBy
      <4>2. entry[j] # NoLock => entry[j] \in Locks BY DEF TypeOK
      <4>3. entry'[j] = entry[j] BY <1>3 DEF Unlock
      <4>4. CASE j = lease[c].key BY <1>3, <2>1, <4>3, <4>4 DEF Unlock, TypeOK
      <4>5. CASE j # lease[c].key
            BY <1>3, <2>1, <4>1, <4>2, <4>3, <4>5 DEF Unlock, EntriesDiffer, TypeOK
      <4> QED BY <4>4, <4>5
    <3> QED BY <3>1 DEF heldBy
  <2> QED BY <2>1, <2>2, <2>3, <2>4, <2>5 DEF Mutex!Leave
<1>4. ASSUME NEW c \in Clients, Release(c)
      PROVE  Mutex!Abandon(c) \/ UNCHANGED Mutex!vars
  <2>1. /\ lease[c].key \in Keys /\ entry[lease[c].key] = lease[c].lock
        /\ lease[c].lock \in Locks
        BY <1>4 DEF Release, LeaseIsCurrent
  <2>2. owner[lease[c].lock] # c BY <1>4, <2>1 DEF Release, OwnerIsInside
  <2>3. heldBy' = heldBy
    <3>1. CASE LastLease(c)
      <4>1. owner[lease[c].lock] = NoClient
            BY <2>1, <2>2, <3>1 DEF LastLease, OwnerIsInside, TypeOK
      <4> QED BY <1>4, <2>1, <3>1, <4>1 DEF Release, heldBy, TypeOK
    <3>2. CASE ~LastLease(c) BY <1>4, <3>2 DEF Release, heldBy
    <3> QED BY <3>1, <3>2
  <2>4. CASE pc[c] = "waiting"
    <3>1. wanted[c] = lease[c].key BY <2>4 DEF wanted
    <3>2. wanted' = [wanted EXCEPT ![c] = NoKey] BY <1>4 DEF Release, wanted, TypeOK
    <3>3. heldBy[lease[c].key] # c BY <2>1, <2>2 DEF heldBy
    <3> QED BY <2>1, <2>3, <3>1, <3>2, <3>3 DEF Mutex!Abandon
  <2>5. CASE pc[c] = "leaving"
    <3>1. wanted' = wanted BY <1>4, <2>5 DEF Release, wanted, TypeOK
    <3> QED BY <2>3, <3>1 DEF Mutex!vars
  <2> QED BY <1>4, <2>4, <2>5 DEF Release
<1>5. CASE UNCHANGED vars BY <1>5 DEF vars, heldBy, wanted, Mutex!vars
<1> QED BY <1>1, <1>2, <1>3, <1>4, <1>5 DEF Next, Mutex!Next

\* Leases with disappearing entries implement one permanent lock per key: what
\* command and finish_run rely on.
THEOREM KeyedLockRefines == Spec => ImplementsKeyedMutex
<1>1. Init => Mutex!Init
      BY KeyedConstants DEF Init, Mutex!Init, heldBy, wanted
<1> QED BY <1>1, MutexStep, LockInvariant, PTL DEF Spec, ImplementsKeyedMutex, Mutex!Spec
=============================================================================
