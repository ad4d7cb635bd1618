------------------------------ MODULE KeyedLock ------------------------------
(***************************************************************************)
(* crates/milim-server/src/keyed_lock.rs: a map from key to async lock     *)
(* whose entries disappear with the last lease.  Command ids and thread    *)
(* ids are serialized with it.  A lock is an object of its own: two locks  *)
(* created for one key do not exclude each other.                          *)
(***************************************************************************)
CONSTANTS Keys, Clients, Locks, NoKey, NoClient, NoLock

ASSUME KeyedConstants ==
  /\ NoKey \notin Keys
  /\ NoClient \notin Clients
  /\ NoLock \notin Locks

VARIABLES
  entry,  \* KeyedLocks: the lock the map holds for a key
  lease,  \* KeyedLockLease of each client: its key and its clone of the Arc
  pc,     \* "out", "waiting" for the lock, "inside", or "leaving": the guard is
          \* dropped and the lease not yet
  owner   \* the client inside each async lock

vars == <<entry, lease, pc, owner>>

NoLease == [key |-> NoKey, lock |-> NoLock]

TypeOK ==
  /\ entry \in [Keys -> Locks \cup {NoLock}]
  /\ lease \in [Clients -> [key: Keys \cup {NoKey}, lock: Locks \cup {NoLock}]]
  /\ pc \in [Clients -> {"out", "waiting", "inside", "leaving"}]
  /\ owner \in [Locks -> Clients \cup {NoClient}]

Init ==
  /\ entry = [k \in Keys |-> NoLock]
  /\ lease = [c \in Clients |-> NoLease]
  /\ pc = [c \in Clients |-> "out"]
  /\ owner = [l \in Locks |-> NoClient]

-----------------------------------------------------------------------------
\* A lock no Arc points to.
Unused(l) == (\A k \in Keys : entry[k] # l) /\ (\A c \in Clients : lease[c].lock # l)

\* acquire: or_default and the clone happen under the map's lock.
Acquire(c, k, l) ==
  /\ pc[c] = "out"
  /\ l = entry[k] \/ (entry[k] = NoLock /\ Unused(l))
  /\ entry' = [entry EXCEPT ![k] = l]
  /\ lease' = [lease EXCEPT ![c] = [key |-> k, lock |-> l]]
  /\ pc' = [pc EXCEPT ![c] = "waiting"]
  /\ UNCHANGED owner

Lock(c) ==
  /\ pc[c] = "waiting"
  /\ owner[lease[c].lock] = NoClient
  /\ owner' = [owner EXCEPT ![lease[c].lock] = c]
  /\ pc' = [pc EXCEPT ![c] = "inside"]
  /\ UNCHANGED <<entry, lease>>

\* Mutant of Unlock: the guard is forgotten, not dropped.
UnlockForgotten(c) ==
  /\ pc[c] = "inside"
  /\ pc' = [pc EXCEPT ![c] = "leaving"]
  /\ UNCHANGED <<entry, lease, owner>>

\* The guard is dropped before the lease it borrows from.
Unlock(c) ==
  /\ pc[c] = "inside"
  /\ owner' = [owner EXCEPT ![lease[c].lock] = NoClient]
  /\ pc' = [pc EXCEPT ![c] = "leaving"]
  /\ UNCHANGED <<entry, lease>>

\* Mutant of LastLease: the entry goes with the first lease.
AnyLease(c) == TRUE

\* Mutant of LastLease: the count never falls to one, as if the dropped Arc
\* were still counted.
NeverLast(c) == FALSE

\* Arc::strong_count is one after c's clone is dropped: only the map is left.
LastLease(c) == \A d \in Clients \ {c} : lease[d].lock # lease[c].lock

\* Drop of a lease, after its guard or by a cancelled waiter.
Release(c) ==
  /\ pc[c] \in {"waiting", "leaving"}
  /\ entry' = IF entry[lease[c].key] = lease[c].lock /\ LastLease(c)
              THEN [entry EXCEPT ![lease[c].key] = NoLock] ELSE entry
  /\ lease' = [lease EXCEPT ![c] = NoLease]
  /\ pc' = [pc EXCEPT ![c] = "out"]
  /\ UNCHANGED owner

Next == \E c \in Clients : \/ \E k \in Keys, l \in Locks : Acquire(c, k, l)
                           \/ Lock(c) \/ Unlock(c) \/ Release(c)

Spec == Init /\ [][Next]_vars

\* Work inside the lock ends and drops its guard and lease; tokio's mutex
\* serves its waiters in order.
Fairness == \A c \in Clients : /\ WF_vars(Unlock(c))
                               /\ WF_vars(pc[c] = "leaving" /\ Release(c))
                               /\ SF_vars(Lock(c))

FairSpec == Spec /\ Fairness

-----------------------------------------------------------------------------
(* Properties.                                                             *)

\* "A concurrent caller for the same key keeps the entry alive, so retries
\* still serialize on one lock": two clients inside one key's lock are the
\* same, whatever entries were removed and created in between.
MutualExclusion ==
  \A c, d \in Clients :
     pc[c] = "inside" /\ pc[d] = "inside" /\ lease[c].key = lease[d].key => c = d

\* "One-shot keys such as command ids do not accumulate for the life of the
\* process": an entry is there only while a lease uses it.
EntriesAreInUse ==
  \A k \in Keys : entry[k] # NoLock => \E c \in Clients : lease[c].key = k

\* A waiter gets the lock unless it is cancelled: removing entries strands
\* nobody on a lock that is never released.
WaitersAreServed == \A c \in Clients : pc[c] = "waiting" ~> pc[c] # "waiting"

-----------------------------------------------------------------------------
(* The abstract lock.                                                      *)

heldBy == [k \in Keys |-> IF entry[k] = NoLock THEN NoClient ELSE owner[entry[k]]]
wanted == [c \in Clients |-> IF pc[c] \in {"waiting", "inside"} THEN lease[c].key ELSE NoKey]

Mutex == INSTANCE KeyedMutex WITH holder <- heldBy, want <- wanted

\* Leases with their disappearing entries behave as one permanent lock per key.
ImplementsKeyedMutex == Mutex!Spec
=============================================================================
