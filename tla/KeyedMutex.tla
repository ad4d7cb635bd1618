------------------------------ MODULE KeyedMutex ------------------------------
(***************************************************************************)
(* What a keyed lock promises its callers: one lock per key, always there, *)
(* held by at most one client.  KeyedLock implements it; CommandIntake     *)
(* uses it as the lock of a command id.                                    *)
(***************************************************************************)
CONSTANTS Keys, Clients, NoKey, NoClient

VARIABLES holder,  \* who holds the lock of each key
          want     \* the key each client waits for or holds

vars == <<holder, want>>

Init ==
  /\ holder = [k \in Keys |-> NoClient]
  /\ want = [c \in Clients |-> NoKey]

Request(c, k) ==
  /\ want[c] = NoKey
  /\ want' = [want EXCEPT ![c] = k]
  /\ UNCHANGED holder

Enter(c) ==
  /\ want[c] # NoKey
  /\ holder[want[c]] = NoClient
  /\ holder' = [holder EXCEPT ![want[c]] = c]
  /\ UNCHANGED want

Leave(c) ==
  /\ want[c] # NoKey
  /\ holder[want[c]] = c
  /\ holder' = [holder EXCEPT ![want[c]] = NoClient]
  /\ want' = [want EXCEPT ![c] = NoKey]

\* The caller was cancelled while it waited.
Abandon(c) ==
  /\ want[c] # NoKey
  /\ holder[want[c]] # c
  /\ want' = [want EXCEPT ![c] = NoKey]
  /\ UNCHANGED holder

Next == \E c \in Clients : \/ \E k \in Keys : Request(c, k)
                           \/ Enter(c) \/ Leave(c) \/ Abandon(c)

Spec == Init /\ [][Next]_vars
=============================================================================
