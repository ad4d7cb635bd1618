SPECIFICATION FairSpec
CONSTANTS
  Keys = {k1, k2}
  Clients = {c1, c2, c3, c4}
  Locks = {l1, l2, l3, l4}
  NoKey = NoKey
  NoClient = NoClient
  NoLock = NoLock
INVARIANT EntriesAreInUse
PROPERTIES
  ImplementsKeyedMutex
  WaitersAreServed
