SPECIFICATION FairSpec
CONSTANTS
  Threads = {t1, t2}
  Handles = {h1}
  NoHandle = NoHandle
  Width = 4
  Height = 2
  LockCalls <- MCLockCalls
  Fds <- MCFds
  Fences = {f1, f2}
  NoFence = NoFence
  MaxLocks = 2
  Faults = {"sync", "lock", "unlock", "size"}
INVARIANTS
  OneOwner
  WaitsForOwnFence
  NoEarlyAccess
  LocksBalanced
  RegionCovered
PROPERTIES
  ImplementsLocks
  CallsReturn
