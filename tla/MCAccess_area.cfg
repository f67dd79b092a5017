SPECIFICATION Spec
CONSTANTS
  Threads = {t1}
  Handles = {h1}
  NoHandle = NoHandle
  Width = 2
  Height = 2
  LockCalls <- MCRegions
  Fds <- MCOneFd
  Fences = {f1}
  NoFence = NoFence
  MaxLocks = 1
  Faults = {"sync", "lock", "unlock", "size"}
INVARIANT
  AreaInBuffer
