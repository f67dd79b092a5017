SPECIFICATION FairSpec
CONSTANTS
  Threads = {t1, t2}
  Buffers = {b1, b2}
  NoFds = NoFds
  Addrs = {a1, a2}
  None = None
  Faults <- ReleaseWorks
  DumpsAlone = FALSE
INVARIANTS
  OwnedRegistered
PROPERTY CallsReturn
