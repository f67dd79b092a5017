SPECIFICATION Spec
CONSTANTS
  Threads = {t1, t2, t3}
  Buffers = {b1, b2}
  NoFds = NoFds
  Addrs = {a1, a2, a3}
  None = None
  Faults <- EveryFault
  DumpsAlone = TRUE
SYMMETRY Symmetry
INVARIANTS
  RegionOfOwnBuffer
  KnownHandlesAlive
  NoHandleLost
  DumpReadsLive
PROPERTIES
  FreeComplete
  ImplementsTable
