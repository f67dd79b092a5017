SPECIFICATION FairSpec
CONSTANTS
  Threads = {t1, t2}
  Buffers = {b1, b2, b3}
  NoHandle = NoHandle
  NoRequest = NoRequest
  MaxCount = 2
  Faults = {}
  Requests <- MCLiveRequests
  MetadataSize <- MCMetadataSize
  Word64 <- MCWord64
INVARIANTS
  NoLeak
  AllOrNothing
PROPERTIES
  ImplementsService
  CallsAnswered
  HandlesReclaimed
