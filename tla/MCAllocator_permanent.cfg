SPECIFICATION Spec
CONSTANTS
  Threads = {t1}
  Buffers = {b1, b2}
  NoHandle = NoHandle
  NoRequest = NoRequest
  MaxCount = 2
  Faults = {}
  Requests <- MCRequests
  MetadataSize <- MCMetadataSize
  Word64 <- MCWord64
INVARIANT UnsupportedIsPermanent
