SPECIFICATION Spec
CONSTANTS
  Threads = {t1, t2}
  Buffers = {b1, b2, b3}
  NoHandle = NoHandle
  NoRequest = NoRequest
  MaxCount = 2
  Faults = {"free", "dup"}
  Requests <- MCRefusals
  MetadataSize <- MCMetadataSize
  Word64 <- MCWord64
SYMMETRY ThreadAndBufferSymmetry
INVARIANTS
  HandlesOpen
  OneOwner
  NoDoubleGrant
  GrantedAsAsked
  IInv
