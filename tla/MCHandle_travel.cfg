SPECIFICATION Spec
CONSTANTS
  Clients = {c1}
  Buffers = {b1, b2}
  Fds <- MCFds
  Usages <- MCUsages
  Modifiers <- MCModifiers
  Ids <- MCIds
  NoFile = NoFile
  OtherFile = OtherFile
  NoHandle = NoHandle
  MetadataSize <- MCMetadataSize
  Word64 <- MCWord64
SYMMETRY MCSymmetry
INVARIANTS
  MemoryTravels
  FdsOwned
  WordsTold
