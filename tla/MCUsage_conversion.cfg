SPECIFICATION Spec
CONSTANTS
  MetadataSize <- MCMetadataSize
  Word64 <- MCWord64
  Usages <- MCUsages
INVARIANTS
  ConvertsInOrder
  OneRate
  MapAgreesWithUse
CHECK_DEADLOCK FALSE
