SPECIFICATION Spec
CONSTANTS
  Word <- MCWord
  Formats <- MCFormats
  Widths <- MCWidths
  Heights <- MCHeights
  StrideAlignments = {4, 32}
  HeightAlignments = {1, 16}
INVARIANTS
  TypeOK
  PlanesDisjoint
  PlanesHoldSamples
  ReportedPlanesFit
  ComponentsDisjoint
  SameLayoutEitherWay
CHECK_DEADLOCK FALSE
