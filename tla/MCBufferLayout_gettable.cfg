SPECIFICATION Spec
CONSTANTS
  Word <- MCWord
  Formats <- MCFormats
  Widths <- MCWidths
  Heights <- MCHeights
  StrideAlignments = {4, 32}
  HeightAlignments = {1, 16}
INVARIANT PlaneLayoutsGettable
CHECK_DEADLOCK FALSE
