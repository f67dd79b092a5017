SPECIFICATION FairSpec
CONSTANTS
  Threads = {t1, t2}
  Calls <- MCCalls
  Values <- MCValues
  NoValue = NoValue
  NoWord = NoWord
  SetsAlone = {"CTA861_3"}
  Faults = {"decode", "region"}
INVARIANT
  MetadataIntact
PROPERTY
  ImplementsStore
