CONSTANTS
  NRefs = 3
  Layout <- MCLayout
  MaxCrashes = 1
  MaxFaults = 0
  UnlinkUnfinished = FALSE
SPECIFICATION Spec
INVARIANTS
  SkipMarkersTruthful
CHECK_DEADLOCK FALSE
