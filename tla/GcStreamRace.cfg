CONSTANTS
  NRefs = 3
  Layout <- MCLayout
  MaxCrashes = 0
  MaxFaults = 0
  UnlinkUnfinished = TRUE
SPECIFICATION Spec
INVARIANTS
  LiveObjectsKept
CHECK_DEADLOCK FALSE
