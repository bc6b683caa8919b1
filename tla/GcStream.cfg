CONSTANTS
  NRefs = 4
  Layout <- MCLayout4
  MaxCrashes = 1
  MaxFaults = 1
  UnlinkUnfinished = FALSE
SPECIFICATION FairSpec
INVARIANTS
  TypeOK
  LiveObjectsKept
PROPERTIES
  UnlinkUnderInProgress
  GcRefinesAbstract
  FaultFreeReclaim
CHECK_DEADLOCK FALSE
