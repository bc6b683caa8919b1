\* Two ranks over every tree of four namespaces, any of whose scans may fail.
CONSTANTS
  NRanks = 2
  NNs = 4
  Targets = {0}
  StartMayFail = FALSE
  MayFail = TRUE
SPECIFICATION FairSpec
PROPERTIES Termination
\* A rank that returns from main() stops.
CHECK_DEADLOCK FALSE
