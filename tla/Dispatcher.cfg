\* Three ranks over every namespace tree of four namespaces, without -n,
\* with -n naming a leaf or the last namespace, and with -n naming a
\* namespace that does not exist; no scan fails.
CONSTANTS
  NRanks = 3
  NNs = 4
  Targets = {0, 3, 4, 5}
  StartMayFail = FALSE
  MayFail = FALSE
SPECIFICATION FairSpec
INVARIANTS TypeOK EachNamespaceOnce
PROPERTIES Termination
\* Every rank returns from main() at the end of a run.
CHECK_DEADLOCK FALSE
