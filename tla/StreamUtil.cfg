\* Every command with every outcome of the library, one descriptor left.
CONSTANTS
  NULL = NULL
  NoS = NoS
  InitAlloc = 1
  IntBits = 3
  SizeBits = 3
  Chunk = 2
  Bytes = {3}
  SArgs <- MCSArgs
  MaxFds = 1
  MdalFaults = TRUE
SPECIFICATION Spec
INVARIANTS TypeOK
PROPERTIES OnlyTargetChanges
\* The program stops: when main() returns, and where its
\* behaviour is undefined.
CHECK_DEADLOCK FALSE
