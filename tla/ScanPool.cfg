\* One namespace scanned by two producers and two consumers over a queue of
\* depth one, with an unreadable directory and failing stream walks.
CONSTANTS
  S1 = S1  S2 = S2  S3 = S3  S4 = S4  Other = Other
  Dirs <- MCDirs
  Unreadable = {1}
  NProd = 2
  NCons = 2
  QDepth = 1
  MayFail = TRUE
SPECIFICATION FairSpec
INVARIANTS TypeOK ReportedUsage
PROPERTIES PoolTerminates
\* ref_paths() returns once the scan finishes or aborts.
CHECK_DEADLOCK FALSE
