\* Two ranks with different clocks, every command line of up to three options.
CONSTANTS
  NRanks = 2
  Tokens <- MCTokens
  MaxArgs = 3
  Times = {1000000, 1000001}
  MayFail = TRUE
  InitMayFail = FALSE
SPECIFICATION Spec
INVARIANTS TypeOK ThresholdsAsDocumented SameIteration
PROPERTIES Termination
\* The job ends when every rank has returned or RMAN_ABORT has ended it.
CHECK_DEADLOCK FALSE
