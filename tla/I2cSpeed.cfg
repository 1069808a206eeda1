SPECIFICATION FairSpec
CONSTANTS
  Calls <- WriteCalls
  MaxCalls = 1
  FIFO_DEPTH = 7
  Retries = 2
  MaxJams = 0
  ArbLoss = TRUE
  Hz <- Speeds
  FREQ = 100000000
INVARIANT BestMatches
CHECK_DEADLOCK FALSE
