SPECIFICATION FairSpec
CONSTANTS
  Calls <- AllCalls
  MaxCalls = 2
  FIFO_DEPTH = 7
  Retries = 2
  MaxJams = 2
  ArbLoss = TRUE
  Hz <- Speeds
  FREQ = 100000000
INVARIANTS SuccessIsWhole NeverMixed FreshBytes DisabledBetween InterruptsOwned ConfigurationHolds
PROPERTIES CallReturns WriteReported
CHECK_DEADLOCK FALSE
