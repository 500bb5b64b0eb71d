SPECIFICATION FairSpec
CONSTANTS
  Maker = Maker
  Taker = Taker
  Survivors = {Maker}
  MaxSessions = 3
  MaxQueue = 2
  MaxCrashes = 2
  FlushResults = {TRUE}
  Prompt = TRUE
  Quiet = TRUE
INVARIANTS TypeOK LandableIsWitnessed
PROPERTIES SwapRefined AttemptsEnd 
CHECK_DEADLOCK FALSE
