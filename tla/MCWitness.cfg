SPECIFICATION Spec
CONSTANTS
  Maker = Maker
  Taker = Taker
  Survivors = {Maker}
  MaxSessions = 2
  MaxQueue = 1
  MaxCrashes = 1
  FlushResults = {TRUE}
  Prompt = TRUE
  Quiet = FALSE
INVARIANT LandedIsRecoverable
CHECK_DEADLOCK FALSE
