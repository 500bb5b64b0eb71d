SPECIFICATION Spec
CONSTANTS
  Me = Me
  Token1 = Token1
  Token2 = Token2
  Genesis <- MCMixed
  Prices = {2}
  Quantities = {1, 2, 3, 4}
  MaxDraws = 15
  MaxRequests = 1
  MaxCrashes = 1
  FlushResults = {TRUE}
  AmountBits = 4
  Kappa = 2
INVARIANTS SplitVerifies
CHECK_DEADLOCK FALSE
