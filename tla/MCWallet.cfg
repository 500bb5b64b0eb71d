SPECIFICATION Spec
CONSTANTS
  Me = Me
  Token1 = Token1
  Token2 = Token2
  Genesis <- MCGenesis
  Prices = {2}
  Quantities = {1, 2, 3}
  MaxDraws = 15
  MaxRequests = 2
  MaxCrashes = 1
  FlushResults = {TRUE}
  AmountBits = 3
  Kappa = 2
INVARIANTS NoCashTwice ReportedOrdersOpen CashIsAccounted ProversAgree WithdrawalsVerify LegsVerify
CHECK_DEADLOCK FALSE
