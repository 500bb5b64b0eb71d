SPECIFICATION Spec
CONSTANTS
  alice = alice
  bob = bob
  carol = carol
  eth = eth
  usdt = usdt
  g = g
  r1 = r1
  r2 = r2
  Trader = {alice, bob, carol}
  Token = {eth, usdt}
  Blinding = {g, r1}
  Genesis <- ThreeTraders
  Bridged = {}
  MaxIssued = 2
  FreshOutputs = TRUE
  Pair <- EthUsdt
  Price = {1, 2}
  Fee = {0}
  Quantity = {1, 2}
  MaxOrders = 3
  MaxHeight = 2
INVARIANTS NoCrossedBook
PROPERTIES  TermsKept
