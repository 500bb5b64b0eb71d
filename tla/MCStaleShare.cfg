SPECIFICATION Spec
CONSTANTS
  alice = alice
  bob = bob
  carol = carol
  eth = eth
  usdt = usdt
  g = g
  r1 = r1
  r2 = r2
  Trader = {alice, bob}
  Token = {eth, usdt}
  Blinding = {g, r1, r2}
  Genesis <- SmallGenesis
  Bridged = {}
  MaxIssued = 2
  FreshOutputs = TRUE
  Pair <- EthUsdt
  Price = {1}
  Fee = {0}
  Quantity = {1, 2}
  MaxOrders = 3
  MaxHeight = 1
SYMMETRY Blindings
INVARIANT CompareRowsCurrent
