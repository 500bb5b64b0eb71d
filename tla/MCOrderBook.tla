----------------------------- MODULE MCOrderBook -----------------------------
(***************************************************************************)
(* Instances of OrderBook for TLC.                                          *)
(***************************************************************************)
EXTENDS OrderBook, TLC

CONSTANTS alice, bob, carol, eth, usdt, g, r1, r2

EthUsdt == {<<eth, usdt>>}

\* A seller of two tokens and a buyer with a cash of two, which an order for one splits:
\* one order on one side trades with two on the other.
SmallGenesis == {Cash(alice, eth, 2, g), Cash(bob, usdt, 2, g)}

\* A third trader, for two orders that rest and one that arrives.
ThreeTraders ==
  {Cash(alice, eth, 2, g), Cash(carol, eth, 1, g), Cash(bob, usdt, 2, g)}

\* Alice trades with herself and with bob: what she receives can be a cash she has.
SelfTrader == {Cash(alice, eth, 2, g), Cash(alice, usdt, 1, g), Cash(bob, usdt, 1, g)}

\* Genesis cash apart, the blindings are interchangeable.
Blindings == Permutations({r1, r2})
=============================================================================
