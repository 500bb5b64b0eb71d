------------------------------ MODULE MatchScan ------------------------------
(***************************************************************************)
(* The loop of matchOrder (orderbook.go:926-996), one candidate a step: a   *)
(* scan that keeps the best candidate so far, over the rows the query       *)
(* returns in whatever order SQLite lists them.  Matching says what it must *)
(* find.                                                                   *)
(***************************************************************************)
EXTENDS Matching, Sequences

CONSTANTS
  Price,
  Height,
  Fee,
  MaxRows   \* bound: resting orders the query returns

ASSUME ScanNumbers ==
  Price \subseteq Nat /\ Height \subseteq Nat /\ Fee \subseteq Nat /\ MaxRows \in Nat

VARIABLES
  order,  \* the order to match
  rows,   \* the candidates of FindPendingCounterOrders
  next,   \* the index of the row the loop looks at next
  best    \* the index of bestMatch, 0 for nil

scan == <<order, rows, next, best>>

Terms(side, status) ==
  [side: {side}, status: {status}, pair: {"pair"}, price: Price, height: Height, fee: Fee]

Other(side) == IF side = "Buy" THEN "Sell" ELSE "Buy"

ScanInit ==
  /\ \E side \in Side :
       /\ order \in Terms(side, "Pending")
       /\ \E n \in 0..MaxRows : rows \in [1..n -> Terms(Other(side), "Pending")]
  /\ next = 1
  /\ best = 0

\* The price check of the loop; Mut: the sides swapped.
MutSkipped(c) ==
  IF order.side = "Buy" THEN c.price >= order.price ELSE c.price <= order.price
Skipped(c) ==
  IF order.side = "Buy" THEN c.price > order.price ELSE c.price < order.price

\* The three priorities, each decided before the next is looked at.
\* Mut: the block is compared whatever the prices.
MutTakes(c, b) ==
  \/ IF order.side = "Buy" THEN c.price < b.price ELSE c.price > b.price
  \/ c.height < b.height
  \/ c.height = b.height /\ c.fee > b.fee
Takes(c, b) ==
  \/ IF order.side = "Buy" THEN c.price < b.price ELSE c.price > b.price
  \/ c.price = b.price /\ c.height < b.height
  \/ c.price = b.price /\ c.height = b.height /\ c.fee > b.fee

Look ==
  /\ next <= Len(rows)
  /\ best' = IF ~Skipped(rows[next]) /\ (best = 0 \/ Takes(rows[next], rows[best]))
             THEN next ELSE best
  /\ next' = next + 1
  /\ UNCHANGED <<order, rows>>

ScanSpec == ScanInit /\ [][Look]_scan

-----------------------------------------------------------------------------
ScanTypeOK ==
  /\ next \in 1..(Len(rows) + 1)
  /\ best \in 0..(next - 1)

Seen == [i \in 1..(next - 1) |-> rows[i]]

\* At every turn of the loop bestMatch is a best match among the rows looked at so far,
\* and it is nil only when none of them is compatible.
ScanBest ==
  IF best = 0 THEN CompatibleOrders(Seen, order) = {} ELSE best \in BestMatches(Seen, order)

\* When the loop ends, bestMatch is one of the orders matchOrder must choose from, whatever
\* the order of the rows: what OrderBook takes as one step.
ScanFindsBest ==
  next > Len(rows) =>
    IF best = 0 THEN CompatibleOrders(rows, order) = {} ELSE best \in BestMatches(rows, order)
=============================================================================
