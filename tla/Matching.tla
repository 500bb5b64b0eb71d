------------------------------- MODULE Matching -------------------------------
(***************************************************************************)
(* The choice matchOrder makes among the resting orders (orderbook.go:926): *)
(* what it must choose, over a table of orders with the fields status,      *)
(* side, pair, price, height and fee.  MatchScan is the loop that chooses.  *)
(***************************************************************************)
EXTENDS Integers

Side == {"Buy", "Sell"}

\* FindPendingCounterOrders: the resting orders on the other side of the same pair.
\* Mut: Matched orders are candidates too.
MutCandidates(os, ord) ==
  {c \in DOMAIN os : /\ os[c].status \in {"Pending", "Matched"}
                     /\ os[c].side # ord.side
                     /\ os[c].pair = ord.pair}
Candidates(os, ord) ==
  {c \in DOMAIN os : /\ os[c].status = "Pending"
                     /\ os[c].side # ord.side
                     /\ os[c].pair = ord.pair}

\* A buy takes a sell priced at most its own price; a sell a buy priced at least its own.
Compatible(ord, cand) ==
  IF ord.side = "Buy" THEN cand.price <= ord.price ELSE cand.price >= ord.price

BetterPrice(ord, x, y) ==
  IF ord.side = "Buy" THEN x.price < y.price ELSE x.price > y.price

\* Price, then the earlier block, then the higher fee.
Beats(ord, x, y) ==
  \/ BetterPrice(ord, x, y)
  \/ /\ x.price = y.price
     /\ \/ x.height < y.height
        \/ x.height = y.height /\ x.fee > y.fee

CompatibleOrders(os, ord) == {c \in Candidates(os, ord) : Compatible(ord, os[c])}

\* The orders no other candidate beats: the scan returns one, which one when several tie
\* depends on the order SQLite lists the rows in.
BestMatches(os, ord) ==
  {c \in CompatibleOrders(os, ord) :
     \A d \in CompatibleOrders(os, ord) : ~Beats(ord, os[d], os[c])}

\* The four updates that link the two orders.
Linked(os, a, b) ==
  [os EXCEPT ![a].status = "Matched", ![a].match = b,
             ![b].status = "Matched", ![b].match = a]

\* The tables matchOrder may leave for the order id of the table os.
MatchOrder(os, id) ==
  LET best == BestMatches(os, os[id]) IN
  IF best = {} THEN {os} ELSE {Linked(os, id, c) : c \in best}
=============================================================================
