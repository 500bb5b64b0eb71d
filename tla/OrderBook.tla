------------------------------ MODULE OrderBook ------------------------------
(***************************************************************************)
(* The orderbook tripod (chain/core/orderbook.go, orderbook_cozk.go,        *)
(* orderbook_cozk2p.go, order_scheme.go) over the cash of CashLedger.       *)
(* An action is one transaction: a handler runs to its return before the    *)
(* next starts.  The writes of a handler are not one database transaction,  *)
(* so a handler that fails at a write has an action of its own, which keeps *)
(* the writes made before.                                                  *)
(***************************************************************************)
EXTENDS CashLedger, Matching

CONSTANTS
  Pair,       \* the trading pairs <<token1, token2>>
  Price,      \* limit prices
  Fee,        \* handling fees, already summed
  Quantity,   \* quantities of token1 an order may ask for
  MaxOrders,  \* bound: orders ever placed
  MaxHeight   \* bound: blocks

ASSUME PairAssumption == Pair \subseteq Token \X Token
ASSUME NumbersAssumption ==
  Price \subseteq Nat \ {0} /\ Fee \subseteq Nat /\ Quantity \subseteq Nat \ {0}

NoOrder == {}

VARIABLES
  height,       \* of the block being executed
  orders,       \* the orders table
  compareSubs,  \* compare_submissions: order -> counterparty and MPC share
  settleSubs,   \* settle_submissions: order -> counterparty and leg
  settleAddrs   \* settle_addrs: order -> counterparty

book == <<orders, compareSubs, settleSubs, settleAddrs>>
vars == <<cash, issued, height, orders, compareSubs, settleSubs, settleAddrs>>

OrderStat == {"Pending", "Matched", "Done", "Cancelled", "Frozen", "Settling"}

Order == [owner: Trader, pair: Pair, side: Side, price: Price, fee: Fee,
          qty: Nat \ {0}, inputs: OrderId, height: Nat,
          match: OrderId \cup {NoOrder}, status: OrderStat, smaller: BOOLEAN]

NewOrder(owner, pair, side, price, fee, qty, inputs) ==
  [owner |-> owner, pair |-> pair, side |-> side, price |-> price, fee |-> fee,
   qty |-> qty, inputs |-> inputs, height |-> height,
   match |-> NoOrder, status |-> "Pending", smaller |-> FALSE]

Put(f, k, v) == [x \in DOMAIN f \cup {k} |-> IF x = k THEN v ELSE f[x]]
Without(f, ks) == [x \in DOMAIN f \ ks |-> f[x]]

LockToken(o) == IF o.side = "Buy" THEN o.pair[2] ELSE o.pair[1]
RecvToken(o) == IF o.side = "Buy" THEN o.pair[1] ELSE o.pair[2]

\* What a side pays, and what it gets, when qty of token1 changes hands at price.
Pays(side, qty, price) == IF side = "Buy" THEN qty * price ELSE qty
Gets(side, qty, price) == IF side = "Buy" THEN qty ELSE qty * price

\* Both orders of a pair exist, have the status st, and name each other.
MutuallyMatched(a, b, st) ==
  /\ {a, b} \subseteq DOMAIN orders
  /\ orders[a].status = st /\ orders[b].status = st
  /\ orders[a].match = b /\ orders[b].match = a

Min2(x, y) == IF x <= y THEN x ELSE y

-----------------------------------------------------------------------------
Init ==
  /\ LedgerInit
  /\ height = 1
  /\ orders = [o \in {} |-> {}]
  /\ compareSubs = [o \in {} |-> {}]
  /\ settleSubs = [o \in {} |-> {}]
  /\ settleAddrs = [o \in {} |-> {}]

NextBlock ==
  /\ height < MaxHeight
  /\ height' = height + 1
  /\ UNCHANGED <<ledger, book>>

-----------------------------------------------------------------------------
\* SendOrder.  The ID is the hash of the inputs, and InsertOrder's primary key never
\* refuses it: OrderIdsAreFresh says so.
Inserted(ins, ord) ==
  /\ ins \notin DOMAIN orders
  /\ orders' \in MatchOrder(Put(orders, ins, ord), ins)
  /\ UNCHANGED <<issued, height, compareSubs, settleSubs, settleAddrs>>

\* No change output: the inputs are worth exactly what the order pays, and stay, locked.
SendOrder(owner, pair, side, price, fee, qty, ins) ==
  LET ord == NewOrder(owner, pair, side, price, fee, qty, ins) IN
  /\ ValidInputs(ins, owner, LockToken(ord))
  /\ Sum(ins) = Pays(side, qty, price)
  /\ Lockable(cash, ins)
  /\ cash' = LockCash(cash, ins, ins)
  /\ Inserted(ins, ord)

\* split.circom: the inputs are worth the locked cash plus the change.
SplitRelation(ins, locked, change) == Sum(ins) = locked + change

SplitOutputs(owner, token, ins, locked, change, rl, rc) ==
  <<Output(Cash(owner, token, locked, rl), LockedRow(ins)),
    Output(Cash(owner, token, change, rc), ActiveRow)>>

\* The inputs are worth more: they are spent for one locked cash and one change cash.
SendOrderSplit(owner, pair, side, price, fee, qty, ins) ==
  LET locked == Pays(side, qty, price)
      change == Sum(ins) - locked
      token == IF side = "Buy" THEN pair[2] ELSE pair[1]
      spent == SpendCash(cash, ins, {ins})
  IN /\ ValidInputs(ins, owner, token)
     /\ change \in Nat \ {0}
     /\ SplitRelation(ins, locked, change)
     /\ Spendable(cash, ins)
     /\ \E rl, rc \in Blinding :
          LET outs == SplitOutputs(owner, token, ins, locked, change, rl, rc)
              ord == NewOrder(owner, pair, side, price, fee, qty, {outs[1].id})
          IN /\ WalletMayName(outs)
             /\ \/ /\ Mintable(spent, outs)
                   /\ cash' = Mint(spent, outs)
                   /\ Inserted(ins, ord)
                \/ /\ MintFails(spent, outs, cash')
                   /\ UNCHANGED <<issued, height, book>>

-----------------------------------------------------------------------------
\* RegisterSettleAddr: an upsert, by the owner of a Matched order.
RegisterSettleAddr(o) ==
  /\ orders[o].status = "Matched"
  /\ settleAddrs' = Put(settleAddrs, o, [match |-> orders[o].match])
  /\ UNCHANGED <<ledger, height, orders, compareSubs, settleSubs>>

\* What a run of the MPC over two Matched orders opens (lib/mpc settle.rs): whether the
\* buyer asks for at least as much as the seller, and the opening of the smaller order.
MpcShare(a, b) ==
  LET buy == IF orders[a].side = "Buy" THEN a ELSE b
      sell == IF orders[a].side = "Buy" THEN b ELSE a
      cmp == orders[buy].qty >= orders[sell].qty
      smaller == IF cmp THEN sell ELSE buy
  IN [cmp |-> cmp, rSmaller |-> <<smaller, orders[smaller].qty>>]

\* The shares of the two parties carry those values under one MAC key: the check passes
\* when they carry the same.
VerifyMpcMac(mine, theirs) == mine = theirs

IsSmaller(side, cmp) == side = (IF cmp THEN "Sell" ELSE "Buy")

Compared(os, a, b, cmp) ==
  [os EXCEPT ![a].status = "Settling", ![a].smaller = IsSmaller(os[a].side, cmp),
             ![b].status = "Settling", ![b].smaller = IsSmaller(os[b].side, cmp)]

\* CompareOrders: the first share of a pair is stored, the second one compares the pair.
CompareOrders(me, other) ==
  LET share == MpcShare(me, other) IN
  /\ MutuallyMatched(me, other, "Matched")
  /\ me \notin DOMAIN compareSubs
  /\ \/ /\ other \notin DOMAIN compareSubs
        /\ compareSubs' = Put(compareSubs, me, [match |-> other, share |-> share])
        /\ UNCHANGED orders
     \/ /\ other \in DOMAIN compareSubs
        /\ VerifyMpcMac(share, compareSubs[other].share)
        /\ orders' = Compared(orders, me, other, share.cmp)
        /\ compareSubs' = Without(compareSubs, {me, other})
  /\ UNCHANGED <<ledger, height, settleSubs, settleAddrs>>

-----------------------------------------------------------------------------
\* executionPrice: the price of the earlier block, the lower price within one block.
ExecutionPrice(x, y) ==
  IF x.height < y.height THEN x.price
  ELSE IF y.height < x.height THEN y.price
  ELSE Min2(x.price, y.price)

\* The leg of the larger party: the quantity filled and the blindings of its three outputs.
Leg == [price: Price, fill: Nat \ {0}, recv: Blinding, change: Blinding, other: Blinding]
NoLeg == << >>

\* The wallet of the larger party settles the quantity the smaller order asks for.
WalletLegs(me, other) ==
  IF orders[me].smaller THEN {NoLeg}
  ELSE [price: {ExecutionPrice(orders[me], orders[other])}, fill: {orders[other].qty},
        recv: Blinding, change: Blinding, other: Blinding]

\* settle_larger.circom: what the inputs are worth beyond the larger party's fill is its
\* change, and the fill of the other party is the fill times or over the price.
LegChange(larger, leg) == Sum(larger.inputs) - Pays(larger.side, leg.fill, leg.price)

\* Received by the smaller party, change if any, received by the larger party.
\* Mut: the change is never minted; the fill is paid as it is, not times the price.
MutLegOutputsNoChange(larger, smaller, leg) ==
  LET pays == Pays(larger.side, leg.fill, leg.price)
      gets == Gets(larger.side, leg.fill, leg.price)
  IN <<Output(Cash(smaller.owner, LockToken(larger), pays, leg.recv), ActiveRow),
       Output(Cash(larger.owner, LockToken(smaller), gets, leg.other), ActiveRow)>>
MutLegOutputsUnpriced(larger, smaller, leg) ==
  <<Output(Cash(smaller.owner, LockToken(larger), leg.fill, leg.recv), ActiveRow),
    Output(Cash(larger.owner, LockToken(smaller), leg.fill, leg.other), ActiveRow)>>
LegOutputs(larger, smaller, leg) ==
  LET pays == Pays(larger.side, leg.fill, leg.price)
      gets == Gets(larger.side, leg.fill, leg.price)
      change == LegChange(larger, leg)
      pay == Output(Cash(smaller.owner, LockToken(larger), pays, leg.recv), ActiveRow)
      back == Output(Cash(larger.owner, LockToken(larger), change, leg.change), ActiveRow)
      get == Output(Cash(larger.owner, LockToken(smaller), gets, leg.other), ActiveRow)
  IN IF change = 0 THEN <<pay, get>> ELSE <<pay, back, get>>

\* The pair, and the leg the request or the stored submission carries.
LargerOf(me, other) == IF orders[me].smaller THEN other ELSE me
SmallerOf(me, other) == IF orders[me].smaller THEN me ELSE other
LegOf(me, other, leg) == IF orders[me].smaller THEN settleSubs[other].leg ELSE leg

\* The updates that take orders off the book; Mut: of the one the comparison marked only.
MutClosed(os, done) ==
  [x \in DOMAIN os |->
     IF x \in done /\ os[x].smaller THEN [os[x] EXCEPT !.status = "Done"] ELSE os[x]]
Closed(os, done) ==
  [x \in DOMAIN os |-> IF x \in done THEN [os[x] EXCEPT !.status = "Done"] ELSE os[x]]

\* SpendCash of the inputs of a pair; Mut: of one order only.
MutPairSpent(a, b) == SpendCash(cash, orders[a].inputs, {a, b})
PairSpent(a, b) == SpendCash(cash, orders[a].inputs \cup orders[b].inputs, {a, b})

\* DeleteSettleAddr of both orders; Mut: of one only.
MutAddrsDropped(a, b) == Without(settleAddrs, {a})
AddrsDropped(a, b) == Without(settleAddrs, {a, b})

SettleRequest(me, other, leg) ==
  /\ MutuallyMatched(me, other, "Settling")
  /\ orders[me].smaller <=> leg = NoLeg
  /\ me \notin DOMAIN settleSubs

\* SettleOrders, first submission of the pair: stored, the leg unverified.
SettleOrdersStore(me, other, leg) ==
  /\ SettleRequest(me, other, leg)
  /\ other \notin DOMAIN settleSubs
  /\ settleSubs' = Put(settleSubs, me, [match |-> other, leg |-> leg])
  /\ UNCHANGED <<ledger, height, orders, compareSubs, settleAddrs>>

\* The second: everything is verified before the first writing.
SettleVerified(me, other, leg) ==
  LET larger == orders[LargerOf(me, other)]
      smaller == orders[SmallerOf(me, other)]
      theLeg == LegOf(me, other, leg)
  IN /\ SettleRequest(me, other, leg)
     /\ other \in DOMAIN settleSubs
     /\ theLeg # NoLeg
     /\ theLeg.price = ExecutionPrice(larger, smaller)
     /\ LegChange(larger, theLeg) \in Nat
     /\ Spendable(cash, larger.inputs \cup smaller.inputs)
     /\ WalletMayName(LegOutputs(larger, smaller, theLeg))

SettledOutputs(me, other, leg) ==
  LegOutputs(orders[LargerOf(me, other)], orders[SmallerOf(me, other)], LegOf(me, other, leg))

SettleOrders(me, other, leg) ==
  LET outs == SettledOutputs(me, other, leg)
      spent == PairSpent(me, other)
  IN /\ SettleVerified(me, other, leg)
     /\ Mintable(spent, outs)
     /\ cash' = Mint(spent, outs)
     /\ orders' = Closed(orders, {me, other})
     /\ settleSubs' = Without(settleSubs, {me, other})
     /\ settleAddrs' = AddrsDropped(me, other)
     /\ UNCHANGED <<issued, height, compareSubs>>

\* No output is checked before the inputs are spent: a CreateCash that fails leaves both
\* orders Settling over spent cash.
SettleOrdersFails(me, other, leg) ==
  /\ SettleVerified(me, other, leg)
  /\ MintFails(PairSpent(me, other), SettledOutputs(me, other, leg), cash')
  /\ UNCHANGED <<issued, height, book>>

-----------------------------------------------------------------------------
\* loadCoZkMatchedPair: a is the maker, by block and then by ID (a hash: either may be).
\* Mut: a pair that is already Settling is accepted too.
MutCoZkPair(a, b) ==
  /\ MutuallyMatched(a, b, "Matched") \/ MutuallyMatched(a, b, "Settling")
  /\ orders[a].side # orders[b].side
  /\ orders[a].height <= orders[b].height
  /\ orders[a].price = orders[b].price
CoZkPair(a, b) ==
  /\ MutuallyMatched(a, b, "Matched")
  /\ orders[a].side # orders[b].side
  /\ orders[a].height <= orders[b].height
  /\ orders[a].price = orders[b].price

\* settle_cozk.circom: the inputs of each order are worth exactly what it pays at the price.
BackedExactly(o, price) == Sum(o.inputs) = Pays(o.side, o.qty, price)

RecvOutput(o, fill, price, r) ==
  Output(Cash(o.owner, RecvToken(o), Gets(o.side, fill, price), r), ActiveRow)

\* Mut: the remainder is minted Active.
MutRemainderOutput(x, fill, price, r) ==
  LET o == orders[x] IN
  Output(Cash(o.owner, LockToken(o), Pays(o.side, o.qty - fill, price), r), ActiveRow)
RemainderOutput(x, fill, price, r) ==
  LET o == orders[x] IN
  Output(Cash(o.owner, LockToken(o), Pays(o.side, o.qty - fill, price), r), LockedRow(x))

CoZkFill(a, b) == Min2(orders[a].qty, orders[b].qty)
RecvOutputs(a, b, ra, rb) ==
  LET fill == CoZkFill(a, b)
      price == ExecutionPrice(orders[a], orders[b])
  IN <<RecvOutput(orders[a], fill, price, ra), RecvOutput(orders[b], fill, price, rb)>>

\* The orders whose quantity the fill exhausts, and the one it does not.
\* Mut: an order the fill exhausts is relisted.
Filled(a, b) == {x \in {a, b} : orders[x].qty = CoZkFill(a, b)}
MutSurvivors(a, b) == {x \in {a, b} : orders[x].qty >= CoZkFill(a, b)}
Survivors(a, b) == {a, b} \ Filled(a, b)

RemainderOutputs(a, b, rest) ==
  IF Survivors(a, b) = {} THEN << >>
  ELSE <<RemainderOutput(CHOOSE x \in Survivors(a, b) : TRUE, CoZkFill(a, b),
                         ExecutionPrice(orders[a], orders[b]), rest)>>

\* relistWithRemainder, the updates of the order: its block stays.
\* Mut: the amount is not updated; the block is the current one.
MutRemainderFull(o, fill, in) ==
  [o EXCEPT !.inputs = {in}, !.match = NoOrder, !.smaller = FALSE, !.status = "Pending"]
MutRemainderLast(o, fill, in) ==
  [o EXCEPT !.qty = o.qty - fill, !.inputs = {in}, !.match = NoOrder, !.smaller = FALSE,
            !.status = "Pending", !.height = height]
Remainder(o, fill, in) ==
  [o EXCEPT !.qty = o.qty - fill, !.inputs = {in}, !.match = NoOrder, !.smaller = FALSE,
            !.status = "Pending"]
Relisted(os, x, fill, in) == [os EXCEPT ![x] = Remainder(os[x], fill, in)]

\* The tables the updates and the match after them may leave; Mut: no match after them.
MutRelistings(os, x, fill, in) == {Relisted(os, x, fill, in)}
Relistings(os, x, fill, in) == MatchOrder(Relisted(os, x, fill, in), x)

\* The signatures of both owners and the proof verify.
CoZkVerified(a, b) ==
  /\ CoZkPair(a, b)
  /\ \A o \in {a, b} : BackedExactly(orders[o], ExecutionPrice(orders[a], orders[b]))

\* The pre-flight check: no ID to be minted exists.
CoZkPreflight(outs) == \A i \in DOMAIN outs : outs[i].id \notin DOMAIN cash

CoZkAccepted(a, b, outs) ==
  /\ WalletMayName(outs)
  /\ CoZkPreflight(outs)
  /\ Spendable(cash, orders[a].inputs \cup orders[b].inputs)

\* SettleOrdersCoZk and SettleOrdersCoZk2p; ra, rb and rest are the blindings of the outputs.
SettleOrdersCoZk(a, b) ==
  /\ CoZkVerified(a, b)
  /\ \E ra, rb, rest \in Blinding :
       LET outs == RecvOutputs(a, b, ra, rb) \o RemainderOutputs(a, b, rest)
           spent == PairSpent(a, b)
           closed == Closed(orders, Filled(a, b))
       IN /\ CoZkAccepted(a, b, outs)
          /\ Mintable(spent, outs)
          /\ cash' = Mint(spent, outs)
          /\ \/ Survivors(a, b) = {} /\ orders' = closed
             \/ \E x \in Survivors(a, b) :
                  orders' \in Relistings(closed, x, CoZkFill(a, b), outs[3].id)
  /\ settleAddrs' = AddrsDropped(a, b)
  /\ UNCHANGED <<issued, height, compareSubs, settleSubs>>

\* The remainder is the cash one of the parties receives, which the pre-flight check does
\* not compare it with: the handler stops once that cash is minted and the other order Done.
SettleOrdersCoZkFails(a, b) ==
  /\ CoZkVerified(a, b)
  /\ \E ra, rb, rest \in Blinding :
       LET recvs == RecvOutputs(a, b, ra, rb)
           outs == recvs \o RemainderOutputs(a, b, rest)
           spent == PairSpent(a, b)
       IN /\ CoZkAccepted(a, b, outs)
          /\ MintFails(spent, outs, cash')
          /\ cash' = Mint(spent, recvs)
  /\ orders' = Closed(orders, Filled(a, b))
  /\ UNCHANGED <<issued, height, compareSubs, settleSubs, settleAddrs>>

-----------------------------------------------------------------------------
LedgerStep == LedgerNext /\ UNCHANGED <<height, book>>

PlaceOrder ==
  /\ Cardinality(DOMAIN orders) < MaxOrders
  /\ \E ins \in RequestInputs, pair \in Pair, side \in Side, price \in Price,
        fee \in Fee, qty \in Quantity :
       \/ SendOrder(OwnerOf(ins), pair, side, price, fee, qty, ins)
       \/ SendOrderSplit(OwnerOf(ins), pair, side, price, fee, qty, ins)

LegacySettle ==
  \E me \in DOMAIN orders : \E other \in {orders[me].match} \cap DOMAIN orders :
    \/ CompareOrders(me, other)
    \/ \E leg \in WalletLegs(me, other) :
         \/ SettleOrdersStore(me, other, leg)
         \/ SettleOrders(me, other, leg)
         \/ SettleOrdersFails(me, other, leg)

JointSettle ==
  \E a \in DOMAIN orders : \E b \in {orders[a].match} \cap DOMAIN orders :
    SettleOrdersCoZk(a, b) \/ SettleOrdersCoZkFails(a, b)

Next ==
  \/ NextBlock
  \/ LedgerStep
  \/ PlaceOrder
  \/ \E o \in DOMAIN orders : RegisterSettleAddr(o)
  \/ LegacySettle
  \/ JointSettle

Spec == Init /\ [][Next]_vars

-----------------------------------------------------------------------------
Live(o) == orders[o].status \in {"Pending", "Matched", "Settling"}
LiveOrders == {o \in DOMAIN orders : Live(o)}
Paired == {o \in DOMAIN orders : orders[o].status \in {"Matched", "Settling"}}

\* Every table holds rows of its type.
TypeOK ==
  /\ LedgerTypeOK
  /\ height \in Nat
  /\ DOMAIN orders \subseteq OrderId
  /\ \A o \in DOMAIN orders : orders[o] \in Order
  /\ \A o \in DOMAIN compareSubs :
       o \in DOMAIN orders /\ compareSubs[o].match \in DOMAIN orders
  /\ \A o \in DOMAIN settleSubs : o \in DOMAIN orders /\ settleSubs[o].leg \in Leg \cup {NoLeg}
  /\ \A o \in DOMAIN settleAddrs : o \in DOMAIN orders

\* Whatever is placed, split, matched, settled in part, relisted and matched again: a live
\* order's collateral is cash of its owner, in the token it pays with, locked for that very
\* order ...
CollateralLocked ==
  \A o \in LiveOrders : \A c \in orders[o].inputs :
    /\ c \in DOMAIN cash /\ cash[c] = LockedRow(o)
    /\ c.owner = orders[o].owner
    /\ c.token = LockToken(orders[o])

\* ... and worth exactly what the order still asks for at its own price.
CollateralWorth == \A o \in LiveOrders : BackedExactly(orders[o], orders[o].price)

\* No cash stays locked when the order it was locked for has left the book or was relisted
\* over another cash: UnlockCash has no caller, so such a cash would be lost.
NoOrphanLock ==
  \A c \in DOMAIN cash : cash[c].status = "Locked" => \E o \in LiveOrders : c \in orders[o].inputs

\* A paired order and its counterparty name each other, are in the same phase, and are
\* orders matchOrder may pair; the comparison made exactly one of them the smaller.
MatchSymmetric ==
  \A o \in Paired :
    LET p == orders[o].match IN
    /\ MutuallyMatched(o, p, orders[o].status)
    /\ orders[p].side # orders[o].side
    /\ orders[p].pair = orders[o].pair
    /\ Compatible(orders[o], orders[p])
    /\ orders[o].status = "Settling" => orders[o].smaller # orders[p].smaller

\* The book is never crossed: matching at insertion and at relisting is enough, two orders
\* that could trade with each other never both rest.
NoCrossedBook ==
  \A o \in DOMAIN orders :
    orders[o].status = "Pending" => CompatibleOrders(orders, orders[o]) = {}

\* An order ID, the hash of the cash a request lists, is never free again for a request the
\* handler accepts: of the cash it hashes, one is not Active.
OrderIdsAreFresh == \A o \in DOMAIN orders : ~(o \subseteq ActiveCash(cash))

\* A registered address is one for the current match: a client that polls for its
\* counterparty never finds the address of an earlier one.
AddrRowsCurrent ==
  \A o \in DOMAIN settleAddrs : o \in Paired /\ settleAddrs[o].match = orders[o].match

\* A stored leg waits for the counterparty it was computed for, which is still to answer,
\* and the chain will accept it as it stands: a stored leg is never verified before.
StoredLegsCurrent ==
  \A o \in DOMAIN settleSubs :
    LET p == orders[o].match
        leg == settleSubs[o].leg
    IN /\ orders[o].status = "Settling" /\ settleSubs[o].match = p
       /\ p \notin DOMAIN settleSubs
       /\ leg # NoLeg => /\ leg.price = ExecutionPrice(orders[o], orders[p])
                         /\ leg.fill = orders[p].qty
                         /\ LegChange(orders[o], leg) >= 0

\* orderbook_cozk.go:433 "Clean up any leftover legacy rendezvous/submission rows for the
\* pair": the share stored for a paired order is for its current counterparty, not one of a
\* pair settled before, which would bar the order from comparing again.
CompareRowsCurrent ==
  \A o \in DOMAIN compareSubs \cap Paired : compareSubs[o].match = orders[o].match

\* orderbook_cozk.go:343 the pre-flight check "keeps a malformed request from freezing
\* collateral": a Matched order never lists cash that is spent.
CollateralNotFrozen ==
  \A o \in DOMAIN orders :
    orders[o].status = "Matched" => \A c \in orders[o].inputs : cash[c].status = "Locked"

\* Even when handlers fail halfway and wallets reuse commitments: the collateral of a live
\* order is all locked for it or all spent, no other live order lists any of it, and a live
\* counterparty's is spent together with it: no settlement finds half of a pair spent.
CollateralWhole ==
  \A o \in LiveOrders :
    /\ \/ \A c \in orders[o].inputs : cash[c] = LockedRow(o)
       \/ \A c \in orders[o].inputs : cash[c].status = "Spent"
    /\ \A p \in LiveOrders \ {o} : orders[o].inputs \cap orders[p].inputs = {}
    /\ \A p \in {orders[o].match} \cap LiveOrders :
         orders[o].inputs \cap Unspent(cash) = {} <=> orders[p].inputs \cap Unspent(cash) = {}

\* An order keeps its owner, pair, side, price and block as long as it exists: a relisted
\* remainder keeps its time priority.  Its quantity only ever shrinks.
TermsKept ==
  [][\A o \in DOMAIN orders :
       /\ o \in DOMAIN orders'
       /\ LET x == orders[o]
              y == orders'[o]
          IN /\ <<x.owner, x.pair, x.side, x.price, x.height>>
                  = <<y.owner, y.pair, y.side, y.price, y.height>>
             /\ y.qty <= x.qty]_vars

\* Collateral leaves its lock only in a step that takes it from a paired order and settles
\* the counterparty too: of the two orders of a settled pair one at least is Done.
LocksHeld ==
  [][\A o \in DOMAIN orders : \A c \in orders[o].inputs :
       (Live(o) /\ cash'[c] # cash[c]) =>
         /\ o \in Paired
         /\ "Done" \in {orders'[o].status, orders'[orders[o].match].status}]_vars

Holding(t, owner, token) == Sum({c \in Unspent(t) : c.owner = owner /\ c.token = token})

\* A settlement, joint or legacy, at one price or across two, is a trade at the limits of
\* both: whichever step settles a pair, each owner receives the smaller quantity at the
\* execution price and pays for it no more than the order's own price.
TradesWithinLimits ==
  [][\A o \in Paired :
       LET x == orders[o]
           y == orders[x.match]
           fill == Min2(x.qty, y.qty)
           price == ExecutionPrice(x, y)
           got == Holding(cash', x.owner, RecvToken(x)) - Holding(cash, x.owner, RecvToken(x))
           paid == Holding(cash, x.owner, LockToken(x)) - Holding(cash', x.owner, LockToken(x))
       IN (x.owner # y.owner /\ \E c \in x.inputs : cash'[c] # cash[c]) =>
            /\ got = Gets(x.side, fill, price)
            /\ Pays(x.side, fill, price) <= paid /\ paid <= Pays(x.side, fill, x.price)]_vars
=============================================================================
