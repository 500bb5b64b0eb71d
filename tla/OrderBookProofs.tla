--------------------------- MODULE OrderBookProofs ---------------------------
(***************************************************************************)
(* What holds of the ledger and the book for every set of traders, tokens,  *)
(* prices and quantities, and any number of orders and blocks.              *)
(***************************************************************************)
EXTENDS OrderBook, LedgerProofs

\* No handler deletes a row of the cash table or changes a Spent one.
LEMMA BookKeeps == Next => Keeps(cash, cash')
<1> SUFFICES ASSUME Next PROVE Keeps(cash, cash')
  OBVIOUS
<1>0. cash' = cash => Keeps(cash, cash')
  BY DEF Keeps
<1>1. CASE NextBlock
  BY <1>0, <1>1 DEF NextBlock, ledger
<1>2. CASE LedgerStep
  BY <1>2, LedgerKeeps DEF LedgerStep
<1>3. ASSUME NEW owner, NEW pair, NEW side, NEW price, NEW fee, NEW qty, NEW ins,
             SendOrder(owner, pair, side, price, fee, qty, ins)
      PROVE  Keeps(cash, cash')
  BY <1>3, LockKeeps DEF SendOrder
<1>4. ASSUME NEW owner, NEW pair, NEW side, NEW price, NEW fee, NEW qty, NEW ins,
             SendOrderSplit(owner, pair, side, price, fee, qty, ins)
      PROVE  Keeps(cash, cash')
  BY <1>4, SpendAndMintKeeps DEF SendOrderSplit, Mint, MintFails
<1>5. ASSUME NEW o, RegisterSettleAddr(o)
      PROVE  Keeps(cash, cash')
  BY <1>0, <1>5 DEF RegisterSettleAddr, ledger
<1>6. CASE LegacySettle
  <2>1. ASSUME NEW a, NEW b, CompareOrders(a, b)
        PROVE  Keeps(cash, cash')
    BY <1>0, <2>1 DEF CompareOrders, ledger
  <2>2. ASSUME NEW a, NEW b, NEW leg, SettleOrdersStore(a, b, leg)
        PROVE  Keeps(cash, cash')
    BY <1>0, <2>2 DEF SettleOrdersStore, ledger
  <2>3. ASSUME NEW a, NEW b, NEW leg, SettleVerified(a, b, leg)
        PROVE  Spendable(cash, orders[a].inputs \cup orders[b].inputs)
    BY <2>3 DEF SettleVerified, LargerOf, SmallerOf, Spendable
  <2>4. ASSUME NEW a, NEW b, NEW leg, SettleOrders(a, b, leg)
        PROVE  Keeps(cash, cash')
    <3>1. /\ SettleVerified(a, b, leg)
          /\ cash' = Minted(PairSpent(a, b), SettledOutputs(a, b, leg),
                            Len(SettledOutputs(a, b, leg)))
      BY <2>4, Zenon DEF SettleOrders, Mint
    <3>2. QED
      BY <2>3, <3>1, SpendAndMintKeeps DEF PairSpent
  <2>6. ASSUME NEW a, NEW b, NEW leg, SettleOrdersFails(a, b, leg)
        PROVE  Keeps(cash, cash')
    <3>1. /\ SettleVerified(a, b, leg)
          /\ \E k : cash' = Minted(PairSpent(a, b), SettledOutputs(a, b, leg), k)
      BY <2>6, Zenon DEF SettleOrdersFails, MintFails
    <3>2. QED
      BY <2>3, <3>1, SpendAndMintKeeps DEF PairSpent
  <2>5. PICK a, b : \/ CompareOrders(a, b)
                    \/ \E leg : \/ SettleOrdersStore(a, b, leg)
                               \/ SettleOrders(a, b, leg)
                               \/ SettleOrdersFails(a, b, leg)
    BY <1>6, Zenon DEF LegacySettle
  <2>7. QED
    BY <2>1, <2>2, <2>4, <2>5, <2>6
<1>7. CASE JointSettle
  <2>1. ASSUME NEW a, NEW b, SettleOrdersCoZk(a, b)
        PROVE  Keeps(cash, cash')
    BY <2>1, SpendAndMintKeeps DEF SettleOrdersCoZk, CoZkAccepted, PairSpent, Mint
  <2>2. ASSUME NEW a, NEW b, SettleOrdersCoZkFails(a, b)
        PROVE  Keeps(cash, cash')
    BY <2>2, SpendAndMintKeeps DEF SettleOrdersCoZkFails, CoZkAccepted, PairSpent, Mint
  <2>3. QED
    BY <1>7, <2>1, <2>2 DEF JointSettle
<1>8. QED
  BY <1>1, <1>2, <1>3, <1>4, <1>5, <1>6, <1>7 DEF Next, PlaceOrder

\* Whatever the handlers do, failed ones and restarts included, a spent cash stays spent.
THEOREM SpentStaysSpent == Spec => SpentIsFinal
<1> DEFINE Final == \A c \in DOMAIN cash :
                      /\ c \in DOMAIN cash'
                      /\ cash[c].status = "Spent" => cash'[c] = cash[c]
<1>1. [Next]_vars => [Final]_ledger
  BY BookKeeps DEF vars, ledger, Keeps
<1>2. QED
  BY <1>1, PTL DEF Spec, SpentIsFinal

-----------------------------------------------------------------------------
(***************************************************************************)
(* Type correctness.                                                       *)
(***************************************************************************)
\* What a side pays and gets for a quantity at a price is a positive amount.
LEMMA Trades ==
  ASSUME NEW side, NEW qty \in Nat \ {0}, NEW price \in Nat \ {0}
  PROVE  Pays(side, qty, price) \in Nat \ {0} /\ Gets(side, qty, price) \in Nat \ {0}
<1>1. qty * price \in Nat \ {0}
  OBVIOUS
<1>2. QED
  BY <1>1 DEF Pays, Gets

\* The fields of an order, and the tokens it pays and receives.
LEMMA OrderFields ==
  ASSUME NEW o \in Order
  PROVE  /\ o.owner \in Trader /\ LockToken(o) \in Token /\ RecvToken(o) \in Token
         /\ o.qty \in Nat \ {0} /\ o.price \in Nat \ {0} /\ o.price \in Price
         /\ o.height \in Nat /\ o.inputs \in OrderId /\ o.side \in Side
<1>1. o.pair \in Pair /\ o.price \in Price
  BY DEF Order
<1>2. o.pair[1] \in Token /\ o.pair[2] \in Token
  BY <1>1, PairAssumption
<1>3. QED
  BY <1>1, <1>2, NumbersAssumption DEF Order, LockToken, RecvToken

-----------------------------------------------------------------------------
\* The tables of orders.
TypedOrders(os) == DOMAIN os \subseteq OrderId /\ \A o \in DOMAIN os : os[o] \in Order

\* What matchOrder leaves: the table, or the order linked with a compatible resting one.
LEMMA MatchOrderShape ==
  ASSUME NEW os, NEW id, NEW new \in MatchOrder(os, id)
  PROVE  \/ new = os
         \/ \E c \in CompatibleOrders(os, os[id]) : new = Linked(os, id, c)
  BY DEF MatchOrder, BestMatches

\* Linked changes the status and the link of its two orders only.
LEMMA LinkedShape ==
  ASSUME NEW os, NEW a \in DOMAIN os, NEW b \in DOMAIN os, a # b
  PROVE  /\ DOMAIN Linked(os, a, b) = DOMAIN os
         /\ Linked(os, a, b)[a] = [os[a] EXCEPT !.status = "Matched", !.match = b]
         /\ Linked(os, a, b)[b] = [os[b] EXCEPT !.status = "Matched", !.match = a]
         /\ \A o \in DOMAIN os \ {a, b} : Linked(os, a, b)[o] = os[o]
  BY DEF Linked

\* What a match chooses is another order that exists and rests.
LEMMA CandidatesRest ==
  ASSUME NEW os, NEW id \in DOMAIN os, NEW c \in CompatibleOrders(os, os[id])
  PROVE  /\ c \in DOMAIN os /\ c # id
         /\ os[c].status = "Pending"
         /\ os[c].side # os[id].side
         /\ os[c].pair = os[id].pair
         /\ Compatible(os[id], os[c])
  BY DEF CompatibleOrders, Candidates

\* The updates of an order that keep it one.
LEMMA OrderUpdates ==
  ASSUME NEW o \in Order
  PROVE  /\ \A st \in OrderStat : [o EXCEPT !.status = st] \in Order
         /\ \A st \in OrderStat, m \in OrderId :
              [o EXCEPT !.status = st, !.match = m] \in Order
         /\ \A st \in OrderStat, sm \in BOOLEAN :
              [o EXCEPT !.status = st, !.smaller = sm] \in Order
         /\ \A q \in Nat \ {0}, i \in OrderId :
              [o EXCEPT !.qty = q, !.inputs = i, !.match = NoOrder,
                        !.smaller = FALSE, !.status = "Pending"] \in Order
  BY DEF Order, OrderStat

\* A match leaves orders.
LEMMA MatchOrderTyped ==
  ASSUME NEW os, NEW id \in DOMAIN os, NEW new \in MatchOrder(os, id), TypedOrders(os)
  PROVE  TypedOrders(new) /\ DOMAIN new = DOMAIN os
<1>1. CASE new = os
  BY <1>1
<1>2. ASSUME NEW c \in CompatibleOrders(os, os[id]), new = Linked(os, id, c)
      PROVE  TypedOrders(new) /\ DOMAIN new = DOMAIN os
  <2>1. c \in DOMAIN os /\ c # id
    BY CandidatesRest
  <2>2. "Matched" \in OrderStat /\ id \in OrderId /\ c \in OrderId
    BY <2>1 DEF OrderStat, TypedOrders
  <2>3. /\ [os[id] EXCEPT !.status = "Matched", !.match = c] \in Order
        /\ [os[c] EXCEPT !.status = "Matched", !.match = id] \in Order
    BY <2>1, <2>2, OrderUpdates DEF TypedOrders
  <2>4. /\ DOMAIN new = DOMAIN os
        /\ new[id] \in Order /\ new[c] \in Order
        /\ \A o \in DOMAIN os \ {id, c} : new[o] = os[o]
    <3>1. /\ DOMAIN new = DOMAIN os
          /\ new[id] = [os[id] EXCEPT !.status = "Matched", !.match = c]
          /\ new[c] = [os[c] EXCEPT !.status = "Matched", !.match = id]
          /\ \A o \in DOMAIN os \ {id, c} : new[o] = os[o]
      BY <1>2, <2>1 DEF Linked
    <3>2. QED
      BY <2>3, <3>1
  <2>5. \A o \in DOMAIN new : new[o] \in Order
    BY <2>4 DEF TypedOrders
  <2>6. QED
    BY <2>4, <2>5 DEF TypedOrders
<1>3. QED
  BY <1>1, <1>2, MatchOrderShape

\* Inserting an order leaves orders.
LEMMA PutOrder ==
  ASSUME NEW ins \in OrderId, NEW ord \in Order, TypedOrders(orders)
  PROVE  /\ TypedOrders(Put(orders, ins, ord))
         /\ ins \in DOMAIN Put(orders, ins, ord)
         /\ DOMAIN orders \subseteq DOMAIN Put(orders, ins, ord)
  BY DEF Put, TypedOrders

\* SendOrder builds an order.
LEMMA NewOrderTyped ==
  ASSUME NEW owner \in Trader, NEW pair \in Pair, NEW side \in Side, NEW price \in Price,
         NEW fee \in Fee, NEW qty \in Quantity, NEW ins \in OrderId, height \in Nat
  PROVE  NewOrder(owner, pair, side, price, fee, qty, ins) \in Order
  BY NumbersAssumption DEF NewOrder, Order, OrderStat, NoOrder

\* The tables of rows kept for an order refer to orders.
TypedRows(os) ==
  /\ \A o \in DOMAIN compareSubs : o \in DOMAIN os /\ compareSubs[o].match \in DOMAIN os
  /\ \A o \in DOMAIN settleSubs : o \in DOMAIN os /\ settleSubs[o].leg \in Leg \cup {NoLeg}
  /\ \A o \in DOMAIN settleAddrs : o \in DOMAIN os

\* The conjuncts of TypeOK one at a time, for handlers that change few tables.
LEMMA TypeOKParts ==
  TypeOK <=> /\ Typed(cash) /\ issued \in [Token -> Int] /\ height \in Nat
             /\ TypedOrders(orders) /\ TypedRows(orders)
  BY DEF TypeOK, LedgerTypeOK, Typed, TypedOrders, TypedRows

\* Inserting and matching an order keeps the type of the book.
LEMMA InsertedTyped ==
  ASSUME NEW ins \in OrderId, NEW ord \in Order, TypeOK, Inserted(ins, ord), Typed(cash')
  PROVE  TypeOK'
<1>1. TypedOrders(orders') /\ DOMAIN orders \subseteq DOMAIN orders'
  BY PutOrder, MatchOrderTyped, TypeOKParts DEF Inserted
<1>2. QED
  BY <1>1 DEF Inserted, TypeOK, LedgerTypeOK, Typed, TypedOrders

\* SendOrder without change keeps the types.
LEMMA SendOrderTyped ==
  ASSUME NEW ins \in RequestInputs, NEW pair \in Pair, NEW side \in Side, NEW price \in Price,
         NEW fee \in Fee, NEW qty \in Quantity, TypeOK,
         SendOrder(OwnerOf(ins), pair, side, price, fee, qty, ins)
  PROVE  TypeOK'
<1> DEFINE ord == NewOrder(OwnerOf(ins), pair, side, price, fee, qty, ins)
<1>1. ins \in OrderId /\ OwnerOf(ins) \in Trader
  BY InputsAreOrderId, TypeOKParts DEF SendOrder
<1>2. ord \in Order
  BY <1>1, NewOrderTyped, TypeOKParts
<1>3. Typed(cash')
  BY <1>1, LockTyped, TypeOKParts DEF SendOrder
<1>4. QED
  BY <1>1, <1>2, <1>3, InsertedTyped DEF SendOrder

\* The two outputs of a split are well formed.
LEMMA SplitOutputsTyped ==
  ASSUME NEW owner \in Trader, NEW token \in Token, NEW ins \in OrderId,
         NEW locked \in Nat \ {0}, NEW change \in Nat \ {0},
         NEW rl \in Blinding, NEW rc \in Blinding
  PROVE  /\ SplitOutputs(owner, token, ins, locked, change, rl, rc) \in Seq(Outputs)
         /\ Len(SplitOutputs(owner, token, ins, locked, change, rl, rc)) = 2
         /\ {SplitOutputs(owner, token, ins, locked, change, rl, rc)[1].id} \in OrderId
<1> DEFINE o1 == Output(Cash(owner, token, locked, rl), LockedRow(ins))
           o2 == Output(Cash(owner, token, change, rc), ActiveRow)
<1>1. o1 \in Outputs /\ o2 \in Outputs
  BY ActiveOutput, LockedOutput
<1>2. o1.id \in CashId
  BY <1>1 DEF Outputs
<1> HIDE DEF o1, o2
<1>3. <<o1, o2>> \in Seq(Outputs) /\ Len(<<o1, o2>>) = 2 /\ {<<o1, o2>>[1].id} \in OrderId
  BY <1>1, <1>2 DEF OrderId
<1>4. QED
  BY <1>3 DEF SplitOutputs, o1, o2

\* SendOrder with a split keeps the types, when an insert fails too.
LEMMA SendOrderSplitTyped ==
  ASSUME NEW ins \in RequestInputs, NEW pair \in Pair, NEW side \in Side, NEW price \in Price,
         NEW fee \in Fee, NEW qty \in Quantity, TypeOK,
         SendOrderSplit(OwnerOf(ins), pair, side, price, fee, qty, ins)
  PROVE  TypeOK'
<1> DEFINE owner == OwnerOf(ins)
           locked == Pays(side, qty, price)
           change == Sum(ins) - locked
           token == IF side = "Buy" THEN pair[2] ELSE pair[1]
           spent == SpendCash(cash, ins, {ins})
           outs(rl, rc) == SplitOutputs(owner, token, ins, locked, change, rl, rc)
           ord(rl, rc) == NewOrder(owner, pair, side, price, fee, qty, {outs(rl, rc)[1].id})
<1>1. ins \in OrderId /\ owner \in Trader /\ token \in Token
  BY InputsAreOrderId, TypeOKParts DEF SendOrderSplit
<1>2. locked \in Nat \ {0} /\ change \in Nat \ {0}
  BY Trades, NumbersAssumption DEF SendOrderSplit
<1>3. Typed(spent)
  BY <1>1, SpendTyped, TypeOKParts
<1>4. PICK rl \in Blinding, rc \in Blinding :
        \/ /\ cash' = Mint(spent, outs(rl, rc))
           /\ Inserted(ins, ord(rl, rc))
        \/ /\ MintFails(spent, outs(rl, rc), cash')
           /\ UNCHANGED <<issued, height, book>>
  BY Zenon DEF SendOrderSplit
<1>5. /\ outs(rl, rc) \in Seq(Outputs) /\ Len(outs(rl, rc)) = 2
      /\ {outs(rl, rc)[1].id} \in OrderId
  <2> HIDE DEF owner, locked, change, token
  <2>1. QED
    BY <1>1, <1>2, SplitOutputsTyped
<1>6. ord(rl, rc) \in Order
  BY <1>1, <1>5, NewOrderTyped, TypeOKParts
<1> HIDE DEF outs, ord, spent
<1>7. \A k \in 0..2 : Typed(Minted(spent, outs(rl, rc), k))
  BY <1>3, <1>5, MintTyped
<1>8. CASE cash' = Mint(spent, outs(rl, rc)) /\ Inserted(ins, ord(rl, rc))
  <2>1. Typed(cash')
    BY <1>5, <1>7, <1>8 DEF Mint
  <2>2. QED
    BY <1>1, <1>6, <1>8, <2>1, InsertedTyped
<1>9. CASE MintFails(spent, outs(rl, rc), cash') /\ UNCHANGED <<issued, height, book>>
  <2>1. Typed(cash')
    BY <1>5, <1>7, <1>9 DEF MintFails
  <2>2. QED
    BY <1>9, <2>1 DEF book, TypeOK, LedgerTypeOK, Typed
<1>10. QED
  BY <1>4, <1>8, <1>9

\* RegisterSettleAddr keeps the types.
LEMMA RegisterTyped ==
  ASSUME NEW o \in DOMAIN orders, TypeOK, RegisterSettleAddr(o)
  PROVE  TypeOK'
  BY DEF RegisterSettleAddr, Put, ledger, TypeOK, LedgerTypeOK

\* The updates of a comparison leave orders.
LEMMA ComparedTyped ==
  ASSUME NEW a \in DOMAIN orders, NEW b \in DOMAIN orders, NEW cmp, TypedOrders(orders)
  PROVE  TypedOrders(Compared(orders, a, b, cmp)) /\ DOMAIN Compared(orders, a, b, cmp) = DOMAIN orders
<1> DEFINE new == Compared(orders, a, b, cmp)
<1>1. DOMAIN new = DOMAIN orders
  BY DEF Compared
<1>2. \A sm \in BOOLEAN, o \in Order : [o EXCEPT !.status = "Settling", !.smaller = sm] \in Order
  BY OrderUpdates DEF OrderStat
<1>3. /\ IsSmaller(orders[a].side, cmp) \in BOOLEAN
      /\ IsSmaller(orders[b].side, cmp) \in BOOLEAN
  BY DEF IsSmaller
<1>4. \A o \in DOMAIN orders : new[o] \in Order
  <2>1. TAKE o \in DOMAIN orders
  <2>2. orders[o] \in Order
    BY DEF TypedOrders
  <2>3. \/ new[o] = orders[o]
        \/ \E sm \in BOOLEAN : new[o] = [orders[o] EXCEPT !.status = "Settling", !.smaller = sm]
        \/ \E sm, sn \in BOOLEAN :
             new[o] = [orders[o] EXCEPT !.status = "Settling", !.smaller = sm]
    BY <1>3 DEF Compared
  <2>4. QED
    BY <1>2, <2>2, <2>3
<1>5. QED
  BY <1>1, <1>4 DEF TypedOrders

\* CompareOrders keeps the types.
LEMMA CompareTyped ==
  ASSUME NEW a, NEW b, TypeOK, CompareOrders(a, b)
  PROVE  TypeOK'
<1>1. {a, b} \subseteq DOMAIN orders
  BY DEF CompareOrders, MutuallyMatched
<1>2. CASE orders' = orders /\ \E row : /\ row.match = b
                                        /\ compareSubs' = Put(compareSubs, a, row)
  BY <1>1, <1>2 DEF CompareOrders, Put, ledger, TypeOK, LedgerTypeOK
<1>3. CASE /\ \E cmp : orders' = Compared(orders, a, b, cmp)
           /\ compareSubs' = Without(compareSubs, {a, b})
  <2>1. TypedOrders(orders') /\ DOMAIN orders' = DOMAIN orders
    BY <1>1, <1>3, ComparedTyped, TypeOKParts
  <2>2. TypedRows(orders)'
    BY <1>3, <2>1, TypeOKParts DEF CompareOrders, Without, TypedRows
  <2>3. QED
    BY <2>1, <2>2 DEF CompareOrders, ledger, TypeOK, LedgerTypeOK, TypedRows, TypedOrders
<1>4. QED
  <2>1. [match |-> b, share |-> MpcShare(a, b)].match = b
    OBVIOUS
  <2>2. QED
    BY <1>2, <1>3, <2>1 DEF CompareOrders

\* The execution price is a price of one of the orders.
LEMMA ExecutionPriceTyped ==
  ASSUME NEW x \in Order, NEW y \in Order
  PROVE  ExecutionPrice(x, y) \in Price /\ ExecutionPrice(x, y) \in Nat \ {0}
<1>1. x.price \in Price /\ y.price \in Price
  BY OrderFields
<1>2. ExecutionPrice(x, y) \in {x.price, y.price}
  BY DEF ExecutionPrice, Min2
<1>3. QED
  BY <1>1, <1>2, NumbersAssumption

\* What a wallet submits is a leg, or none.
LEMMA WalletLegsTyped ==
  ASSUME NEW a \in DOMAIN orders, NEW b \in DOMAIN orders, TypedOrders(orders)
  PROVE  WalletLegs(a, b) \subseteq Leg \cup {NoLeg}
<1>1. orders[a] \in Order /\ orders[b] \in Order
  BY DEF TypedOrders
<1>2. ExecutionPrice(orders[a], orders[b]) \in Price /\ orders[b].qty \in Nat \ {0}
  BY <1>1, ExecutionPriceTyped, OrderFields
<1>3. QED
  BY <1>2 DEF WalletLegs, Leg

\* The outputs of a verified leg are well formed: amounts above zero.
LEMMA LegOutputsTyped ==
  ASSUME NEW larger \in Order, NEW smaller \in Order, NEW leg \in Leg,
         LegChange(larger, leg) \in Nat
  PROVE  LegOutputs(larger, smaller, leg) \in Seq(Outputs)
<1> DEFINE change == LegChange(larger, leg)
           pay == Output(Cash(smaller.owner, LockToken(larger),
                              Pays(larger.side, leg.fill, leg.price), leg.recv), ActiveRow)
           back == Output(Cash(larger.owner, LockToken(larger), change, leg.change), ActiveRow)
           get == Output(Cash(larger.owner, LockToken(smaller),
                              Gets(larger.side, leg.fill, leg.price), leg.other), ActiveRow)
<1>1. /\ leg.fill \in Nat \ {0} /\ leg.price \in Nat \ {0}
      /\ leg.recv \in Blinding /\ leg.change \in Blinding /\ leg.other \in Blinding
  BY NumbersAssumption DEF Leg
<1>2. pay \in Outputs /\ get \in Outputs
  BY <1>1, Trades, OrderFields, ActiveOutput
<1>3. change # 0 => back \in Outputs
  BY <1>1, OrderFields, ActiveOutput
<1> HIDE DEF change, pay, back, get
<1>4. /\ <<pay, get>> \in Seq(Outputs)
      /\ change # 0 => <<pay, back, get>> \in Seq(Outputs)
  BY <1>2, <1>3
<1>5. LegOutputs(larger, smaller, leg) = IF change = 0 THEN <<pay, get>> ELSE <<pay, back, get>>
  BY DEF LegOutputs, change, pay, back, get
<1>6. QED
  BY <1>4, <1>5

\* Storing a leg keeps the types.
LEMMA StoreTyped ==
  ASSUME NEW a \in DOMAIN orders, NEW b \in DOMAIN orders, NEW leg \in WalletLegs(a, b),
         TypeOK, SettleOrdersStore(a, b, leg)
  PROVE  TypeOK'
<1>1. leg \in Leg \cup {NoLeg}
  BY WalletLegsTyped, TypeOKParts
<1>2. QED
  BY <1>1 DEF SettleOrdersStore, Put, ledger, TypeOK, LedgerTypeOK

\* The outputs SettleOrders verified are well formed, however many of them are minted.
LEMMA VerifiedTyped ==
  ASSUME NEW a \in DOMAIN orders, NEW b \in DOMAIN orders, NEW leg \in WalletLegs(a, b),
         TypeOK, SettleVerified(a, b, leg)
  PROVE  /\ SettledOutputs(a, b, leg) \in Seq(Outputs)
         /\ \A k \in 0..Len(SettledOutputs(a, b, leg)) :
              Typed(Minted(PairSpent(a, b), SettledOutputs(a, b, leg), k))
<1>1. /\ LargerOf(a, b) \in DOMAIN orders /\ orders[LargerOf(a, b)] \in Order
      /\ SmallerOf(a, b) \in DOMAIN orders /\ orders[SmallerOf(a, b)] \in Order
  BY TypeOKParts DEF LargerOf, SmallerOf, TypedOrders
<1>2. LegOf(a, b, leg) \in Leg
  BY WalletLegsTyped, TypeOKParts DEF SettleVerified, LegOf, TypedRows
<1>3. SettledOutputs(a, b, leg) \in Seq(Outputs)
  BY <1>1, <1>2, LegOutputsTyped DEF SettleVerified, SettledOutputs
<1>4. {a, b} \in SUBSET OrderId
  BY TypeOKParts DEF TypedOrders
<1>5. Typed(PairSpent(a, b))
  BY <1>4, SpendTyped, TypeOKParts DEF PairSpent
<1>6. QED
  BY <1>3, <1>5, MintTyped

\* Closing orders leaves orders.
LEMMA ClosedTyped ==
  ASSUME NEW os, NEW done, TypedOrders(os)
  PROVE  TypedOrders(Closed(os, done)) /\ DOMAIN Closed(os, done) = DOMAIN os
  BY OrderUpdates DEF TypedOrders, Closed, OrderStat

\* SettleOrders keeps the types.
LEMMA SettleTyped ==
  ASSUME NEW a \in DOMAIN orders, NEW b \in DOMAIN orders, NEW leg \in WalletLegs(a, b),
         TypeOK, SettleOrders(a, b, leg)
  PROVE  TypeOK'
<1> DEFINE outs == SettledOutputs(a, b, leg)
<1>1. /\ SettleVerified(a, b, leg)
      /\ cash' = Minted(PairSpent(a, b), outs, Len(outs))
      /\ orders' = Closed(orders, {a, b})
      /\ settleSubs' = Without(settleSubs, {a, b})
      /\ settleAddrs' = AddrsDropped(a, b)
      /\ UNCHANGED <<issued, height, compareSubs>>
  BY Zenon DEF SettleOrders, Mint
<1> HIDE DEF outs
<1>2. outs \in Seq(Outputs) /\ \A k \in 0..Len(outs) : Typed(Minted(PairSpent(a, b), outs, k))
  BY <1>1, VerifiedTyped DEF outs
<1>3. Typed(cash')
  BY <1>1, <1>2, LenProperties
<1>4. TypedOrders(orders') /\ DOMAIN orders' = DOMAIN orders
  BY <1>1, ClosedTyped, TypeOKParts
<1>5. TypedRows(orders)'
  BY <1>1, <1>4, TypeOKParts DEF TypedRows, Without, AddrsDropped
<1>6. QED
  BY <1>1, <1>3, <1>4, <1>5 DEF TypeOK, LedgerTypeOK, Typed, TypedOrders, TypedRows

\* SettleOrders keeps the types when an insert fails.
LEMMA SettleFailsTyped ==
  ASSUME NEW a \in DOMAIN orders, NEW b \in DOMAIN orders, NEW leg \in WalletLegs(a, b),
         TypeOK, SettleOrdersFails(a, b, leg)
  PROVE  TypeOK'
<1> DEFINE outs == SettledOutputs(a, b, leg)
<1>1. /\ SettleVerified(a, b, leg)
      /\ \E k \in 0..(Len(outs) - 1) : cash' = Minted(PairSpent(a, b), outs, k)
      /\ UNCHANGED <<issued, height, book>>
  BY Zenon DEF SettleOrdersFails, MintFails
<1> HIDE DEF outs
<1>2. outs \in Seq(Outputs) /\ \A k \in 0..Len(outs) : Typed(Minted(PairSpent(a, b), outs, k))
  BY <1>1, VerifiedTyped DEF outs
<1>3. 0..(Len(outs) - 1) \subseteq 0..Len(outs)
  BY <1>2, LenProperties
<1>4. Typed(cash')
  BY <1>1, <1>2, <1>3
<1>5. QED
  BY <1>1, <1>4 DEF book, TypeOK, LedgerTypeOK, Typed

-----------------------------------------------------------------------------
\* The smaller quantity of a pair, and what an order it does not exhaust has left.
LEMMA FillBounds ==
  ASSUME NEW a \in DOMAIN orders, NEW b \in DOMAIN orders, TypedOrders(orders)
  PROVE  /\ CoZkFill(a, b) \in Nat \ {0}
         /\ \A x \in Survivors(a, b) : /\ x \in {a, b}
                                       /\ orders[x].qty - CoZkFill(a, b) \in Nat \ {0}
<1>1. \A x \in {a, b} : orders[x].qty \in Nat \ {0}
  BY OrderFields DEF TypedOrders
<1>2. CoZkFill(a, b) \in Nat \ {0} /\ \A x \in {a, b} : CoZkFill(a, b) <= orders[x].qty
  BY <1>1 DEF CoZkFill, Min2
<1>3. QED
  BY <1>1, <1>2 DEF Survivors, Filled

\* What the two parties of a joint settlement receive is well formed.
LEMMA RecvTyped ==
  ASSUME NEW a \in DOMAIN orders, NEW b \in DOMAIN orders, TypedOrders(orders),
         NEW ra \in Blinding, NEW rb \in Blinding
  PROVE  RecvOutputs(a, b, ra, rb) \in Seq(Outputs) /\ Len(RecvOutputs(a, b, ra, rb)) = 2
<1> DEFINE fill == CoZkFill(a, b)
           price == ExecutionPrice(orders[a], orders[b])
           outA == RecvOutput(orders[a], fill, price, ra)
           outB == RecvOutput(orders[b], fill, price, rb)
<1>1. orders[a] \in Order /\ orders[b] \in Order
  BY DEF TypedOrders
<1>2. fill \in Nat \ {0} /\ price \in Nat \ {0}
  BY <1>1, FillBounds, ExecutionPriceTyped
<1> HIDE DEF fill, price
<1>3. outA \in Outputs /\ outB \in Outputs
  BY <1>1, <1>2, Trades, OrderFields, ActiveOutput DEF RecvOutput
<1> HIDE DEF outA, outB
<1>4. <<outA, outB>> \in Seq(Outputs) /\ Len(<<outA, outB>>) = 2
  BY <1>3
<1>5. RecvOutputs(a, b, ra, rb) = <<outA, outB>>
  BY DEF RecvOutputs, outA, outB, fill, price
<1>6. QED
  BY <1>4, <1>5

\* The one remainder, when there is one.
LEMMA RemainderTyped ==
  ASSUME NEW a \in DOMAIN orders, NEW b \in DOMAIN orders, TypedOrders(orders),
         NEW rest \in Blinding
  PROVE  /\ RemainderOutputs(a, b, rest) \in Seq(Outputs)
         /\ Survivors(a, b) # {} => Len(RemainderOutputs(a, b, rest)) = 1
         /\ Survivors(a, b) = {} => Len(RemainderOutputs(a, b, rest)) = 0
<1>1. CASE Survivors(a, b) = {}
  BY <1>1 DEF RemainderOutputs
<1>2. CASE Survivors(a, b) # {}
  <2> DEFINE price == ExecutionPrice(orders[a], orders[b])
  <2>1. PICK x : x = CHOOSE y \in Survivors(a, b) : TRUE
    OBVIOUS
  <2>2. x \in Survivors(a, b)
    BY <1>2, <2>1
  <2>3. x \in DOMAIN orders /\ orders[x].qty - CoZkFill(a, b) \in Nat \ {0}
    BY <2>2, FillBounds
  <2>4. orders[x] \in Order /\ x \in OrderId
    BY <2>3 DEF TypedOrders
  <2>5. price \in Nat \ {0}
    BY ExecutionPriceTyped DEF TypedOrders
  <2> HIDE DEF price
  <2>6. RemainderOutput(x, CoZkFill(a, b), price, rest) \in Outputs
    BY <2>3, <2>4, <2>5, Trades, OrderFields, LockedOutput DEF RemainderOutput
  <2>7. RemainderOutputs(a, b, rest) = <<RemainderOutput(x, CoZkFill(a, b), price, rest)>>
    BY <1>2, <2>1 DEF RemainderOutputs, price
  <2>8. QED
    BY <1>2, <2>6, <2>7
<1>3. QED
  BY <1>1, <1>2

\* All outputs of a joint settlement are well formed.
LEMMA CoZkOutputsTyped ==
  ASSUME NEW a \in DOMAIN orders, NEW b \in DOMAIN orders, TypedOrders(orders), Typed(cash),
         NEW ra \in Blinding, NEW rb \in Blinding, NEW rest \in Blinding,
         NEW outs, outs = RecvOutputs(a, b, ra, rb) \o RemainderOutputs(a, b, rest)
  PROVE  /\ outs \in Seq(Outputs)
         /\ Survivors(a, b) # {} => Len(outs) = 3
         /\ Typed(Mint(PairSpent(a, b), outs))
         /\ Typed(Mint(PairSpent(a, b), RecvOutputs(a, b, ra, rb)))
<1>1. outs \in Seq(Outputs) /\ (Survivors(a, b) # {} => Len(outs) = 3)
  <2> DEFINE recvs == RecvOutputs(a, b, ra, rb)
             rems == RemainderOutputs(a, b, rest)
  <2>1. recvs \in Seq(Outputs) /\ Len(recvs) = 2
    BY RecvTyped
  <2>2. rems \in Seq(Outputs) /\ (Survivors(a, b) # {} => Len(rems) = 1)
    BY RemainderTyped
  <2> HIDE DEF recvs, rems
  <2>3. recvs \o rems \in Seq(Outputs) /\ Len(recvs \o rems) = Len(recvs) + Len(rems)
    BY <2>1, <2>2, ConcatProperties
  <2>4. QED
    BY <2>1, <2>2, <2>3 DEF recvs, rems
<1>2. Typed(PairSpent(a, b))
  BY SpendTyped DEF PairSpent, TypedOrders
<1>3. \A s \in Seq(Outputs) : Typed(Mint(PairSpent(a, b), s))
  BY <1>2, MintTyped, LenProperties DEF Mint
<1>4. QED
  BY <1>1, <1>3, RecvTyped

\* A relisted order is an order.
LEMMA RelistedTyped ==
  ASSUME NEW os, NEW x \in DOMAIN os, NEW fill, NEW in \in CashId, TypedOrders(os),
         os[x].qty - fill \in Nat \ {0}
  PROVE  TypedOrders(Relisted(os, x, fill, in)) /\ DOMAIN Relisted(os, x, fill, in) = DOMAIN os
<1>1. {in} \in OrderId
  BY DEF OrderId
<1>2. Remainder(os[x], fill, in) \in Order
  BY <1>1, OrderUpdates DEF TypedOrders, Remainder
<1>3. QED
  BY <1>2 DEF Relisted, TypedOrders

\* The joint settlement keeps the types.
LEMMA CoZkTyped ==
  ASSUME NEW a \in DOMAIN orders, NEW b \in DOMAIN orders, TypeOK, SettleOrdersCoZk(a, b)
  PROVE  TypeOK'
<1> DEFINE outs(ra, rb, rest) == RecvOutputs(a, b, ra, rb) \o RemainderOutputs(a, b, rest)
           closed == Closed(orders, Filled(a, b))
           fill == CoZkFill(a, b)
<1>1. PICK ra \in Blinding, rb \in Blinding, rest \in Blinding :
        /\ cash' = Mint(PairSpent(a, b), outs(ra, rb, rest))
        /\ \/ orders' = closed
           \/ \E x \in Survivors(a, b) :
                orders' \in MatchOrder(Relisted(closed, x, fill, outs(ra, rb, rest)[3].id), x)
  BY Zenon DEF SettleOrdersCoZk, Relistings
<1>2. PICK s : s = outs(ra, rb, rest)
  OBVIOUS
<1>3. /\ s \in Seq(Outputs) /\ (Survivors(a, b) # {} => Len(s) = 3)
      /\ Typed(Mint(PairSpent(a, b), s))
  BY <1>2, CoZkOutputsTyped, TypeOKParts
<1>4. Typed(cash')
  BY <1>1, <1>2, <1>3
<1>5. TypedOrders(closed) /\ DOMAIN closed = DOMAIN orders
  BY ClosedTyped, TypeOKParts
<1>6. ASSUME NEW x \in Survivors(a, b), orders' \in MatchOrder(Relisted(closed, x, fill, s[3].id), x)
      PROVE  TypedOrders(orders') /\ DOMAIN orders' = DOMAIN orders
  <2>1. s[3] \in Outputs
    BY <1>3, <1>6
  <2>2. s[3].id \in CashId
    BY <2>1 DEF Outputs
  <2>3. x \in DOMAIN orders /\ orders[x].qty - fill \in Nat \ {0}
    BY FillBounds, TypeOKParts
  <2>4. closed[x] = orders[x]
    BY <2>3, <1>6 DEF Closed, Survivors
  <2>5. /\ TypedOrders(Relisted(closed, x, fill, s[3].id))
        /\ DOMAIN Relisted(closed, x, fill, s[3].id) = DOMAIN orders
    BY <1>5, <2>2, <2>3, <2>4, RelistedTyped
  <2>6. QED
    BY <1>6, <2>3, <2>5, MatchOrderTyped
<1>7. TypedOrders(orders') /\ DOMAIN orders' = DOMAIN orders
  BY <1>1, <1>2, <1>5, <1>6
<1>8. settleAddrs' = AddrsDropped(a, b) /\ UNCHANGED <<issued, height, compareSubs, settleSubs>>
  BY Zenon DEF SettleOrdersCoZk
<1>9. TypedRows(orders)'
  BY <1>7, <1>8, TypeOKParts DEF TypedRows, Without, AddrsDropped
<1>10. QED
  BY <1>4, <1>7, <1>8, <1>9 DEF TypeOK, LedgerTypeOK, Typed, TypedOrders, TypedRows

\* The joint settlement keeps the types when the last insert fails.
LEMMA CoZkFailsTyped ==
  ASSUME NEW a \in DOMAIN orders, NEW b \in DOMAIN orders, TypeOK, SettleOrdersCoZkFails(a, b)
  PROVE  TypeOK'
<1>1. PICK ra \in Blinding, rb \in Blinding :
        cash' = Mint(PairSpent(a, b), RecvOutputs(a, b, ra, rb))
  BY Zenon DEF SettleOrdersCoZkFails
<1>2. Typed(PairSpent(a, b))
  BY SpendTyped, TypeOKParts DEF PairSpent, TypedOrders
<1>3. Typed(cash')
  BY <1>1, <1>2, RecvTyped, MintTyped, LenProperties, TypeOKParts DEF Mint
<1>4. /\ orders' = Closed(orders, Filled(a, b))
      /\ UNCHANGED <<issued, height, compareSubs, settleSubs, settleAddrs>>
  BY Zenon DEF SettleOrdersCoZkFails
<1>5. TypedOrders(orders') /\ DOMAIN orders' = DOMAIN orders
  BY <1>4, ClosedTyped, TypeOKParts
<1>6. QED
  BY <1>3, <1>4, <1>5 DEF TypeOK, LedgerTypeOK, Typed, TypedOrders, TypedRows

-----------------------------------------------------------------------------
\* The tables are typed at first.
LEMMA InitTyped == Init => TypeOK
<1> SUFFICES ASSUME Init PROVE TypeOK
  OBVIOUS
<1>1. Typed(cash)
  BY SeededTyped DEF Init, LedgerInit, Typed
<1>2. issued \in [Token -> Int]
  BY GenesisIssued DEF Init, LedgerInit
<1>3. QED
  BY <1>1, <1>2 DEF Init, TypeOK, LedgerTypeOK, Typed

\* Every step keeps every table typed: TypeOK is inductive as it stands.
LEMMA NextTyped == TypeOK /\ [Next]_vars => TypeOK'
<1> SUFFICES ASSUME TypeOK, [Next]_vars PROVE TypeOK'
  OBVIOUS
<1>1. CASE NextBlock
  BY <1>1 DEF NextBlock, ledger, book, TypeOK, LedgerTypeOK
<1>2. CASE LedgerStep
  BY <1>2, LedgerStepTyped DEF LedgerStep, book, TypeOK, LedgerTypeOK
<1>3. CASE PlaceOrder
  BY <1>3, SendOrderTyped, SendOrderSplitTyped DEF PlaceOrder
<1>4. CASE \E o \in DOMAIN orders : RegisterSettleAddr(o)
  BY <1>4, RegisterTyped
<1>5. CASE LegacySettle
  <2>1. PICK a \in DOMAIN orders, b \in DOMAIN orders :
          \/ CompareOrders(a, b)
          \/ \E leg \in WalletLegs(a, b) : \/ SettleOrdersStore(a, b, leg)
                                         \/ SettleOrders(a, b, leg)
                                         \/ SettleOrdersFails(a, b, leg)
    BY <1>5, Zenon DEF LegacySettle
  <2>2. QED
    BY <2>1, CompareTyped, StoreTyped, SettleTyped, SettleFailsTyped
<1>6. CASE JointSettle
  BY <1>6, CoZkTyped, CoZkFailsTyped DEF JointSettle
<1>7. CASE UNCHANGED vars
  BY <1>7 DEF vars, TypeOK, LedgerTypeOK
<1>8. QED
  BY <1>1, <1>2, <1>3, <1>4, <1>5, <1>6, <1>7 DEF Next

\* Whatever requests arrive, the tables hold what the handlers read out of them: amounts and
\* quantities above zero, cash of known owners and tokens, rows of orders that exist.
THEOREM TypeCorrect == Spec => []TypeOK
  BY InitTyped, NextTyped, PTL DEF Spec

-----------------------------------------------------------------------------
(***************************************************************************)
(* Collateral and pairing, when wallets draw a new blinding for every       *)
(* output: no CreateCash then fails after the inputs are spent.             *)
(***************************************************************************)
LiveIn(os) == {o \in DOMAIN os : os[o].status \in {"Pending", "Matched", "Settling"}}

BackedBy(t, c, o, ord) ==
  c \in DOMAIN t /\ t[c] = LockedRow(o) /\ c.owner = ord.owner /\ c.token = LockToken(ord)

\* The live orders of the table os are backed by the cash table t.
AllBacked(t, os) == \A o \in LiveIn(os) : \A c \in os[o].inputs : BackedBy(t, c, o, os[o])

\* The table u keeps what the table t locks for the orders of keep.
LocksKept(t, u, keep) ==
  \A o \in keep : \A c \in DOMAIN t : t[c] = LockedRow(o) => c \in DOMAIN u /\ u[c] = t[c]

\* Two orders never lock one cash: the row names the order.
LEMMA LockNamesOrder ==
  ASSUME NEW o, NEW p, LockedRow(o) = LockedRow(p)
  PROVE  o = p
<1>1. LockedRow(o).by = {o} /\ LockedRow(p).by = {p}
  BY DEF LockedRow
<1>2. QED
  BY <1>1

\* An Active cash is locked for no order.
LEMMA ActiveIsNotLocked ==
  ASSUME NEW t, NEW c \in ActiveCash(t), NEW o
  PROVE  t[c] # LockedRow(o)
  BY DEF ActiveCash, LockedRow

-----------------------------------------------------------------------------
\* Spending or locking Active cash, and minting, keep every lock.
LEMMA SpendActive ==
  ASSUME NEW t, NEW cs, NEW os, NEW keep, cs \subseteq ActiveCash(t)
  PROVE  LocksKept(t, SpendCash(t, cs, os), keep)
  BY ActiveIsNotLocked DEF LocksKept, SpendCash

\* Locking Active cash takes no lock from any order.
LEMMA LockActive ==
  ASSUME NEW t, NEW cs, NEW o, NEW keep, cs \subseteq ActiveCash(t)
  PROVE  LocksKept(t, LockCash(t, cs, o), keep)
  BY ActiveIsNotLocked DEF LocksKept, LockCash

\* Minting changes no row that exists, locked ones included.
LEMMA MintKeepsLocks ==
  ASSUME NEW t, NEW u, NEW outs, NEW k, NEW keep, LocksKept(t, u, keep)
  PROVE  LocksKept(t, Minted(u, outs, k), keep)
  BY MintKeeps DEF LocksKept, Keeps

\* What is locked for orders other than a settled pair is no input of the pair.
LEMMA SpendPair ==
  ASSUME NEW a \in LiveIn(orders), NEW b \in LiveIn(orders), AllBacked(cash, orders)
  PROVE  LocksKept(cash, PairSpent(a, b), LiveIn(orders) \ {a, b})
<1>1. SUFFICES ASSUME NEW o \in LiveIn(orders) \ {a, b}, NEW c \in DOMAIN cash,
                      cash[c] = LockedRow(o),
                      c \in orders[a].inputs \cup orders[b].inputs
               PROVE  FALSE
  BY DEF LocksKept, PairSpent, SpendCash
<1>2. cash[c] = LockedRow(a) \/ cash[c] = LockedRow(b)
  BY <1>1 DEF AllBacked, BackedBy
<1>3. QED
  BY <1>1, <1>2, LockNamesOrder

\* A table of orders with the same terms for its live orders stays backed.
LEMMA StillBacked ==
  ASSUME NEW t, NEW u, NEW os, NEW new, NEW keep, AllBacked(t, os), LocksKept(t, u, keep),
         keep \subseteq LiveIn(os),
         \A o \in keep : /\ new[o].inputs = os[o].inputs /\ new[o].owner = os[o].owner
                         /\ LockToken(new[o]) = LockToken(os[o])
  PROVE  \A o \in keep : \A c \in new[o].inputs : BackedBy(u, c, o, new[o])
  BY DEF AllBacked, BackedBy, LocksKept

\* The terms of an order that none of the updates of the book but a relisting changes.
SameTerms(x, y) ==
  /\ y.inputs = x.inputs /\ y.owner = x.owner /\ y.side = x.side /\ y.pair = x.pair
  /\ y.price = x.price

\* Linking keeps the terms of every order, and touches only the two it links.
LEMMA LinkKeepsTerms ==
  ASSUME NEW os, NEW a \in DOMAIN os, NEW b \in DOMAIN os, a # b, TypedOrders(os),
         NEW new, new = Linked(os, a, b)
  PROVE  /\ DOMAIN new = DOMAIN os
         /\ \A o \in DOMAIN os : SameTerms(os[o], new[o])
         /\ \A o \in DOMAIN os \ {a, b} : new[o] = os[o]
         /\ new[a].status = "Matched" /\ new[a].match = b
         /\ new[b].status = "Matched" /\ new[b].match = a
<1>1. /\ DOMAIN new = DOMAIN os
      /\ new[a] = [os[a] EXCEPT !.status = "Matched", !.match = b]
      /\ new[b] = [os[b] EXCEPT !.status = "Matched", !.match = a]
      /\ \A o \in DOMAIN os \ {a, b} : new[o] = os[o]
  BY DEF Linked
<1>2. os[a] \in Order /\ os[b] \in Order
  BY DEF TypedOrders
<1>3. /\ SameTerms(os[a], new[a]) /\ new[a].status = "Matched" /\ new[a].match = b
      /\ SameTerms(os[b], new[b]) /\ new[b].status = "Matched" /\ new[b].match = a
  BY <1>1, <1>2 DEF Order, SameTerms
<1>4. \A o \in DOMAIN os \ {a, b} : SameTerms(os[o], new[o])
  BY <1>1 DEF SameTerms
<1>5. QED
  BY <1>1, <1>3, <1>4

\* A match changes statuses and links only: the live orders stay backed.
LEMMA MatchKeepsBacked ==
  ASSUME NEW t, NEW os, NEW id \in DOMAIN os, NEW new \in MatchOrder(os, id),
         os[id].status = "Pending", TypedOrders(os), AllBacked(t, os)
  PROVE  AllBacked(t, new)
<1>1. CASE new = os
  BY <1>1
<1>2. ASSUME NEW d \in CompatibleOrders(os, os[id]), new = Linked(os, id, d)
      PROVE  AllBacked(t, new)
  <2>1. d \in DOMAIN os /\ d # id /\ os[d].status = "Pending"
    BY CandidatesRest
  <2>2. /\ DOMAIN new = DOMAIN os
        /\ \A o \in DOMAIN os : SameTerms(os[o], new[o])
        /\ \A o \in DOMAIN os \ {id, d} : new[o] = os[o]
    BY <1>2, <2>1, LinkKeepsTerms
  <2>3. LiveIn(new) \subseteq LiveIn(os)
    BY <2>1, <2>2 DEF LiveIn
  <2>4. QED
    BY <2>2, <2>3 DEF AllBacked, BackedBy, LockToken, LiveIn, SameTerms
<1>3. QED
  BY <1>1, <1>2, MatchOrderShape

\* The invariant in terms of the two tables, for reasoning about tables between writes.
LEMMA CollateralIsBacked == CollateralLocked <=> AllBacked(cash, orders)
  BY DEF CollateralLocked, LiveOrders, Live, AllBacked, LiveIn, BackedBy
-----------------------------------------------------------------------------
\* Deposits, withdrawals and restarts leave locked cash alone.
LEMMA LedgerKeepsLocks ==
  ASSUME LedgerNext, NEW keep
  PROVE  LocksKept(cash, cash', keep)
<1>1. CASE Restart
  BY <1>1 DEF Restart, Seeded, LocksKept
<1>2. ASSUME NEW owner, NEW token, NEW amt, NEW r, Deposit(owner, token, amt, r)
      PROVE  LocksKept(cash, cash', keep)
  BY <1>2, MintKeepsLocks DEF Deposit, Mint, LocksKept
<1>3. ASSUME NEW cs, NEW out, NEW to, NEW r, Withdraw(cs, out, to, r)
      PROVE  LocksKept(cash, cash', keep)
  BY <1>3, SpendActive, MintKeepsLocks DEF Withdraw, WithdrawAccepted, ValidInputs, Mint
<1>4. ASSUME NEW cs, NEW out, NEW to, NEW r, WithdrawFails(cs, out, to, r)
      PROVE  LocksKept(cash, cash', keep)
  BY <1>4, SpendActive, MintKeepsLocks DEF WithdrawFails, WithdrawAccepted, ValidInputs, MintFails
<1>5. QED
  BY <1>1, <1>2, <1>3, <1>4 DEF LedgerNext

\* A new order is backed, the others stay so, and so they are when it is matched.
LEMMA InsertedBacked ==
  ASSUME NEW ins \in OrderId, NEW ord \in Order, TypedOrders(orders), AllBacked(cash, orders),
         Inserted(ins, ord), ord.status = "Pending",
         LocksKept(cash, cash', LiveIn(orders)),
         \A c \in ord.inputs : BackedBy(cash', c, ins, ord)
  PROVE  AllBacked(cash', orders')
<1> DEFINE os == Put(orders, ins, ord)
<1>1. /\ TypedOrders(os) /\ ins \in DOMAIN os /\ os[ins] = ord
      /\ \A o \in DOMAIN orders : o # ins /\ os[o] = orders[o]
      /\ DOMAIN os = DOMAIN orders \cup {ins}
  BY PutOrder DEF Inserted, Put
<1>2. orders' \in MatchOrder(os, ins)
  BY DEF Inserted
<1> HIDE DEF os
<1>3. \A o \in LiveIn(orders) : \A c \in os[o].inputs : BackedBy(cash', c, o, os[o])
  BY <1>1, StillBacked DEF LiveIn
<1>4. AllBacked(cash', os)
  BY <1>1, <1>3 DEF AllBacked, LiveIn
<1>5. QED
  BY <1>1, <1>2, <1>4, MatchKeepsBacked

\* SendOrder without change: the inputs it locks back the new order.
LEMMA SendOrderBacked ==
  ASSUME NEW ins \in RequestInputs, NEW pair \in Pair, NEW side \in Side, NEW price \in Price,
         NEW fee \in Fee, NEW qty \in Quantity, TypeOK, AllBacked(cash, orders),
         SendOrder(OwnerOf(ins), pair, side, price, fee, qty, ins)
  PROVE  AllBacked(cash', orders')
<1> DEFINE ord == NewOrder(OwnerOf(ins), pair, side, price, fee, qty, ins)
<1>1. /\ ValidInputs(ins, OwnerOf(ins), LockToken(ord))
      /\ cash' = LockCash(cash, ins, ins)
      /\ Inserted(ins, ord)
  BY DEF SendOrder
<1>2. ins \in OrderId /\ OwnerOf(ins) \in Trader
  BY <1>1, InputsAreOrderId, TypeOKParts
<1>3. ord \in Order /\ ord.status = "Pending" /\ ord.inputs = ins /\ ord.owner = OwnerOf(ins)
  BY <1>2, NewOrderTyped, TypeOKParts DEF NewOrder
<1> HIDE DEF ord
<1>4. LocksKept(cash, cash', LiveIn(orders))
  BY <1>1, LockActive DEF ValidInputs
<1>5. \A c \in ins : BackedBy(cash', c, ins, ord)
  BY <1>1, <1>3 DEF ValidInputs, BackedBy, LockCash, ActiveCash
<1>6. QED
  BY <1>1, <1>2, <1>3, <1>4, <1>5, InsertedBacked, TypeOKParts

\* SendOrder with a split: the locked output backs the new order.
LEMMA SplitBacked ==
  ASSUME NEW ins \in RequestInputs, NEW pair \in Pair, NEW side \in Side, NEW price \in Price,
         NEW fee \in Fee, NEW qty \in Quantity, FreshOutputs, TypeOK, AllBacked(cash, orders),
         SendOrderSplit(OwnerOf(ins), pair, side, price, fee, qty, ins)
  PROVE  AllBacked(cash', orders')
<1> DEFINE owner == OwnerOf(ins)
           locked == Pays(side, qty, price)
           change == Sum(ins) - locked
           token == IF side = "Buy" THEN pair[2] ELSE pair[1]
           spent == SpendCash(cash, ins, {ins})
           outs(rl, rc) == SplitOutputs(owner, token, ins, locked, change, rl, rc)
           new(in) == NewOrder(owner, pair, side, price, fee, qty, {in})
<1>1. /\ ins \in OrderId /\ owner \in Trader /\ token \in Token
      /\ ins \subseteq ActiveCash(cash)
  BY InputsAreOrderId, TypeOKParts DEF SendOrderSplit, ValidInputs
<1>2. locked \in Nat \ {0} /\ change \in Nat \ {0}
  BY Trades, NumbersAssumption DEF SendOrderSplit
<1>3. PICK rl \in Blinding, rc \in Blinding :
        /\ WalletMayName(outs(rl, rc))
        /\ \/ /\ Mintable(spent, outs(rl, rc))
              /\ cash' = Mint(spent, outs(rl, rc))
              /\ Inserted(ins, new(outs(rl, rc)[1].id))
           \/ MintFails(spent, outs(rl, rc), cash')
  BY Zenon DEF SendOrderSplit
<1> DEFINE s == outs(rl, rc)
           in == s[1].id
<1>4. Len(s) = 2 /\ {in} \in OrderId
  <2> HIDE DEF owner, locked, change, token
  <2>1. QED
    BY <1>1, <1>2, SplitOutputsTyped
<1>5. in.owner = owner /\ in.token = token /\ s[1].row = LockedRow(ins)
  BY DEF SplitOutputs, Output, Cash
<1>6. new(in) \in Order
  BY <1>1, <1>4, NewOrderTyped, TypeOKParts
<1>7. /\ new(in).status = "Pending" /\ new(in).inputs = {in} /\ new(in).owner = owner
      /\ LockToken(new(in)) = token
  BY DEF NewOrder, LockToken
<1>8. LocksKept(cash, spent, LiveIn(orders)) /\ DOMAIN spent = DOMAIN cash
  BY <1>1, SpendActive DEF SpendCash
<1>9. /\ Mintable(spent, s)
      /\ cash' = Mint(spent, s)
      /\ Inserted(ins, new(in))
  <2>1. WalletMayName(s)
    BY <1>3
  <2>2. \/ cash' = Mint(spent, s) /\ Inserted(ins, new(in))
        \/ MintFails(spent, s, cash')
    BY <1>3
  <2> HIDE DEF s, in, new, spent
  <2>3. Mintable(spent, s) /\ ~MintFails(spent, s, cash')
    <3>1. Len(s) \in Nat /\ DOMAIN spent = DOMAIN cash
      BY <1>4, <1>8
    <3>2. QED
      BY <2>1, <3>1, FreshNeverFails, Zenon
  <2>4. QED
    BY <2>2, <2>3
<1> HIDE DEF s, new, spent, owner, token
<1>10. in \in DOMAIN cash' /\ cash'[in] = LockedRow(ins)
  <2>1. Len(s) \in Nat /\ 1 \in 1..Len(s)
    BY <1>4
  <2>2. s[1].id \in DOMAIN Mint(spent, s) /\ Mint(spent, s)[s[1].id] = s[1].row
    BY <1>9, <2>1, MintedRow
  <2>3. QED
    BY <1>5, <1>9, <2>2
<1> HIDE DEF in
<1>11. \A c \in new(in).inputs : BackedBy(cash', c, ins, new(in))
  BY <1>5, <1>7, <1>10 DEF BackedBy
<1>12. LocksKept(cash, cash', LiveIn(orders))
  BY <1>8, <1>9, MintKeepsLocks DEF Mint
<1>13. QED
  BY <1>1, <1>6, <1>7, <1>9, <1>11, <1>12, InsertedBacked, TypeOKParts
-----------------------------------------------------------------------------
\* Updates that keep the terms of every order and put none back on the book.
LEMMA RowsBacked ==
  ASSUME NEW new, TypedOrders(orders), AllBacked(cash, orders), cash' = cash,
         DOMAIN new = DOMAIN orders,
         \A o \in DOMAIN orders : SameTerms(orders[o], new[o]),
         LiveIn(new) \subseteq LiveIn(orders)
  PROVE  AllBacked(cash', new)
  BY DEF AllBacked, BackedBy, SameTerms, LockToken, LiveIn

\* CompareOrders keeps the collateral of the two orders it moves to Settling.
LEMMA CompareBacked ==
  ASSUME NEW a, NEW b, TypeOK, AllBacked(cash, orders), CompareOrders(a, b)
  PROVE  AllBacked(cash', orders')
<1>1. /\ a \in DOMAIN orders /\ b \in DOMAIN orders /\ cash' = cash
      /\ orders[a].status = "Matched" /\ orders[b].status = "Matched"
  BY DEF CompareOrders, MutuallyMatched, ledger
<1>2. CASE orders' = orders
  BY <1>1, <1>2
<1>3. ASSUME NEW cmp, orders' = Compared(orders, a, b, cmp)
      PROVE  AllBacked(cash', orders')
  <2>1. /\ DOMAIN orders' = DOMAIN orders
        /\ \A o \in DOMAIN orders \ {a, b} : orders'[o] = orders[o]
    BY <1>3 DEF Compared
  <2>2. \A o \in {a, b} : SameTerms(orders[o], orders'[o])
    BY <1>1, <1>3, TypeOKParts DEF Compared, TypedOrders, Order, SameTerms
  <2>3. \A o \in DOMAIN orders : SameTerms(orders[o], orders'[o])
    BY <2>1, <2>2 DEF SameTerms
  <2>4. LiveIn(orders') \subseteq LiveIn(orders)
    BY <1>1, <2>1 DEF LiveIn
  <2>5. QED
    BY <1>1, <2>1, <2>3, <2>4, RowsBacked, TypeOKParts
<1>4. QED
  BY <1>2, <1>3 DEF CompareOrders

\* Closing orders leaves the others as they are.
LEMMA ClosedLive ==
  ASSUME NEW os, NEW done, TypedOrders(os)
  PROVE  /\ DOMAIN Closed(os, done) = DOMAIN os
         /\ \A o \in DOMAIN os \ done : Closed(os, done)[o] = os[o]
         /\ \A o \in DOMAIN os \cap done : Closed(os, done)[o].status = "Done"
         /\ LiveIn(Closed(os, done)) = LiveIn(os) \ done
<1>1. \A o \in DOMAIN os \cap done : Closed(os, done)[o].status = "Done"
  BY DEF Closed, TypedOrders, Order
<1>2. /\ DOMAIN Closed(os, done) = DOMAIN os
      /\ \A o \in DOMAIN os \ done : Closed(os, done)[o] = os[o]
  BY DEF Closed
<1>3. QED
  BY <1>1, <1>2 DEF LiveIn

\* SettleOrders spends the collateral of two orders that leave the book.
LEMMA SettleBacked ==
  ASSUME NEW a, NEW b, NEW leg, TypeOK, AllBacked(cash, orders), SettleOrders(a, b, leg)
  PROVE  AllBacked(cash', orders')
<1>1. /\ cash' = Mint(PairSpent(a, b), SettledOutputs(a, b, leg))
      /\ orders' = Closed(orders, {a, b})
      /\ SettleRequest(a, b, leg)
  BY Zenon DEF SettleOrders, SettleVerified
<1>2. a \in LiveIn(orders) /\ b \in LiveIn(orders)
  BY <1>1 DEF SettleRequest, MutuallyMatched, LiveIn
<1>3. LocksKept(cash, cash', LiveIn(orders) \ {a, b})
  BY <1>1, <1>2, SpendPair, MintKeepsLocks DEF Mint
<1>4. /\ LiveIn(orders') = LiveIn(orders) \ {a, b}
      /\ \A o \in LiveIn(orders') : orders'[o] = orders[o]
  BY <1>1, ClosedLive, TypeOKParts DEF LiveIn
<1>5. QED
  BY <1>3, <1>4 DEF AllBacked, BackedBy, LocksKept

\* SettleOrders does not stop between its writes.
LEMMA SettleNeverFails ==
  ASSUME NEW a \in DOMAIN orders, NEW b \in DOMAIN orders, NEW leg \in WalletLegs(a, b),
         FreshOutputs, TypeOK
  PROVE  ~SettleOrdersFails(a, b, leg)
<1>1. SUFFICES ASSUME SettleVerified(a, b, leg)
               PROVE  ~MintFails(PairSpent(a, b), SettledOutputs(a, b, leg), cash')
  BY Zenon DEF SettleOrdersFails
<1> DEFINE outs == SettledOutputs(a, b, leg)
<1>2. WalletMayName(outs)
  BY <1>1 DEF SettleVerified, SettledOutputs
<1>3. Len(outs) \in Nat
  BY <1>1, VerifiedTyped, LenProperties
<1>4. DOMAIN PairSpent(a, b) = DOMAIN cash
  BY DEF PairSpent, SpendCash
<1>5. QED
  BY <1>2, <1>3, <1>4, FreshNeverFails, Zenon
-----------------------------------------------------------------------------
\* A joint settlement leaves at most one order with a remainder.
LEMMA OneSurvivor ==
  ASSUME NEW a \in DOMAIN orders, NEW b \in DOMAIN orders, TypedOrders(orders),
         NEW x \in Survivors(a, b)
  PROVE  /\ x \in {a, b} /\ x \notin Filled(a, b)
         /\ {a, b} \subseteq Filled(a, b) \cup {x}
         /\ (CHOOSE y \in Survivors(a, b) : TRUE) = x
<1>1. CoZkFill(a, b) \in {orders[a].qty, orders[b].qty}
  BY DEF CoZkFill, Min2
<1>2. /\ x \in {a, b} /\ x \notin Filled(a, b)
      /\ {a, b} \subseteq Filled(a, b) \cup {x}
  BY <1>1 DEF Survivors, Filled
<1>3. Survivors(a, b) = {x}
  BY <1>2 DEF Survivors
<1>4. QED
  BY <1>2, <1>3

\* An output that backs what is left of the order x.
BacksRest(out, a, b, x) ==
  /\ out.row = LockedRow(x)
  /\ out.id.owner = orders[x].owner /\ out.id.token = LockToken(orders[x])
  /\ out.id.amt = Pays(orders[x].side, orders[x].qty - CoZkFill(a, b),
                       ExecutionPrice(orders[a], orders[b]))

\* The third output of a settlement with a survivor is the remainder of that order.
LEMMA ThirdOutput ==
  ASSUME NEW a \in DOMAIN orders, NEW b \in DOMAIN orders, TypedOrders(orders),
         NEW ra \in Blinding, NEW rb \in Blinding, NEW rest \in Blinding,
         NEW x \in Survivors(a, b)
  PROVE  BacksRest((RecvOutputs(a, b, ra, rb) \o RemainderOutputs(a, b, rest))[3], a, b, x)
<1> DEFINE recvs == RecvOutputs(a, b, ra, rb)
           rems == RemainderOutputs(a, b, rest)
           out == RemainderOutput(x, CoZkFill(a, b), ExecutionPrice(orders[a], orders[b]), rest)
<1>1. rems = <<out>>
  BY OneSurvivor DEF RemainderOutputs
<1>3. recvs \in Seq(Outputs) /\ Len(recvs) = 2 /\ rems \in Seq(Outputs)
  BY RecvTyped, RemainderTyped
<1> HIDE DEF recvs, rems, out
<1>4. Len(rems) = 1 /\ rems[1] = out
  BY <1>1
<1>5. 3 \in 1..(Len(recvs) + Len(rems)) /\ ~(3 <= Len(recvs)) /\ 3 - Len(recvs) = 1
  BY <1>3, <1>4
<1>6. (recvs \o rems)[3] = out
  <2>1. \A i \in 1..(Len(recvs) + Len(rems)) :
          (recvs \o rems)[i] = IF i <= Len(recvs) THEN recvs[i] ELSE rems[i - Len(recvs)]
    BY <1>3, ConcatProperties, Zenon
  <2>2. (recvs \o rems)[3] = IF 3 <= Len(recvs) THEN recvs[3] ELSE rems[3 - Len(recvs)]
    BY <1>5, <2>1, Zenon
  <2>3. QED
    BY <1>4, <1>5, <2>2
<1>7. BacksRest(out, a, b, x)
  BY DEF BacksRest, RemainderOutput, Output, Cash, out
<1>8. QED
  BY <1>6, <1>7 DEF recvs, rems

\* A relisted remainder is backed by the cash minted for it, every other live order as before.
LEMMA RelistedBacked ==
  ASSUME NEW os, NEW u, NEW x \in DOMAIN os, NEW fill, NEW in \in CashId, TypedOrders(os),
         os[x].qty - fill \in Nat \ {0},
         \A o \in LiveIn(os) \ {x} : \A c \in os[o].inputs : BackedBy(u, c, o, os[o]),
         BackedBy(u, in, x, os[x])
  PROVE  /\ AllBacked(u, Relisted(os, x, fill, in))
         /\ Relisted(os, x, fill, in)[x].status = "Pending"
<1> DEFINE new == Relisted(os, x, fill, in)
<1>1. /\ DOMAIN new = DOMAIN os
      /\ new[x] = Remainder(os[x], fill, in)
      /\ \A o \in DOMAIN os \ {x} : new[o] = os[o]
  BY DEF Relisted
<1>2. os[x] \in Order
  BY DEF TypedOrders
<1>3. /\ new[x].inputs = {in} /\ new[x].owner = os[x].owner /\ new[x].side = os[x].side
      /\ new[x].pair = os[x].pair /\ new[x].status = "Pending"
  BY <1>1, <1>2 DEF Remainder, Order
<1> HIDE DEF new
<1>4. \A o \in LiveIn(new) \ {x} : o \in LiveIn(os) /\ new[o] = os[o]
  BY <1>1 DEF LiveIn
<1>5. \A c \in new[x].inputs : BackedBy(u, c, x, new[x])
  BY <1>3 DEF BackedBy, LockToken
<1>6. AllBacked(u, new)
  BY <1>4, <1>5 DEF AllBacked
<1>7. QED
  BY <1>3, <1>6 DEF new

\* The joint settlement: what is relisted is backed by the remainder, the rest untouched.
LEMMA CoZkBacked ==
  ASSUME NEW a \in DOMAIN orders, NEW b \in DOMAIN orders, TypeOK, AllBacked(cash, orders),
         SettleOrdersCoZk(a, b)
  PROVE  AllBacked(cash', orders')
<1> DEFINE outs(ra, rb, rest) == RecvOutputs(a, b, ra, rb) \o RemainderOutputs(a, b, rest)
           closed == Closed(orders, Filled(a, b))
           fill == CoZkFill(a, b)
<1>1. PICK ra \in Blinding, rb \in Blinding, rest \in Blinding :
        /\ Mintable(PairSpent(a, b), outs(ra, rb, rest))
        /\ cash' = Mint(PairSpent(a, b), outs(ra, rb, rest))
        /\ \/ Survivors(a, b) = {} /\ orders' = closed
           \/ \E x \in Survivors(a, b) :
                orders' \in MatchOrder(Relisted(closed, x, fill, outs(ra, rb, rest)[3].id), x)
  BY Zenon DEF SettleOrdersCoZk, Relistings
<1>2. PICK s : s = outs(ra, rb, rest)
  OBVIOUS
<1>3. a \in LiveIn(orders) /\ b \in LiveIn(orders)
  <2>1. MutuallyMatched(a, b, "Matched")
    BY Zenon DEF SettleOrdersCoZk, CoZkVerified, CoZkPair
  <2>2. QED
    BY <2>1 DEF MutuallyMatched, LiveIn
<1>4. LocksKept(cash, cash', LiveIn(orders) \ {a, b})
  BY <1>1, <1>3, SpendPair, MintKeepsLocks DEF Mint
<1>5. /\ TypedOrders(closed) /\ DOMAIN closed = DOMAIN orders
      /\ \A o \in DOMAIN orders \ Filled(a, b) : closed[o] = orders[o]
      /\ LiveIn(closed) = LiveIn(orders) \ Filled(a, b)
      /\ Filled(a, b) \subseteq {a, b}
  BY ClosedLive, ClosedTyped, TypeOKParts DEF Filled
<1> HIDE DEF closed
<1>6. ASSUME NEW o \in LiveIn(closed) \ {a, b}
      PROVE  \A c \in closed[o].inputs : BackedBy(cash', c, o, closed[o])
  <2>1. o \in LiveIn(orders) \ {a, b} /\ closed[o] = orders[o]
    BY <1>5 DEF LiveIn
  <2>2. QED
    BY <1>4, <2>1 DEF AllBacked, BackedBy, LocksKept
<1>7. CASE Survivors(a, b) = {} /\ orders' = closed
  <2>1. LiveIn(closed) \subseteq LiveIn(closed) \ {a, b}
    BY <1>5, <1>7 DEF Survivors
  <2>2. QED
    BY <1>6, <1>7, <2>1 DEF AllBacked
<1>8. ASSUME NEW x \in Survivors(a, b), orders' \in MatchOrder(Relisted(closed, x, fill, s[3].id), x)
      PROVE  AllBacked(cash', orders')
  <2>1. /\ x \in {a, b} /\ x \in DOMAIN orders /\ closed[x] = orders[x]
        /\ LiveIn(closed) \ {x} \subseteq LiveIn(closed) \ {a, b}
    BY <1>5, OneSurvivor, TypeOKParts
  <2>2. closed[x].qty - fill \in Nat \ {0}
    BY <2>1, FillBounds, TypeOKParts
  <2>3. s \in Seq(Outputs) /\ Len(s) = 3
    <3>1. s \in Seq(Outputs) /\ (Survivors(a, b) # {} => Len(s) = 3)
      BY <1>2, CoZkOutputsTyped, TypeOKParts
    <3>2. QED
      BY <1>8, <3>1
  <2>4. s[3] \in Outputs /\ Len(s) \in Nat /\ 3 \in 1..Len(s)
    <3>1. Len(s) \in Nat /\ 3 \in 1..Len(s)
      BY <2>3
    <3>2. QED
      BY <2>3, <3>1, ElementOfSeq
  <2>5. s[3].id \in CashId
    BY <2>4 DEF Outputs
  <2>6. /\ s[3].row = LockedRow(x)
        /\ s[3].id.owner = closed[x].owner /\ s[3].id.token = LockToken(closed[x])
    <3>1. /\ s[3].row = LockedRow(x)
          /\ s[3].id.owner = orders[x].owner /\ s[3].id.token = LockToken(orders[x])
      <4>1. BacksRest(outs(ra, rb, rest)[3], a, b, x)
        BY ThirdOutput, TypeOKParts
      <4>2. QED
        BY <1>2, <4>1 DEF BacksRest
    <3>2. QED
      BY <2>1, <3>1
  <2>7. s[3].id \in DOMAIN cash' /\ cash'[s[3].id] = s[3].row
    <3>1. Mintable(PairSpent(a, b), s) /\ cash' = Mint(PairSpent(a, b), s)
      BY <1>1, <1>2
    <3>2. QED
      BY <2>4, <3>1, MintedRow
  <2>8. BackedBy(cash', s[3].id, x, closed[x])
    BY <2>6, <2>7 DEF BackedBy
  <2>9. /\ AllBacked(cash', Relisted(closed, x, fill, s[3].id))
        /\ Relisted(closed, x, fill, s[3].id)[x].status = "Pending"
    <3>1. \A o \in LiveIn(closed) \ {x} : \A c \in closed[o].inputs : BackedBy(cash', c, o, closed[o])
      BY <1>6, <2>1
    <3>2. x \in DOMAIN closed /\ TypedOrders(closed)
      BY <1>5, <2>1
    <3> HIDE DEF fill
    <3>3. QED
      BY <2>2, <2>5, <2>8, <3>1, <3>2, RelistedBacked
  <2>10. /\ TypedOrders(Relisted(closed, x, fill, s[3].id))
         /\ x \in DOMAIN Relisted(closed, x, fill, s[3].id)
    BY <1>5, <2>1, <2>2, <2>5, RelistedTyped
  <2>11. QED
    BY <1>8, <2>9, <2>10, MatchKeepsBacked
<1>9. QED
  BY <1>1, <1>2, <1>7, <1>8

\* Nor does the joint settlement stop between its writes.
LEMMA CoZkNeverFails ==
  ASSUME NEW a \in DOMAIN orders, NEW b \in DOMAIN orders, FreshOutputs, TypeOK
  PROVE  ~SettleOrdersCoZkFails(a, b)
<1> SUFFICES ASSUME SettleOrdersCoZkFails(a, b) PROVE FALSE
  OBVIOUS
<1> DEFINE outs(ra, rb, rest) == RecvOutputs(a, b, ra, rb) \o RemainderOutputs(a, b, rest)
<1>1. PICK ra \in Blinding, rb \in Blinding, rest \in Blinding :
        /\ WalletMayName(outs(ra, rb, rest))
        /\ MintFails(PairSpent(a, b), outs(ra, rb, rest), cash')
  BY Zenon DEF SettleOrdersCoZkFails, CoZkAccepted
<1>2. PICK s : s = outs(ra, rb, rest)
  OBVIOUS
<1>3. Len(s) \in Nat
  BY <1>2, CoZkOutputsTyped, TypeOKParts, LenProperties
<1>4. DOMAIN PairSpent(a, b) = DOMAIN cash
  BY DEF PairSpent, SpendCash
<1>5. WalletMayName(s) /\ MintFails(PairSpent(a, b), s, cash')
  BY <1>1, <1>2
<1>6. QED
  BY <1>3, <1>4, <1>5, FreshNeverFails, Zenon

-----------------------------------------------------------------------------
\* There is no order at first.
LEMMA InitBacked == Init => AllBacked(cash, orders)
  BY DEF Init, AllBacked, LiveIn

\* Every step of the system keeps every live order backed.
LEMMA NextBacked ==
  ASSUME FreshOutputs, TypeOK, AllBacked(cash, orders), [Next]_vars
  PROVE  AllBacked(cash, orders)'
<1>1. CASE NextBlock
  BY <1>1 DEF NextBlock, ledger, book
<1>2. CASE LedgerStep
  <2>1. orders' = orders /\ LocksKept(cash, cash', LiveIn(orders))
    BY <1>2, LedgerKeepsLocks DEF LedgerStep, book
  <2>2. QED
    BY <2>1 DEF AllBacked, BackedBy, LocksKept
<1>3. CASE PlaceOrder
  BY <1>3, SendOrderBacked, SplitBacked DEF PlaceOrder
<1>4. CASE \E o \in DOMAIN orders : RegisterSettleAddr(o)
  BY <1>4 DEF RegisterSettleAddr, ledger
<1>5. CASE LegacySettle
  <2>1. PICK a \in DOMAIN orders, b \in DOMAIN orders :
          \/ CompareOrders(a, b)
          \/ \E leg \in WalletLegs(a, b) : \/ SettleOrdersStore(a, b, leg)
                                         \/ SettleOrders(a, b, leg)
                                         \/ SettleOrdersFails(a, b, leg)
    BY <1>5, Zenon DEF LegacySettle
  <2>2. ASSUME NEW leg \in WalletLegs(a, b), SettleOrdersStore(a, b, leg)
        PROVE  AllBacked(cash, orders)'
    BY <2>2 DEF SettleOrdersStore, ledger
  <2>3. QED
    BY <2>1, <2>2, CompareBacked, SettleBacked, SettleNeverFails
<1>6. CASE JointSettle
  BY <1>6, CoZkBacked, CoZkNeverFails DEF JointSettle
<1>7. CASE UNCHANGED vars
  BY <1>7 DEF vars
<1>8. QED
  BY <1>1, <1>2, <1>3, <1>4, <1>5, <1>6, <1>7 DEF Next

\* With wallets that draw new blindings, every live order is backed by cash of its owner, in
\* the token it pays with, locked for that order alone, however often the order was filled in
\* part, relisted on a remainder and matched again.
THEOREM CollateralIsLocked ==
  ASSUME FreshOutputs
  PROVE  Spec => []CollateralLocked
<1>1. Init => TypeOK /\ AllBacked(cash, orders)
  BY InitTyped, InitBacked
<1>2. TypeOK /\ AllBacked(cash, orders) /\ [Next]_vars => (TypeOK /\ AllBacked(cash, orders))'
  BY NextTyped, NextBacked
<1>3. AllBacked(cash, orders) => CollateralLocked
  BY CollateralIsBacked
<1>4. QED
  BY <1>1, <1>2, <1>3, PTL DEF Spec

-----------------------------------------------------------------------------
(***************************************************************************)
(* Pairs.                                                                  *)
(***************************************************************************)
\* The paired orders of the table os.
PairedIn(os) == {o \in DOMAIN os : os[o].status \in {"Matched", "Settling"}}

\* The orders o and p of the table os are what MatchSymmetric asks of a pair.
PairOf(os, o, p) ==
  /\ p \in DOMAIN os /\ os[p].status = os[o].status /\ os[p].match = o
  /\ os[p].side # os[o].side /\ os[p].pair = os[o].pair
  /\ Compatible(os[o], os[p])
  /\ os[o].status = "Settling" => os[o].smaller # os[p].smaller

Symmetric(os) == \A o \in PairedIn(os) : PairOf(os, o, os[o].match)

\* Two orders on opposite sides are compatible both ways or not at all.
LEMMA CompatibleBothWays ==
  ASSUME NEW x \in Order, NEW y \in Order, x.side # y.side, Compatible(x, y)
  PROVE  Compatible(y, x)
<1>1. x.price \in Nat /\ y.price \in Nat /\ x.side \in Side /\ y.side \in Side
  BY OrderFields
<1>2. QED
  BY <1>1 DEF Compatible, Side

\* Outside a pair that no longer names anybody, every other pair is as it was.
LEMMA PairLeaves ==
  ASSUME NEW os, NEW a \in PairedIn(os), NEW b \in DOMAIN os, Symmetric(os),
         os[a].match = b, NEW new, DOMAIN new = DOMAIN os,
         \A o \in DOMAIN os \ {a, b} : new[o] = os[o],
         a \notin PairedIn(new), b \notin PairedIn(new)
  PROVE  Symmetric(new)
<1>1. os[b].match = a
  BY DEF Symmetric, PairOf
<1>2. SUFFICES ASSUME NEW o \in PairedIn(new) PROVE PairOf(new, o, new[o].match)
  BY DEF Symmetric
<1>3. o \in PairedIn(os) \ {a, b} /\ new[o] = os[o]
  BY <1>2 DEF PairedIn
<1>4. PairOf(os, o, os[o].match)
  BY <1>3 DEF Symmetric
<1>5. os[o].match \in DOMAIN os \ {a, b}
  BY <1>1, <1>3, <1>4 DEF PairOf
<1>6. QED
  BY <1>3, <1>4, <1>5 DEF PairOf

\* Linking two compatible Pending orders makes a pair and leaves the others alone.
LEMMA LinkedSymmetric ==
  ASSUME NEW os, NEW a \in DOMAIN os, NEW b \in DOMAIN os, TypedOrders(os), Symmetric(os),
         a # b, os[a].status = "Pending", os[b].status = "Pending",
         os[a].side # os[b].side, os[a].pair = os[b].pair, Compatible(os[a], os[b]),
         NEW new, new = Linked(os, a, b)
  PROVE  Symmetric(new)
<1>1. /\ DOMAIN new = DOMAIN os
      /\ \A o \in DOMAIN os : SameTerms(os[o], new[o])
      /\ \A o \in DOMAIN os \ {a, b} : new[o] = os[o]
      /\ new[a].status = "Matched" /\ new[a].match = b
      /\ new[b].status = "Matched" /\ new[b].match = a
  BY LinkKeepsTerms
<1>2. Compatible(os[b], os[a])
  BY CompatibleBothWays DEF TypedOrders
<1>3. PairOf(new, a, b) /\ PairOf(new, b, a)
  BY <1>1, <1>2 DEF PairOf, SameTerms, Compatible
<1>4. ASSUME NEW o \in PairedIn(new) \ {a, b}
      PROVE  PairOf(new, o, new[o].match)
  <2>1. o \in PairedIn(os) /\ new[o] = os[o]
    BY <1>1 DEF PairedIn
  <2>2. PairOf(os, o, os[o].match)
    BY <2>1 DEF Symmetric
  <2>3. os[o].match \in DOMAIN os \ {a, b}
    BY <2>1, <2>2 DEF PairOf, PairedIn
  <2>4. QED
    BY <1>1, <2>1, <2>2, <2>3 DEF PairOf
<1>5. QED
  BY <1>1, <1>3, <1>4 DEF Symmetric

\* A match, or none, keeps the pairs.
LEMMA MatchOrderSymmetric ==
  ASSUME NEW os, NEW id \in DOMAIN os, NEW new \in MatchOrder(os, id), TypedOrders(os),
         os[id].status = "Pending", Symmetric(os)
  PROVE  Symmetric(new)
<1>1. ASSUME NEW d \in CompatibleOrders(os, os[id]), new = Linked(os, id, d)
      PROVE  Symmetric(new)
  <2>1. /\ d \in DOMAIN os /\ d # id /\ os[d].status = "Pending"
        /\ os[d].side # os[id].side /\ os[d].pair = os[id].pair
        /\ Compatible(os[id], os[d])
    BY CandidatesRest
  <2>2. QED
    BY <1>1, <2>1, LinkedSymmetric
<1>2. QED
  BY <1>1, MatchOrderShape

\* Inserting and matching an order keeps the pairs.
LEMMA InsertedSymmetric ==
  ASSUME NEW ins \in OrderId, NEW ord \in Order, TypedOrders(orders), Symmetric(orders),
         Inserted(ins, ord), ord.status = "Pending"
  PROVE  Symmetric(orders')
<1> DEFINE os == Put(orders, ins, ord)
<1>1. /\ TypedOrders(os) /\ ins \in DOMAIN os /\ os[ins] = ord
      /\ \A o \in DOMAIN orders : o # ins /\ os[o] = orders[o]
      /\ DOMAIN os = DOMAIN orders \cup {ins}
  BY PutOrder DEF Inserted, Put
<1>2. orders' \in MatchOrder(os, ins)
  BY DEF Inserted
<1> HIDE DEF os
<1>3. Symmetric(os)
  <2>1. PairedIn(os) = PairedIn(orders)
    BY <1>1 DEF PairedIn
  <2>2. \A o \in PairedIn(orders) : o \in DOMAIN orders /\ PairOf(orders, o, orders[o].match)
    BY DEF Symmetric, PairedIn
  <2>3. \A o \in PairedIn(orders) : PairOf(os, o, os[o].match)
    BY <1>1, <2>2 DEF PairOf
  <2>4. QED
    BY <2>1, <2>3 DEF Symmetric
<1>4. QED
  BY <1>1, <1>2, <1>3, MatchOrderSymmetric

\* CompareOrders moves both orders of a pair to Settling, one of them the smaller.
LEMMA CompareSymmetric ==
  ASSUME NEW a, NEW b, TypeOK, Symmetric(orders), CompareOrders(a, b)
  PROVE  Symmetric(orders')
<1>1. /\ a \in DOMAIN orders /\ b \in DOMAIN orders
      /\ orders[a].status = "Matched" /\ orders[b].status = "Matched"
      /\ orders[a].match = b /\ orders[b].match = a
  BY DEF CompareOrders, MutuallyMatched
<1>2. /\ PairOf(orders, a, b) /\ PairOf(orders, b, a)
      /\ orders[a] \in Order /\ orders[b] \in Order /\ a # b
  BY <1>1, TypeOKParts DEF Symmetric, PairedIn, PairOf, TypedOrders
<1>3. ASSUME NEW cmp, orders' = Compared(orders, a, b, cmp)
      PROVE  Symmetric(orders')
  <2>1. /\ DOMAIN orders' = DOMAIN orders
        /\ \A o \in DOMAIN orders \ {a, b} : orders'[o] = orders[o]
    BY <1>3 DEF Compared
  <2>2. /\ \A o \in {a, b} : /\ SameTerms(orders[o], orders'[o])
                             /\ orders'[o].status = "Settling"
                             /\ orders'[o].match = orders[o].match
        /\ orders'[a].smaller = IsSmaller(orders[a].side, cmp)
        /\ orders'[b].smaller = IsSmaller(orders[b].side, cmp)
    BY <1>1, <1>2, <1>3 DEF Compared, Order, SameTerms
  <2>3. IsSmaller(orders[a].side, cmp) # IsSmaller(orders[b].side, cmp)
    BY <1>2, OrderFields DEF IsSmaller, PairOf, Side
  <2>4. PairOf(orders', a, b) /\ PairOf(orders', b, a)
    BY <1>1, <1>2, <2>1, <2>2, <2>3 DEF PairOf, SameTerms, Compatible
  <2>5. ASSUME NEW o \in PairedIn(orders') \ {a, b}
        PROVE  PairOf(orders', o, orders'[o].match)
    <3>1. o \in PairedIn(orders) /\ orders'[o] = orders[o]
      BY <2>1 DEF PairedIn
    <3>2. PairOf(orders, o, orders[o].match)
      BY <3>1 DEF Symmetric
    <3>3. orders[o].match \in DOMAIN orders \ {a, b}
      BY <1>1, <3>2 DEF PairOf
    <3>4. QED
      BY <2>1, <3>1, <3>2, <3>3 DEF PairOf
  <2>6. QED
    BY <1>1, <2>2, <2>4, <2>5 DEF Symmetric
<1>4. QED
  BY <1>3 DEF CompareOrders

\* SettleOrders takes both orders of a pair off the book.
LEMMA SettleSymmetric ==
  ASSUME NEW a, NEW b, NEW leg, TypeOK, Symmetric(orders), SettleOrders(a, b, leg)
  PROVE  Symmetric(orders')
<1>1. orders' = Closed(orders, {a, b}) /\ SettleRequest(a, b, leg)
  BY Zenon DEF SettleOrders, SettleVerified
<1>2. a \in PairedIn(orders) /\ b \in DOMAIN orders /\ orders[a].match = b
  BY <1>1 DEF SettleRequest, MutuallyMatched, PairedIn
<1>3. /\ DOMAIN orders' = DOMAIN orders
      /\ \A o \in DOMAIN orders \ {a, b} : orders'[o] = orders[o]
      /\ a \notin PairedIn(orders') /\ b \notin PairedIn(orders')
  BY <1>1, <1>2, ClosedLive, TypeOKParts DEF PairedIn
<1>4. QED
  BY <1>2, <1>3, PairLeaves

\* The joint settlement dissolves a pair before the survivor is matched again.
LEMMA CoZkSymmetric ==
  ASSUME NEW a \in DOMAIN orders, NEW b \in DOMAIN orders, TypeOK, Symmetric(orders),
         SettleOrdersCoZk(a, b)
  PROVE  Symmetric(orders')
<1> DEFINE outs(ra, rb, rest) == RecvOutputs(a, b, ra, rb) \o RemainderOutputs(a, b, rest)
           closed == Closed(orders, Filled(a, b))
           fill == CoZkFill(a, b)
<1>1. PICK ra \in Blinding, rb \in Blinding, rest \in Blinding :
        \/ Survivors(a, b) = {} /\ orders' = closed
        \/ \E x \in Survivors(a, b) :
             orders' \in MatchOrder(Relisted(closed, x, fill, outs(ra, rb, rest)[3].id), x)
  BY Zenon DEF SettleOrdersCoZk, Relistings
<1>2. PICK s : s = outs(ra, rb, rest)
  OBVIOUS
<1>3. a \in PairedIn(orders) /\ orders[a].match = b
  <2>1. MutuallyMatched(a, b, "Matched")
    BY Zenon DEF SettleOrdersCoZk, CoZkVerified, CoZkPair
  <2>2. QED
    BY <2>1 DEF MutuallyMatched, PairedIn
<1>4. /\ TypedOrders(closed) /\ DOMAIN closed = DOMAIN orders
      /\ \A o \in DOMAIN orders \ Filled(a, b) : closed[o] = orders[o]
      /\ \A o \in Filled(a, b) : o \in {a, b} /\ closed[o].status = "Done"
  BY ClosedLive, ClosedTyped, TypeOKParts DEF Filled
<1> HIDE DEF closed, fill
<1>5. CASE Survivors(a, b) = {} /\ orders' = closed
  <2>1. {a, b} \subseteq Filled(a, b)
    BY <1>5 DEF Survivors
  <2>2. /\ DOMAIN closed = DOMAIN orders
        /\ \A o \in DOMAIN orders \ {a, b} : closed[o] = orders[o]
        /\ a \notin PairedIn(closed) /\ b \notin PairedIn(closed)
    BY <1>4, <2>1 DEF PairedIn
  <2>3. Symmetric(closed)
    BY <1>3, <2>2, PairLeaves
  <2>4. QED
    BY <1>5, <2>3
<1>6. ASSUME NEW x \in Survivors(a, b), orders' \in MatchOrder(Relisted(closed, x, fill, s[3].id), x)
      PROVE  Symmetric(orders')
  <2>1. /\ x \in {a, b} /\ x \in DOMAIN orders /\ x \notin Filled(a, b)
        /\ {a, b} \subseteq Filled(a, b) \cup {x}
    BY OneSurvivor, TypeOKParts
  <2>2. closed[x] = orders[x] /\ closed[x] \in Order
    BY <1>4, <2>1 DEF TypedOrders
  <2>3. closed[x].qty - fill \in Nat \ {0}
    BY <2>1, <2>2, FillBounds, TypeOKParts DEF fill
  <2>4. s[3].id \in CashId
    <3>1. s \in Seq(Outputs) /\ (Survivors(a, b) # {} => Len(s) = 3)
      BY <1>2, CoZkOutputsTyped, TypeOKParts
    <3>2. Len(s) \in Nat /\ 3 \in 1..Len(s)
      BY <1>6, <3>1
    <3>3. s[3] \in Outputs
      BY <3>1, <3>2, ElementOfSeq
    <3>4. QED
      BY <3>3 DEF Outputs
  <2>5. PICK os : os = Relisted(closed, x, fill, s[3].id)
    OBVIOUS
  <2>6. TypedOrders(os) /\ DOMAIN os = DOMAIN orders
    BY <1>4, <2>1, <2>3, <2>4, <2>5, RelistedTyped
  <2>7. /\ os[x].status = "Pending"
        /\ \A o \in DOMAIN orders \ {x} : os[o] = closed[o]
    BY <1>4, <2>1, <2>2, <2>5 DEF Relisted, Remainder, Order
  <2>8. /\ \A o \in DOMAIN orders \ {a, b} : os[o] = orders[o]
        /\ a \notin PairedIn(os) /\ b \notin PairedIn(os)
    BY <1>4, <2>1, <2>7 DEF PairedIn
  <2>9. Symmetric(os)
    BY <1>3, <2>6, <2>8, PairLeaves
  <2>10. QED
    BY <1>6, <2>1, <2>5, <2>6, <2>7, <2>9, MatchOrderSymmetric
<1>7. QED
  BY <1>1, <1>2, <1>5, <1>6

-----------------------------------------------------------------------------
\* Every step of the system keeps the pairs.
LEMMA NextSymmetric ==
  ASSUME FreshOutputs, TypeOK, Symmetric(orders), [Next]_vars
  PROVE  Symmetric(orders)'
<1>1. CASE orders' = orders
  BY <1>1 DEF Symmetric, PairOf, PairedIn
<1>2. CASE PlaceOrder
  <2>1. PICK ins \in RequestInputs, pair \in Pair, side \in Side, price \in Price,
             fee \in Fee, qty \in Quantity :
          \/ SendOrder(OwnerOf(ins), pair, side, price, fee, qty, ins)
          \/ SendOrderSplit(OwnerOf(ins), pair, side, price, fee, qty, ins)
    BY <1>2, Zenon DEF PlaceOrder
  <2>2. ASSUME NEW in \in OrderId, ins \in OrderId, OwnerOf(ins) \in Trader,
               Inserted(ins, NewOrder(OwnerOf(ins), pair, side, price, fee, qty, in))
        PROVE  Symmetric(orders')
    <3>1. PICK ord : ord = NewOrder(OwnerOf(ins), pair, side, price, fee, qty, in)
      OBVIOUS
    <3>2. ord \in Order /\ ord.status = "Pending"
      BY <2>2, <3>1, NewOrderTyped, TypeOKParts DEF NewOrder
    <3>3. QED
      BY <2>2, <3>1, <3>2, InsertedSymmetric, TypeOKParts
  <2>3. CASE SendOrder(OwnerOf(ins), pair, side, price, fee, qty, ins)
    <3>1. ins \in OrderId /\ OwnerOf(ins) \in Trader
      BY <2>3, InputsAreOrderId, TypeOKParts DEF SendOrder
    <3>2. QED
      BY <2>2, <2>3, <3>1 DEF SendOrder
  <2>4. CASE SendOrderSplit(OwnerOf(ins), pair, side, price, fee, qty, ins)
    <3>1. /\ ins \in OrderId /\ OwnerOf(ins) \in Trader
          /\ (IF side = "Buy" THEN pair[2] ELSE pair[1]) \in Token
      BY <2>4, InputsAreOrderId, TypeOKParts DEF SendOrderSplit
    <3>2. /\ Pays(side, qty, price) \in Nat \ {0}
          /\ Sum(ins) - Pays(side, qty, price) \in Nat \ {0}
      BY <2>4, Trades, NumbersAssumption DEF SendOrderSplit
    <3> DEFINE in(rl, rc) ==
                 SplitOutputs(OwnerOf(ins), IF side = "Buy" THEN pair[2] ELSE pair[1], ins,
                              Pays(side, qty, price), Sum(ins) - Pays(side, qty, price),
                              rl, rc)[1].id
    <3>3. \/ orders' = orders
          \/ \E rl, rc \in Blinding :
               Inserted(ins, NewOrder(OwnerOf(ins), pair, side, price, fee, qty, {in(rl, rc)}))
      <4>1. UNCHANGED <<issued, height, book>> => orders' = orders
        BY DEF book
      <4>2. QED
        BY <2>4, <4>1, Zenon DEF SendOrderSplit
    <3>4. \A rl, rc \in Blinding : {in(rl, rc)} \in OrderId
      BY <3>1, <3>2, SplitOutputsTyped
    <3> HIDE DEF in
    <3>5. QED
      BY <1>1, <2>2, <3>1, <3>3, <3>4
  <2>5. QED
    BY <2>1, <2>3, <2>4
<1>3. CASE LegacySettle
  <2>1. PICK a \in DOMAIN orders, b \in DOMAIN orders :
          \/ CompareOrders(a, b)
          \/ \E leg \in WalletLegs(a, b) : \/ SettleOrdersStore(a, b, leg)
                                         \/ SettleOrders(a, b, leg)
                                         \/ SettleOrdersFails(a, b, leg)
    BY <1>3, Zenon DEF LegacySettle
  <2>2. ASSUME NEW leg, SettleOrdersStore(a, b, leg)
        PROVE  orders' = orders
    BY <2>2 DEF SettleOrdersStore
  <2>3. QED
    BY <1>1, <2>1, <2>2, CompareSymmetric, SettleSymmetric, SettleNeverFails
<1>4. CASE JointSettle
  BY <1>4, CoZkSymmetric, CoZkNeverFails DEF JointSettle
<1>5. QED
  <2>1. \/ NextBlock \/ LedgerStep \/ UNCHANGED vars
        \/ \E o \in DOMAIN orders : RegisterSettleAddr(o)
        => orders' = orders
    BY DEF NextBlock, LedgerStep, RegisterSettleAddr, book, vars
  <2>2. QED
    BY <1>1, <1>2, <1>3, <1>4, <2>1 DEF Next

\* The pairing the two settlement protocols rely on: a matched or settling order and its
\* counterparty name each other, are in one phase, could be matched, and the comparison
\* made one of them the smaller.
THEOREM MatchesAreSymmetric ==
  ASSUME FreshOutputs
  PROVE  Spec => []MatchSymmetric
<1>1. Init => TypeOK /\ Symmetric(orders)
  BY InitTyped DEF Init, Symmetric, PairedIn
<1>2. TypeOK /\ Symmetric(orders) /\ [Next]_vars => (TypeOK /\ Symmetric(orders))'
  BY NextTyped, NextSymmetric
<1>3. TypeOK /\ Symmetric(orders) => MatchSymmetric
  BY DEF Symmetric, PairOf, PairedIn, MatchSymmetric, Paired, MutuallyMatched
<1>4. QED
  BY <1>1, <1>2, <1>3, PTL DEF Spec

-----------------------------------------------------------------------------
(***************************************************************************)
(* Order IDs.                                                              *)
(***************************************************************************)
\* Every order ID of os hashes a cash that is not Active, and never will be again.
IdsTaken(t, os) == \A o \in DOMAIN os : \E c \in o : c \in DOMAIN t /\ t[c].status # "Active"

\* What a later table keeps is enough.
LEMMA TakenForGood ==
  ASSUME NEW t, NEW u, NEW os, IdsTaken(t, os), Keeps(t, u)
  PROVE  IdsTaken(u, os)
  BY DEF IdsTaken, Keeps

\* An order inserted over cash of which one is no longer Active takes its ID too.
LEMMA InsertedTaken ==
  ASSUME NEW ins \in OrderId, NEW ord \in Order, TypedOrders(orders), Inserted(ins, ord),
         IdsTaken(cash', orders),
         \E c \in ins : c \in DOMAIN cash' /\ cash'[c].status # "Active"
  PROVE  IdsTaken(cash', orders')
<1> DEFINE os == Put(orders, ins, ord)
<1>1. TypedOrders(os) /\ ins \in DOMAIN os /\ DOMAIN os = DOMAIN orders \cup {ins}
  BY PutOrder DEF Put
<1>2. orders' \in MatchOrder(os, ins)
  BY DEF Inserted
<1> HIDE DEF os
<1>3. DOMAIN orders' = DOMAIN os
  BY <1>1, <1>2, MatchOrderTyped
<1>4. QED
  BY <1>1, <1>3 DEF IdsTaken

\* A joint settlement adds no order.
LEMMA CoZkSameOrders ==
  ASSUME NEW a \in DOMAIN orders, NEW b \in DOMAIN orders, TypeOK,
         SettleOrdersCoZk(a, b) \/ SettleOrdersCoZkFails(a, b)
  PROVE  DOMAIN orders' = DOMAIN orders
<1> DEFINE closed == Closed(orders, Filled(a, b))
           fill == CoZkFill(a, b)
<1>1. TypedOrders(closed) /\ DOMAIN closed = DOMAIN orders
  BY ClosedTyped, TypeOKParts
<1>2. CASE SettleOrdersCoZkFails(a, b)
  <2>1. orders' = closed
    BY <1>2, Zenon DEF SettleOrdersCoZkFails
  <2>2. QED
    BY <1>1, <2>1
<1>3. CASE SettleOrdersCoZk(a, b)
  <2> DEFINE outs(ra, rb, rest) == RecvOutputs(a, b, ra, rb) \o RemainderOutputs(a, b, rest)
  <2>1. PICK ra \in Blinding, rb \in Blinding, rest \in Blinding :
          \/ orders' = closed
          \/ \E x \in Survivors(a, b) :
               orders' \in MatchOrder(Relisted(closed, x, fill, outs(ra, rb, rest)[3].id), x)
    BY <1>3, Zenon DEF SettleOrdersCoZk, Relistings
  <2>2. PICK in : in = outs(ra, rb, rest)[3].id
    OBVIOUS
  <2>3. \/ orders' = closed
        \/ \E x \in Survivors(a, b) : orders' \in MatchOrder(Relisted(closed, x, fill, in), x)
    BY <2>1, <2>2
  <2> HIDE DEF closed, fill, outs
  <2>4. ASSUME NEW x \in Survivors(a, b), orders' \in MatchOrder(Relisted(closed, x, fill, in), x)
        PROVE  DOMAIN orders' = DOMAIN closed
    <3>1. PICK os : os = Relisted(closed, x, fill, in)
      OBVIOUS
    <3>2. DOMAIN os = DOMAIN closed
      BY <3>1 DEF Relisted
    <3>3. \A c : DOMAIN Linked(os, x, c) = DOMAIN os
      BY DEF Linked
    <3>4. orders' = os \/ \E c : orders' = Linked(os, x, c)
      BY <2>4, <3>1, MatchOrderShape
    <3>5. QED
      BY <3>2, <3>3, <3>4
  <2>5. QED
    BY <1>1, <2>3, <2>4
<1>4. QED
  BY <1>2, <1>3

\* The steps of the system, as far as the order IDs go: a request takes a new one, and its
\* inputs are locked or spent in the same step; nothing else adds an order.
LEMMA NextTaken ==
  ASSUME TypeOK, IdsTaken(cash, orders), [Next]_vars
  PROVE  IdsTaken(cash, orders)'
<1>1. Keeps(cash, cash')
  BY BookKeeps DEF vars, Keeps
<1>2. IdsTaken(cash', orders)
  BY <1>1, TakenForGood
<1>3. CASE DOMAIN orders' = DOMAIN orders
  BY <1>2, <1>3 DEF IdsTaken
<1>4. CASE PlaceOrder
  <2>1. PICK ins \in RequestInputs, pair \in Pair, side \in Side, price \in Price,
             fee \in Fee, qty \in Quantity :
          \/ SendOrder(OwnerOf(ins), pair, side, price, fee, qty, ins)
          \/ SendOrderSplit(OwnerOf(ins), pair, side, price, fee, qty, ins)
    BY <1>4, Zenon DEF PlaceOrder
  <2> DEFINE new(in) == NewOrder(OwnerOf(ins), pair, side, price, fee, qty, in)
  <2>2. CASE SendOrder(OwnerOf(ins), pair, side, price, fee, qty, ins)
    <3>1. ins \in OrderId /\ OwnerOf(ins) \in Trader /\ ins \subseteq DOMAIN cash
      BY <2>2, InputsAreOrderId, TypeOKParts DEF SendOrder, ValidInputs, ActiveCash
    <3>2. Inserted(ins, new(ins)) /\ cash' = LockCash(cash, ins, ins)
      BY <2>2 DEF SendOrder
    <3>3. new(ins) \in Order
      BY <3>1, NewOrderTyped, TypeOKParts
    <3>4. \A c \in ins : c \in DOMAIN cash' /\ cash'[c].status # "Active"
      BY <3>1, <3>2 DEF LockCash, LockedRow
    <3> HIDE DEF new
    <3>5. \E c \in ins : c \in DOMAIN cash' /\ cash'[c].status # "Active"
      BY <3>1, <3>4 DEF OrderId
    <3>6. QED
      BY <1>2, <3>1, <3>2, <3>3, <3>5, InsertedTaken, TypeOKParts
  <2>3. CASE SendOrderSplit(OwnerOf(ins), pair, side, price, fee, qty, ins)
    <3> DEFINE token == IF side = "Buy" THEN pair[2] ELSE pair[1]
               locked == Pays(side, qty, price)
               change == Sum(ins) - locked
               spent == SpendCash(cash, ins, {ins})
               outs(rl, rc) == SplitOutputs(OwnerOf(ins), token, ins, locked, change, rl, rc)
    <3>1. /\ ins \in OrderId /\ OwnerOf(ins) \in Trader /\ token \in Token
          /\ ins \subseteq DOMAIN cash
      BY <2>3, InputsAreOrderId, TypeOKParts DEF SendOrderSplit, ValidInputs, ActiveCash
    <3>2. locked \in Nat \ {0} /\ change \in Nat \ {0}
      BY <2>3, Trades, NumbersAssumption DEF SendOrderSplit
    <3>3. \/ orders' = orders
          \/ \E rl, rc \in Blinding : /\ cash' = Mint(spent, outs(rl, rc))
                                      /\ Inserted(ins, new({outs(rl, rc)[1].id}))
      <4>1. UNCHANGED <<issued, height, book>> => orders' = orders
        BY DEF book
      <4>2. QED
        BY <2>3, <4>1, Zenon DEF SendOrderSplit
    <3>4. \A rl, rc \in Blinding : {outs(rl, rc)[1].id} \in OrderId
      <4> HIDE DEF token, locked, change
      <4>1. QED
        BY <3>1, <3>2, SplitOutputsTyped
    <3>5. \A c \in ins : c \in DOMAIN spent /\ spent[c].status = "Spent"
      BY <3>1 DEF SpendCash, SpentRow
    <3> HIDE DEF outs, spent, new
    <3>6. ASSUME NEW rl \in Blinding, NEW rc \in Blinding,
                 cash' = Mint(spent, outs(rl, rc)), Inserted(ins, new({outs(rl, rc)[1].id}))
          PROVE  IdsTaken(cash', orders')
      <4>1. \A c \in ins : c \in DOMAIN cash' /\ cash'[c].status = "Spent"
        BY <3>5, <3>6, MintKeeps DEF Mint, Keeps
      <4>2. \E c \in ins : c \in DOMAIN cash' /\ cash'[c].status # "Active"
        BY <3>1, <4>1 DEF OrderId
      <4>3. new({outs(rl, rc)[1].id}) \in Order
        BY <3>1, <3>4, NewOrderTyped, TypeOKParts DEF new
      <4>4. QED
        BY <1>2, <3>1, <3>6, <4>2, <4>3, InsertedTaken, TypeOKParts
    <3>7. QED
      BY <1>3, <3>3, <3>6
  <2>4. QED
    BY <2>1, <2>2, <2>3
<1>5. CASE LegacySettle
  <2>1. PICK a \in DOMAIN orders, b \in DOMAIN orders :
          \/ CompareOrders(a, b)
          \/ \E leg \in WalletLegs(a, b) : \/ SettleOrdersStore(a, b, leg)
                                         \/ SettleOrders(a, b, leg)
                                         \/ SettleOrdersFails(a, b, leg)
    BY <1>5, Zenon DEF LegacySettle
  <2>2. CompareOrders(a, b) => DOMAIN orders' = DOMAIN orders
    BY DEF CompareOrders, Compared
  <2>3. \A leg : SettleOrdersStore(a, b, leg) => orders' = orders
    BY DEF SettleOrdersStore
  <2>4. \A leg : SettleOrders(a, b, leg) => DOMAIN orders' = DOMAIN orders
    <3>1. \A leg : SettleOrders(a, b, leg) => orders' = Closed(orders, {a, b})
      BY Zenon DEF SettleOrders
    <3>2. QED
      BY <3>1, ClosedTyped, TypeOKParts
  <2>5. \A leg : SettleOrdersFails(a, b, leg) => orders' = orders
    BY Zenon DEF SettleOrdersFails, book
  <2>6. QED
    BY <1>3, <2>1, <2>2, <2>3, <2>4, <2>5
<1>6. CASE JointSettle
  BY <1>3, <1>6, CoZkSameOrders DEF JointSettle
<1>7. QED
  <2>1. \/ NextBlock \/ LedgerStep \/ UNCHANGED vars
        \/ \E o \in DOMAIN orders : RegisterSettleAddr(o)
        => orders' = orders
    BY DEF NextBlock, LedgerStep, RegisterSettleAddr, book, vars
  <2>2. QED
    BY <1>3, <1>4, <1>5, <1>6, <2>1 DEF Next

\* The primary key never refuses an order: a request the handler accepts lists Active cash,
\* and every order ID of the table hashes a cash that is no longer so.  Wallets may reuse
\* commitments and handlers may stop halfway.
THEOREM OrderIdsStayFresh == Spec => []OrderIdsAreFresh
<1>1. Init => TypeOK /\ IdsTaken(cash, orders)
  BY InitTyped DEF Init, IdsTaken
<1>2. TypeOK /\ IdsTaken(cash, orders) /\ [Next]_vars => (TypeOK /\ IdsTaken(cash, orders))'
  BY NextTyped, NextTaken
<1>3. IdsTaken(cash, orders) => OrderIdsAreFresh
  BY DEF IdsTaken, OrderIdsAreFresh, ActiveCash
<1>4. QED
  BY <1>1, <1>2, <1>3, PTL DEF Spec

-----------------------------------------------------------------------------
(***************************************************************************)
(* What a step leaves of the orders table.                                 *)
(***************************************************************************)
Worthy(o) == BackedExactly(o, o.price)

\* A request was accepted: its order is inserted and matched.
Placed(new) ==
  \E ins \in OrderId, ord \in Order :
    /\ ins \notin DOMAIN orders /\ ord.status = "Pending" /\ Worthy(ord)
    /\ new \in MatchOrder(Put(orders, ins, ord), ins)

\* A pair was compared.
PairCompared(a, b, new) ==
  MutuallyMatched(a, b, "Matched") /\ new = Compared(orders, a, b, MpcShare(a, b).cmp)

\* A pair was settled on two legs.
PairSettled(a, b, new) ==
  MutuallyMatched(a, b, "Settling") /\ new = Closed(orders, {a, b})

\* What a joint settlement of a and b does with the order x that has quantity left.
Rest(a, b, x, in) == Relisted(Closed(orders, Filled(a, b)), x, CoZkFill(a, b), in)
RestWorth(a, b, x, in) ==
  in.amt = Pays(orders[x].side, orders[x].qty - CoZkFill(a, b), orders[x].price)

\* A pair was settled jointly.
JointlySettled(a, b, new) ==
  /\ MutuallyMatched(a, b, "Matched")
  /\ \/ new = Closed(orders, Filled(a, b))
     \/ \E x \in Survivors(a, b), in \in CashId :
          RestWorth(a, b, x, in) /\ new \in MatchOrder(Rest(a, b, x, in), x)

\* The remainder of the order x of a pair at one price is worth what x still asks for.
LEMMA RestIsWorth ==
  ASSUME NEW a \in DOMAIN orders, NEW b \in DOMAIN orders, TypedOrders(orders), Typed(cash),
         orders[a].price = orders[b].price,
         NEW ra \in Blinding, NEW rb \in Blinding, NEW rest \in Blinding,
         NEW x \in Survivors(a, b),
         NEW s, s = RecvOutputs(a, b, ra, rb) \o RemainderOutputs(a, b, rest)
  PROVE  s[3].id \in CashId /\ RestWorth(a, b, x, s[3].id)
<1> DEFINE price == ExecutionPrice(orders[a], orders[b])
           outs(p, q, r) == RecvOutputs(a, b, p, q) \o RemainderOutputs(a, b, r)
<1>1. BacksRest(s[3], a, b, x)
  <2>1. BacksRest(outs(ra, rb, rest)[3], a, b, x)
    BY ThirdOutput
  <2>2. QED
    BY <2>1
<1>2. x \in DOMAIN orders /\ price = orders[x].price
  <2>1. x \in {a, b}
    BY OneSurvivor
  <2>2. price \in {orders[a].price, orders[b].price}
    BY DEF ExecutionPrice, Min2
  <2>3. QED
    BY <2>1, <2>2
<1>3. s[3].id.amt = Pays(orders[x].side, orders[x].qty - CoZkFill(a, b), price)
  BY <1>1 DEF BacksRest
<1> HIDE DEF price, outs
<1>4. s[3].id \in CashId
  <2>1. s \in Seq(Outputs) /\ (Survivors(a, b) # {} => Len(s) = 3)
    BY CoZkOutputsTyped
  <2>2. Len(s) \in Nat /\ 3 \in 1..Len(s)
    BY <2>1
  <2>3. s[3] \in Outputs
    BY <2>1, <2>2, ElementOfSeq
  <2>4. QED
    BY <2>3 DEF Outputs
<1>5. QED
  BY <1>2, <1>3, <1>4 DEF RestWorth

\* A joint settlement, or one that stops before the remainder.
LEMMA JointShape ==
  ASSUME NEW a \in DOMAIN orders, NEW b \in DOMAIN orders, TypeOK,
         SettleOrdersCoZk(a, b) \/ SettleOrdersCoZkFails(a, b)
  PROVE  JointlySettled(a, b, orders')
<1> DEFINE closed == Closed(orders, Filled(a, b))
           fill == CoZkFill(a, b)
<1>1. MutuallyMatched(a, b, "Matched") /\ orders[a].price = orders[b].price
  BY Zenon DEF SettleOrdersCoZk, SettleOrdersCoZkFails, CoZkVerified, CoZkPair
<1>2. CASE SettleOrdersCoZkFails(a, b)
  <2>1. orders' = closed
    BY <1>2, Zenon DEF SettleOrdersCoZkFails
  <2>2. QED
    BY <1>1, <2>1 DEF JointlySettled
<1>3. CASE SettleOrdersCoZk(a, b)
  <2> DEFINE outs(ra, rb, rest) == RecvOutputs(a, b, ra, rb) \o RemainderOutputs(a, b, rest)
  <2>1. PICK ra \in Blinding, rb \in Blinding, rest \in Blinding :
          \/ orders' = closed
          \/ \E x \in Survivors(a, b) :
               orders' \in MatchOrder(Relisted(closed, x, fill, outs(ra, rb, rest)[3].id), x)
    BY <1>3, Zenon DEF SettleOrdersCoZk, Relistings
  <2>2. PICK s : s = outs(ra, rb, rest)
    OBVIOUS
  <2>3. \A x \in Survivors(a, b) : s[3].id \in CashId /\ RestWorth(a, b, x, s[3].id)
    BY <1>1, <2>2, RestIsWorth, TypeOKParts
  <2>4. \/ orders' = closed
        \/ \E x \in Survivors(a, b) : orders' \in MatchOrder(Rest(a, b, x, s[3].id), x)
    BY <2>1, <2>2 DEF Rest
  <2> HIDE DEF outs
  <2>5. QED
    BY <1>1, <2>3, <2>4 DEF JointlySettled
<1>4. QED
  BY <1>2, <1>3

\* An accepted request names collateral worth what its order pays.
LEMMA PlaceShape ==
  ASSUME TypeOK, PlaceOrder
  PROVE  orders' = orders \/ Placed(orders')
<1>1. PICK ins \in RequestInputs, pair \in Pair, side \in Side, price \in Price,
           fee \in Fee, qty \in Quantity :
        \/ SendOrder(OwnerOf(ins), pair, side, price, fee, qty, ins)
        \/ SendOrderSplit(OwnerOf(ins), pair, side, price, fee, qty, ins)
  BY Zenon DEF PlaceOrder
<1> DEFINE new(in) == NewOrder(OwnerOf(ins), pair, side, price, fee, qty, in)
<1>2. \A in : new(in).status = "Pending" /\ (Sum(in) = Pays(side, qty, price) => Worthy(new(in)))
  BY DEF NewOrder, Worthy, BackedExactly
<1>3. CASE SendOrder(OwnerOf(ins), pair, side, price, fee, qty, ins)
  <2>1. ins \in OrderId /\ OwnerOf(ins) \in Trader
    BY <1>3, InputsAreOrderId, TypeOKParts DEF SendOrder
  <2>2. Inserted(ins, new(ins)) /\ Sum(ins) = Pays(side, qty, price)
    BY <1>3 DEF SendOrder
  <2>3. new(ins) \in Order
    BY <2>1, NewOrderTyped, TypeOKParts
  <2> HIDE DEF new
  <2>4. QED
    BY <1>2, <2>1, <2>2, <2>3 DEF Placed, Inserted
<1>4. CASE SendOrderSplit(OwnerOf(ins), pair, side, price, fee, qty, ins)
  <2> DEFINE token == IF side = "Buy" THEN pair[2] ELSE pair[1]
             locked == Pays(side, qty, price)
             change == Sum(ins) - locked
             outs(rl, rc) == SplitOutputs(OwnerOf(ins), token, ins, locked, change, rl, rc)
  <2>1. ins \in OrderId /\ OwnerOf(ins) \in Trader /\ token \in Token
    BY <1>4, InputsAreOrderId, TypeOKParts DEF SendOrderSplit
  <2>2. locked \in Nat \ {0} /\ change \in Nat \ {0}
    BY <1>4, Trades, NumbersAssumption DEF SendOrderSplit
  <2>3. \/ orders' = orders
        \/ \E rl, rc \in Blinding : Inserted(ins, new({outs(rl, rc)[1].id}))
    <3>1. UNCHANGED <<issued, height, book>> => orders' = orders
      BY DEF book
    <3>2. QED
      BY <1>4, <3>1, Zenon DEF SendOrderSplit
  <2>4. \A rl, rc \in Blinding :
          {outs(rl, rc)[1].id} \in OrderId /\ outs(rl, rc)[1].id.amt = locked
    <3>1. \A rl, rc : outs(rl, rc)[1].id.amt = locked
      BY DEF SplitOutputs, Output, Cash
    <3> HIDE DEF token, locked, change
    <3>2. QED
      BY <2>1, <2>2, <3>1, SplitOutputsTyped
  <2> HIDE DEF outs, new
  <2>5. ASSUME NEW rl \in Blinding, NEW rc \in Blinding, Inserted(ins, new({outs(rl, rc)[1].id}))
        PROVE  Placed(orders')
    <3>1. PICK in : in = outs(rl, rc)[1].id
      OBVIOUS
    <3>2. {in} \in OrderId /\ in.amt = locked
      BY <2>4, <3>1
    <3>3. in \in CashId
      BY <3>2 DEF OrderId
    <3>4. Sum({in}) = Pays(side, qty, price)
      BY <3>2, <3>3, SumOfOne
    <3>5. new({in}) \in Order
      BY <2>1, <3>2, NewOrderTyped, TypeOKParts DEF new
    <3>6. Inserted(ins, new({in}))
      BY <2>5, <3>1
    <3>7. QED
      BY <1>2, <2>1, <3>4, <3>5, <3>6 DEF Placed, Inserted
  <2>6. QED
    BY <2>3, <2>5
<1>5. QED
  BY <1>1, <1>3, <1>4

\* Every step of the system, as far as the orders table goes.
LEMMA StepShape ==
  ASSUME TypeOK, [Next]_vars
  PROVE  \/ orders' = orders
         \/ PlaceOrder /\ Placed(orders')
         \/ \E a, b \in DOMAIN orders :
              \/ CompareOrders(a, b) /\ PairCompared(a, b, orders')
              \/ \E leg \in WalletLegs(a, b) : SettleOrders(a, b, leg) /\ PairSettled(a, b, orders')
              \/ /\ SettleOrdersCoZk(a, b) \/ SettleOrdersCoZkFails(a, b)
                 /\ JointlySettled(a, b, orders')
<1>1. CASE PlaceOrder
  BY <1>1, PlaceShape
<1>2. CASE LegacySettle
  <2>1. PICK a \in DOMAIN orders, b \in DOMAIN orders :
          \/ CompareOrders(a, b)
          \/ \E leg \in WalletLegs(a, b) : \/ SettleOrdersStore(a, b, leg)
                                         \/ SettleOrders(a, b, leg)
                                         \/ SettleOrdersFails(a, b, leg)
    BY <1>2, Zenon DEF LegacySettle
  <2>2. CompareOrders(a, b) => orders' = orders \/ PairCompared(a, b, orders')
    BY DEF CompareOrders, PairCompared
  <2>3. \A leg : SettleOrdersStore(a, b, leg) => orders' = orders
    BY DEF SettleOrdersStore
  <2>4. \A leg : SettleOrders(a, b, leg) => PairSettled(a, b, orders')
    BY Zenon DEF SettleOrders, SettleVerified, SettleRequest, PairSettled
  <2>5. \A leg : SettleOrdersFails(a, b, leg) => orders' = orders
    BY Zenon DEF SettleOrdersFails, book
  <2>6. QED
    BY <2>1, <2>2, <2>3, <2>4, <2>5
<1>3. CASE JointSettle
  <2>1. PICK a \in DOMAIN orders, b \in DOMAIN orders :
          SettleOrdersCoZk(a, b) \/ SettleOrdersCoZkFails(a, b)
    BY <1>3, Zenon DEF JointSettle
  <2>2. QED
    BY <2>1, JointShape
<1>4. QED
  <2>1. \/ NextBlock \/ LedgerStep \/ UNCHANGED vars
        \/ \E o \in DOMAIN orders : RegisterSettleAddr(o)
        => orders' = orders
    BY DEF NextBlock, LedgerStep, RegisterSettleAddr, book, vars
  <2>2. QED
    BY <1>1, <1>2, <1>3, <2>1 DEF Next

-----------------------------------------------------------------------------
(***************************************************************************)
(* The terms of an order, and what its collateral is worth.                *)
(***************************************************************************)
\* What an order may become: the same order with no more quantity, over collateral that is
\* worth what it asks for if it was before.
Evolves(x, y) ==
  /\ y.owner = x.owner /\ y.pair = x.pair /\ y.side = x.side /\ y.price = x.price
  /\ y.height = x.height
  /\ y.qty <= x.qty
  /\ Worthy(x) => Worthy(y)

\* Every order of os is one that an order of new evolved from.
AllEvolve(os, new) == \A o \in DOMAIN os : o \in DOMAIN new /\ Evolves(os[o], new[o])

\* Most updates touch neither terms, quantity nor collateral.
SameDeal(x, y) ==
  /\ y.owner = x.owner /\ y.pair = x.pair /\ y.side = x.side /\ y.price = x.price
  /\ y.height = x.height /\ y.qty = x.qty /\ y.inputs = x.inputs

\* An order evolves into one with the same deal, itself in particular.
LEMMA SameDealEvolves ==
  ASSUME NEW x \in Order, NEW y, SameDeal(x, y)
  PROVE  Evolves(x, y)
<1>1. x.qty \in Nat
  BY DEF Order
<1>2. QED
  BY <1>1 DEF SameDeal, Evolves, Worthy, BackedExactly

\* Status, link and mark are no part of the deal.
LEMMA SameDealUpdates ==
  ASSUME NEW o \in Order
  PROVE  /\ SameDeal(o, o)
         /\ \A st : SameDeal(o, [o EXCEPT !.status = st])
         /\ \A st, m : SameDeal(o, [o EXCEPT !.status = st, !.match = m])
         /\ \A st, sm : SameDeal(o, [o EXCEPT !.status = st, !.smaller = sm])
  BY DEF Order, SameDeal

\* Two evolutions in a row are one.
LEMMA EvolvesInTwo ==
  ASSUME NEW os, NEW mid, NEW new, TypedOrders(os), TypedOrders(mid), TypedOrders(new),
         AllEvolve(os, mid), AllEvolve(mid, new)
  PROVE  AllEvolve(os, new)
<1>1. SUFFICES ASSUME NEW o \in DOMAIN os
               PROVE  o \in DOMAIN new /\ Evolves(os[o], new[o])
  BY DEF AllEvolve
<1>2. /\ o \in DOMAIN mid /\ o \in DOMAIN new
      /\ Evolves(os[o], mid[o]) /\ Evolves(mid[o], new[o])
  BY DEF AllEvolve
<1>3. os[o].qty \in Nat /\ mid[o].qty \in Nat /\ new[o].qty \in Nat
  BY <1>2, OrderFields DEF TypedOrders
<1>4. QED
  BY <1>2, <1>3 DEF Evolves

\* A match keeps every deal.
LEMMA MatchEvolves ==
  ASSUME NEW os, NEW id \in DOMAIN os, NEW new \in MatchOrder(os, id), TypedOrders(os)
  PROVE  AllEvolve(os, new)
<1>1. ASSUME NEW d \in CompatibleOrders(os, os[id]), new = Linked(os, id, d)
      PROVE  AllEvolve(os, new)
  <2>1. d \in DOMAIN os /\ d # id
    BY CandidatesRest
  <2>2. /\ DOMAIN new = DOMAIN os
        /\ new[id] = [os[id] EXCEPT !.status = "Matched", !.match = d]
        /\ new[d] = [os[d] EXCEPT !.status = "Matched", !.match = id]
        /\ \A o \in DOMAIN os \ {id, d} : new[o] = os[o]
    BY <1>1, <2>1 DEF Linked
  <2>3. \A o \in DOMAIN os : SameDeal(os[o], new[o])
    <3>1. os[id] \in Order /\ os[d] \in Order
      BY <2>1 DEF TypedOrders
    <3>2. SameDeal(os[id], new[id]) /\ SameDeal(os[d], new[d])
      BY <2>2, <3>1 DEF SameDeal, Order
    <3>3. \A o \in DOMAIN os \ {id, d} : SameDeal(os[o], new[o])
      BY <2>2 DEF SameDeal
    <3>4. QED
      BY <3>2, <3>3
  <2>4. QED
    BY <2>2, <2>3, SameDealEvolves DEF AllEvolve, TypedOrders
<1>2. CASE new = os
  BY <1>2, SameDealUpdates, SameDealEvolves DEF AllEvolve, TypedOrders
<1>3. QED
  BY <1>1, <1>2, MatchOrderShape

\* So does a comparison.
LEMMA ComparedEvolves ==
  ASSUME NEW a \in DOMAIN orders, NEW b \in DOMAIN orders, NEW cmp, TypedOrders(orders)
  PROVE  AllEvolve(orders, Compared(orders, a, b, cmp))
<1> DEFINE new == Compared(orders, a, b, cmp)
<1>1. DOMAIN new = DOMAIN orders
  BY DEF Compared
<1>2. ASSUME NEW o \in DOMAIN orders
      PROVE  SameDeal(orders[o], new[o])
  <2>1. orders[o] \in Order
    BY DEF TypedOrders
  <2>2. \/ new[o] = orders[o]
        \/ \E sm : new[o] = [orders[o] EXCEPT !.status = "Settling", !.smaller = sm]
    BY DEF Compared
  <2> HIDE DEF new
  <2>3. QED
    BY <2>1, <2>2 DEF SameDeal, Order
<1>3. QED
  BY <1>1, <1>2, SameDealEvolves DEF AllEvolve, TypedOrders

\* So does closing orders.
LEMMA ClosedEvolves ==
  ASSUME NEW os, NEW done, TypedOrders(os)
  PROVE  AllEvolve(os, Closed(os, done))
<1>1. \A o \in DOMAIN os : SameDeal(os[o], Closed(os, done)[o])
  BY SameDealUpdates DEF Closed, TypedOrders
<1>2. DOMAIN Closed(os, done) = DOMAIN os
  BY DEF Closed
<1>3. QED
  BY <1>1, <1>2, SameDealEvolves DEF AllEvolve, TypedOrders

\* The order a fill does not exhaust, once the other is closed.
LEMMA SurvivorOpen ==
  ASSUME NEW a \in DOMAIN orders, NEW b \in DOMAIN orders, TypedOrders(orders),
         NEW x \in Survivors(a, b), NEW in \in CashId
  PROVE  LET closed == Closed(orders, Filled(a, b)) IN
         /\ x \in DOMAIN orders /\ TypedOrders(closed) /\ DOMAIN closed = DOMAIN orders
         /\ closed[x] = orders[x] /\ closed[x].qty - CoZkFill(a, b) \in Nat \ {0}
         /\ TypedOrders(Rest(a, b, x, in)) /\ DOMAIN Rest(a, b, x, in) = DOMAIN orders
<1> DEFINE closed == Closed(orders, Filled(a, b))
<1>1. x \in {a, b} /\ x \notin Filled(a, b)
  BY OneSurvivor
<1>2. x \in DOMAIN orders /\ orders[x].qty - CoZkFill(a, b) \in Nat \ {0}
  BY <1>1, FillBounds
<1>3. TypedOrders(closed) /\ DOMAIN closed = DOMAIN orders
  BY ClosedTyped
<1>4. closed[x] = orders[x]
  BY <1>1, <1>2 DEF Closed
<1> HIDE DEF closed
<1>5. TypedOrders(Relisted(closed, x, CoZkFill(a, b), in)) /\ DOMAIN Relisted(closed, x, CoZkFill(a, b), in) = DOMAIN closed
  BY <1>2, <1>3, <1>4, RelistedTyped
<1>6. QED
  BY <1>2, <1>3, <1>4, <1>5 DEF Rest, closed

\* A relisted remainder is worth what the order still asks for.
LEMMA RestEvolves ==
  ASSUME NEW a \in DOMAIN orders, NEW b \in DOMAIN orders, TypedOrders(orders),
         NEW x \in Survivors(a, b), NEW in \in CashId, RestWorth(a, b, x, in)
  PROVE  AllEvolve(Closed(orders, Filled(a, b)), Rest(a, b, x, in))
<1> DEFINE closed == Closed(orders, Filled(a, b))
           fill == CoZkFill(a, b)
           new == Rest(a, b, x, in)
<1>1. /\ x \in DOMAIN orders /\ TypedOrders(closed) /\ DOMAIN closed = DOMAIN orders
      /\ closed[x] = orders[x] /\ closed[x].qty - fill \in Nat \ {0}
  BY SurvivorOpen
<1>2. fill \in Nat \ {0}
  BY FillBounds
<1>3. /\ DOMAIN new = DOMAIN closed /\ new[x] = Remainder(closed[x], fill, in)
      /\ \A o \in DOMAIN closed \ {x} : new[o] = closed[o]
  BY <1>1 DEF Rest, Relisted
<1>4. in.amt = Pays(closed[x].side, closed[x].qty - fill, closed[x].price)
  BY <1>1 DEF RestWorth
<1> HIDE DEF closed, fill, new
<1>5. closed[x] \in Order
  BY <1>1 DEF TypedOrders
<1>6. LET y == new[x] IN
      /\ y.owner = closed[x].owner /\ y.pair = closed[x].pair /\ y.side = closed[x].side
      /\ y.price = closed[x].price /\ y.height = closed[x].height
      /\ y.qty = closed[x].qty - fill /\ y.inputs = {in}
  BY <1>3, <1>5 DEF Remainder, Order
<1>7. Worthy(new[x])
  BY <1>4, <1>6, SumOfOne DEF Worthy, BackedExactly
<1>8. closed[x].qty \in Nat
  BY <1>5 DEF Order
<1>9. Evolves(closed[x], new[x])
  BY <1>2, <1>6, <1>7, <1>8 DEF Evolves
<1>10. \A o \in DOMAIN closed \ {x} : Evolves(closed[o], new[o])
  BY <1>1, <1>3, SameDealUpdates, SameDealEvolves DEF TypedOrders
<1>11. AllEvolve(closed, new)
  BY <1>3, <1>9, <1>10 DEF AllEvolve
<1>12. QED
  BY <1>11 DEF closed, new

\* A joint settlement keeps the terms of every order.
LEMMA JointEvolves ==
  ASSUME NEW a \in DOMAIN orders, NEW b \in DOMAIN orders, TypedOrders(orders),
         NEW new, JointlySettled(a, b, new)
  PROVE  AllEvolve(orders, new)
<1> DEFINE closed == Closed(orders, Filled(a, b))
<1>1. AllEvolve(orders, closed) /\ TypedOrders(closed)
  BY ClosedEvolves, ClosedTyped
<1>2. ASSUME NEW x \in Survivors(a, b), NEW in \in CashId, RestWorth(a, b, x, in),
             new \in MatchOrder(Rest(a, b, x, in), x)
      PROVE  AllEvolve(orders, new)
  <2>1. /\ x \in DOMAIN Rest(a, b, x, in) /\ TypedOrders(Rest(a, b, x, in))
    BY SurvivorOpen
  <2>2. AllEvolve(closed, Rest(a, b, x, in))
    BY <1>2, RestEvolves
  <2>3. AllEvolve(Rest(a, b, x, in), new) /\ TypedOrders(new)
    BY <1>2, <2>1, MatchEvolves, MatchOrderTyped
  <2> HIDE DEF closed
  <2>4. AllEvolve(orders, Rest(a, b, x, in))
    BY <1>1, <2>1, <2>2, EvolvesInTwo
  <2>5. QED
    BY <2>1, <2>3, <2>4, EvolvesInTwo
<1>3. QED
  BY <1>1, <1>2 DEF JointlySettled

\* A new order leaves the terms of the others, and is worth what it asks for.
LEMMA PlacedEvolves ==
  ASSUME TypedOrders(orders), NEW new, Placed(new)
  PROVE  /\ AllEvolve(orders, new)
         /\ \A o \in DOMAIN new \ DOMAIN orders : Worthy(new[o])
<1>1. PICK ins \in OrderId, ord \in Order :
        /\ ins \notin DOMAIN orders /\ Worthy(ord)
        /\ new \in MatchOrder(Put(orders, ins, ord), ins)
  BY DEF Placed
<1> DEFINE os == Put(orders, ins, ord)
<1>2. /\ TypedOrders(os) /\ DOMAIN os = DOMAIN orders \cup {ins} /\ os[ins] = ord
      /\ \A o \in DOMAIN orders : os[o] = orders[o]
  BY <1>1, PutOrder DEF Put
<1>3. new \in MatchOrder(os, ins)
  BY <1>1
<1> HIDE DEF os
<1>4. AllEvolve(orders, os)
  BY <1>2, SameDealUpdates, SameDealEvolves DEF AllEvolve, TypedOrders
<1>5. AllEvolve(os, new) /\ TypedOrders(new) /\ DOMAIN new = DOMAIN os
  BY <1>2, <1>3, MatchEvolves, MatchOrderTyped
<1>6. AllEvolve(orders, new)
  BY <1>2, <1>4, <1>5, EvolvesInTwo
<1>7. Worthy(new[ins])
  BY <1>1, <1>2, <1>5 DEF AllEvolve, Evolves
<1>8. QED
  BY <1>2, <1>5, <1>6, <1>7

\* In every step, the orders evolve and a new one is worth what it asks for.
LEMMA NextEvolves ==
  ASSUME TypeOK, [Next]_vars
  PROVE  /\ AllEvolve(orders, orders')
         /\ \A o \in DOMAIN orders' \ DOMAIN orders : Worthy(orders'[o])
<1>1. TypedOrders(orders)
  BY TypeOKParts
<1>2. CASE orders' = orders
  BY <1>1, <1>2, SameDealUpdates, SameDealEvolves DEF AllEvolve, TypedOrders
<1>3. CASE Placed(orders')
  BY <1>1, <1>3, PlacedEvolves
<1>4. ASSUME NEW a \in DOMAIN orders, NEW b \in DOMAIN orders,
             \/ PairCompared(a, b, orders') \/ PairSettled(a, b, orders')
             \/ JointlySettled(a, b, orders')
      PROVE  AllEvolve(orders, orders') /\ DOMAIN orders' = DOMAIN orders
  <2>1. CASE PairCompared(a, b, orders')
    BY <1>1, <2>1, ComparedEvolves, ComparedTyped DEF PairCompared
  <2>2. CASE PairSettled(a, b, orders')
    BY <1>1, <2>2, ClosedEvolves, ClosedTyped DEF PairSettled
  <2>3. CASE JointlySettled(a, b, orders')
    <3>1. AllEvolve(orders, orders')
      BY <1>1, <2>3, JointEvolves
    <3>2. DOMAIN Closed(orders, Filled(a, b)) = DOMAIN orders
      BY DEF Closed
    <3>3. ASSUME NEW x \in Survivors(a, b), NEW in \in CashId,
                 orders' \in MatchOrder(Rest(a, b, x, in), x)
          PROVE  DOMAIN orders' = DOMAIN orders
      <4>1. /\ x \in DOMAIN Rest(a, b, x, in) /\ TypedOrders(Rest(a, b, x, in))
            /\ DOMAIN Rest(a, b, x, in) = DOMAIN orders
        BY <1>1, SurvivorOpen
      <4>2. QED
        BY <3>3, <4>1, MatchOrderTyped
    <3>4. QED
      BY <2>3, <3>1, <3>2, <3>3 DEF JointlySettled
  <2>4. QED
    BY <1>4, <2>1, <2>2, <2>3
<1>5. QED
  BY <1>2, <1>3, <1>4, StepShape

\* Every order of the table is worth what it asks for, whatever its status.
AllWorthy(os) == \A o \in DOMAIN os : Worthy(os[o])

\* Collateral keeps pace with the order: after any sequence of fills, remainders and relistings
\* it is worth exactly what the order still asks for at its own price.
THEOREM CollateralKeepsWorth == Spec => []CollateralWorth
<1>1. Init => TypeOK /\ AllWorthy(orders)
  BY InitTyped DEF Init, AllWorthy
<1>2. TypeOK /\ AllWorthy(orders) /\ [Next]_vars => (TypeOK /\ AllWorthy(orders))'
  BY NextTyped, NextEvolves DEF AllWorthy, AllEvolve, Evolves
<1>3. AllWorthy(orders) => CollateralWorth
  BY DEF AllWorthy, Worthy, CollateralWorth, LiveOrders
<1>4. QED
  BY <1>1, <1>2, <1>3, PTL DEF Spec

\* No step changes the owner, pair, side, price or block of an order, or gives it more quantity:
\* a relisted remainder keeps its place in time.
THEOREM TermsAreKept == Spec => TermsKept
<1> DEFINE Kept ==
      \A o \in DOMAIN orders :
        /\ o \in DOMAIN orders'
        /\ LET x == orders[o]
               y == orders'[o]
           IN /\ <<x.owner, x.pair, x.side, x.price, x.height>>
                   = <<y.owner, y.pair, y.side, y.price, y.height>>
              /\ y.qty <= x.qty
<1>1. Init => TypeOK
  BY InitTyped
<1>2. TypeOK /\ [Next]_vars => TypeOK'
  BY NextTyped
<1>3. TypeOK /\ [Next]_vars => [Kept]_vars
  BY NextEvolves DEF AllEvolve, Evolves
<1>4. QED
  BY <1>1, <1>2, <1>3, PTL DEF Spec, TermsKept

-----------------------------------------------------------------------------
(***************************************************************************)
(* The rows other tables keep for a paired order.                          *)
(***************************************************************************)
\* A match changes no order that is not resting.
LEMMA MatchLeavesPaired ==
  ASSUME NEW os, NEW id \in DOMAIN os, NEW new \in MatchOrder(os, id),
         os[id].status = "Pending"
  PROVE  \A o \in DOMAIN os : os[o].status # "Pending" => o \in DOMAIN new /\ new[o] = os[o]
<1>1. ASSUME NEW d \in CompatibleOrders(os, os[id]), new = Linked(os, id, d)
      PROVE  \A o \in DOMAIN os : os[o].status # "Pending" => o \in DOMAIN new /\ new[o] = os[o]
  <2>1. d \in DOMAIN os /\ d # id /\ os[d].status = "Pending"
    BY CandidatesRest
  <2>2. /\ DOMAIN new = DOMAIN os
        /\ \A o \in DOMAIN os \ {id, d} : new[o] = os[o]
    BY <1>1, <2>1 DEF Linked
  <2>3. QED
    BY <2>1, <2>2
<1>2. QED
  BY <1>1, MatchOrderShape

\* What a step leaves of the orders that are paired before it.
LEMMA PlacedLeavesPaired ==
  ASSUME TypedOrders(orders), NEW new, Placed(new)
  PROVE  \A o \in PairedIn(orders) : o \in DOMAIN new /\ new[o] = orders[o]
<1>1. PICK ins \in OrderId, ord \in Order :
        /\ ins \notin DOMAIN orders /\ ord.status = "Pending"
        /\ new \in MatchOrder(Put(orders, ins, ord), ins)
  BY DEF Placed
<1> DEFINE os == Put(orders, ins, ord)
<1>2. /\ DOMAIN os = DOMAIN orders \cup {ins} /\ os[ins] = ord
      /\ \A o \in DOMAIN orders : os[o] = orders[o]
  BY <1>1 DEF Put
<1>3. new \in MatchOrder(os, ins)
  BY <1>1
<1> HIDE DEF os
<1>4. \A o \in DOMAIN os : os[o].status # "Pending" => o \in DOMAIN new /\ new[o] = os[o]
  BY <1>1, <1>2, <1>3, MatchLeavesPaired
<1>5. QED
  BY <1>2, <1>4 DEF PairedIn

\* A joint settlement touches no pair but its own.
LEMMA JointLeavesPaired ==
  ASSUME NEW a \in DOMAIN orders, NEW b \in DOMAIN orders, TypedOrders(orders),
         NEW new, JointlySettled(a, b, new)
  PROVE  \A o \in PairedIn(orders) \ {a, b} : o \in DOMAIN new /\ new[o] = orders[o]
<1> DEFINE closed == Closed(orders, Filled(a, b))
<1>1. /\ DOMAIN closed = DOMAIN orders
      /\ \A o \in DOMAIN orders \ {a, b} : closed[o] = orders[o]
  BY DEF Closed, Filled
<1>2. CASE new = closed
  BY <1>1, <1>2 DEF PairedIn
<1>3. ASSUME NEW x \in Survivors(a, b), NEW in \in CashId, new \in MatchOrder(Rest(a, b, x, in), x)
      PROVE  \A o \in PairedIn(orders) \ {a, b} : o \in DOMAIN new /\ new[o] = orders[o]
  <2>1. PICK os : os = Rest(a, b, x, in)
    OBVIOUS
  <2>2. x \in {a, b} /\ x \in DOMAIN orders /\ closed[x] \in Order
    BY OneSurvivor, SurvivorOpen DEF TypedOrders
  <2>3. DOMAIN os = DOMAIN closed /\ \A o \in DOMAIN closed \ {x} : os[o] = closed[o]
    BY <2>1 DEF Rest, Relisted
  <2>4. os[x] = Remainder(closed[x], CoZkFill(a, b), in)
    BY <1>1, <2>1, <2>2 DEF Rest, Relisted
  <2> HIDE DEF closed
  <2>5. os[x].status = "Pending"
    BY <2>2, <2>4 DEF Remainder, Order
  <2>6. x \in DOMAIN os /\ new \in MatchOrder(os, x)
    BY <1>1, <1>3, <2>1, <2>2, <2>3
  <2>7. \A o \in DOMAIN os : os[o].status # "Pending" => o \in DOMAIN new /\ new[o] = os[o]
    BY <2>5, <2>6, MatchLeavesPaired
  <2>8. \A o \in PairedIn(orders) \ {a, b} : o \in DOMAIN os /\ os[o] = orders[o]
    BY <1>1, <2>2, <2>3 DEF PairedIn
  <2>9. QED
    BY <2>7, <2>8 DEF PairedIn
<1>4. QED
  BY <1>2, <1>3 DEF JointlySettled

\* The address rows are for the current match.
AddrsRight == \A o \in DOMAIN settleAddrs : o \in PairedIn(orders) /\ settleAddrs[o].match = orders[o].match

\* Every step that ends a match drops the address rows of its two orders.
LEMMA NextAddrs ==
  ASSUME FreshOutputs, TypeOK, AddrsRight, [Next]_vars
  PROVE  AddrsRight'
<1>1. TypedOrders(orders)
  BY TypeOKParts
<1>2. CASE settleAddrs' = settleAddrs /\ \A o \in PairedIn(orders) : /\ o \in PairedIn(orders')
                                                                     /\ orders'[o].match = orders[o].match
  BY <1>2 DEF AddrsRight
<1>3. CASE settleAddrs' = settleAddrs /\ orders' = orders
  BY <1>2, <1>3
<1>4. CASE PlaceOrder
  <2>1. settleAddrs' = settleAddrs
    <3>1. PICK ins \in RequestInputs, pair \in Pair, side \in Side, price \in Price,
               fee \in Fee, qty \in Quantity :
            \/ SendOrder(OwnerOf(ins), pair, side, price, fee, qty, ins)
            \/ SendOrderSplit(OwnerOf(ins), pair, side, price, fee, qty, ins)
      BY <1>4, Zenon DEF PlaceOrder
    <3>2. \A ord : Inserted(ins, ord) => settleAddrs' = settleAddrs
      BY DEF Inserted
    <3>3. UNCHANGED <<issued, height, book>> => settleAddrs' = settleAddrs
      BY DEF book
    <3>4. QED
      BY <3>1, <3>2, <3>3, Zenon DEF SendOrder, SendOrderSplit
  <2>2. CASE Placed(orders')
    <3>1. \A o \in PairedIn(orders) : o \in DOMAIN orders' /\ orders'[o] = orders[o]
      BY <1>1, <2>2, PlacedLeavesPaired
    <3>2. QED
      BY <1>2, <2>1, <3>1 DEF PairedIn
  <2>3. QED
    BY <1>3, <1>4, <2>1, <2>2, PlaceShape
<1>5. ASSUME NEW o \in DOMAIN orders, RegisterSettleAddr(o)
      PROVE  AddrsRight'
  BY <1>5 DEF RegisterSettleAddr, Put, AddrsRight, PairedIn
<1>6. CASE LegacySettle
  <2>1. PICK a \in DOMAIN orders, b \in DOMAIN orders :
          \/ CompareOrders(a, b)
          \/ \E leg \in WalletLegs(a, b) : \/ SettleOrdersStore(a, b, leg)
                                         \/ SettleOrders(a, b, leg)
                                         \/ SettleOrdersFails(a, b, leg)
    BY <1>6, Zenon DEF LegacySettle
  <2>2. CASE CompareOrders(a, b)
    <3>1. settleAddrs' = settleAddrs
      BY <2>2 DEF CompareOrders
    <3>2. ASSUME NEW cmp, orders' = Compared(orders, a, b, cmp)
          PROVE  AddrsRight'
      <4>1. orders[a] \in Order /\ orders[b] \in Order
        BY <1>1 DEF TypedOrders
      <4>2. /\ DOMAIN orders' = DOMAIN orders
            /\ \A o \in DOMAIN orders \ {a, b} : orders'[o] = orders[o]
        BY <3>2 DEF Compared
      <4>3. \A o \in {a, b} : orders'[o].status = "Settling" /\ orders'[o].match = orders[o].match
        BY <3>2, <4>1 DEF Compared, Order
      <4>4. QED
        BY <1>2, <3>1, <4>2, <4>3 DEF PairedIn
    <3>3. QED
      BY <1>3, <2>2, <3>1, <3>2 DEF CompareOrders
  <2>3. ASSUME NEW leg, SettleOrdersStore(a, b, leg)
        PROVE  AddrsRight'
    BY <1>3, <2>3 DEF SettleOrdersStore
  <2>4. ASSUME NEW leg, SettleOrdersFails(a, b, leg)
        PROVE  AddrsRight'
    <3>1. UNCHANGED book
      BY <2>4, Zenon DEF SettleOrdersFails, book
    <3>2. QED
      BY <1>3, <3>1 DEF book
  <2>5. ASSUME NEW leg, SettleOrders(a, b, leg)
        PROVE  AddrsRight'
    <3>1. orders' = Closed(orders, {a, b}) /\ settleAddrs' = AddrsDropped(a, b)
      BY <2>5, Zenon DEF SettleOrders
    <3>2. QED
      BY <3>1 DEF Closed, AddrsDropped, Without, AddrsRight, PairedIn
  <2>6. QED
    BY <2>1, <2>2, <2>3, <2>4, <2>5
<1>7. ASSUME NEW a \in DOMAIN orders, NEW b \in DOMAIN orders, SettleOrdersCoZk(a, b)
      PROVE  AddrsRight'
  <2>1. settleAddrs' = AddrsDropped(a, b)
    BY <1>7, Zenon DEF SettleOrdersCoZk
  <2>2. \A o \in PairedIn(orders) \ {a, b} : o \in DOMAIN orders' /\ orders'[o] = orders[o]
    BY <1>1, <1>7, JointShape, JointLeavesPaired
  <2>3. QED
    BY <2>1, <2>2 DEF AddrsDropped, Without, AddrsRight, PairedIn
<1>8. CASE JointSettle
  BY <1>7, <1>8, CoZkNeverFails DEF JointSettle
<1>9. QED
  <2>1. NextBlock \/ LedgerStep \/ UNCHANGED vars => orders' = orders /\ settleAddrs' = settleAddrs
    BY DEF NextBlock, LedgerStep, book, vars
  <2>2. QED
    BY <1>3, <1>4, <1>5, <1>6, <1>8, <2>1 DEF Next

\* A client that polls for the address of its counterparty reads one registered for the match
\* it is in, never one left over from an earlier match of a relisted order.
THEOREM AddressesAreCurrent ==
  ASSUME FreshOutputs
  PROVE  Spec => []AddrRowsCurrent
<1>1. Init => TypeOK /\ AddrsRight
  BY InitTyped DEF Init, AddrsRight
<1>2. TypeOK /\ AddrsRight /\ [Next]_vars => (TypeOK /\ AddrsRight)'
  BY NextTyped, NextAddrs
<1>3. AddrsRight => AddrRowsCurrent
  BY DEF AddrsRight, AddrRowsCurrent, Paired, PairedIn
<1>4. QED
  BY <1>1, <1>2, <1>3, PTL DEF Spec

-----------------------------------------------------------------------------
(***************************************************************************)
(* The book is never crossed.                                              *)
(***************************************************************************)
\* The orders at rest in os, other than those of but, could trade with none but those of but.
UncrossedBut(os, but) ==
  \A o \in DOMAIN os \ but : os[o].status = "Pending" => CompatibleOrders(os, os[o]) \subseteq but

\* Among finitely many orders there is one that none beats: Beats is a strict weak order.
LEMMA BestExists ==
  ASSUME NEW os, NEW S, IsFiniteSet(S), S # {}, \A c \in S : os[c] \in Order, NEW ord
  PROVE  \E c \in S : \A d \in S : ~Beats(ord, os[d], os[c])
<1> DEFINE HasBest(T) == \E c \in T : \A d \in T : ~Beats(ord, os[d], os[c])
           Good == {T \in SUBSET S : T # {} => HasBest(T)}
<1>1. \A c \in S : os[c].price \in Nat /\ os[c].height \in Nat /\ os[c].fee \in Nat
  BY NumbersAssumption DEF Order
<1>2. \A c, d, e \in S :
        /\ ~Beats(ord, os[c], os[c])
        /\ Beats(ord, os[c], os[d]) /\ ~Beats(ord, os[e], os[d]) => ~Beats(ord, os[e], os[c])
  BY <1>1 DEF Beats, BetterPrice
<1>3. ASSUME NEW T \in SUBSET S, \A U \in (SUBSET T) \ {T} : U \in Good
      PROVE  T \in Good
  <2>1. SUFFICES ASSUME T # {} PROVE HasBest(T)
    OBVIOUS
  <2>2. PICK c \in T : TRUE
    BY <2>1
  <2> DEFINE U == T \ {c}
  <2>3. CASE U = {}
    <3>1. T = {c}
      BY <2>3
    <3>2. \A d \in T : ~Beats(ord, os[d], os[c])
      BY <1>2, <3>1
    <3>3. QED
      BY <3>2
  <2>4. CASE U # {}
    <3>1. U \in Good
      BY <1>3
    <3>2. PICK e \in U : \A d \in U : ~Beats(ord, os[d], os[e])
      BY <2>4, <3>1
    <3>3. CASE Beats(ord, os[c], os[e])
      <4>1. \A d \in T : ~Beats(ord, os[d], os[c])
        BY <1>2, <3>2, <3>3
      <4>2. QED
        BY <4>1
    <3>4. CASE ~Beats(ord, os[c], os[e])
      <4>1. \A d \in T : ~Beats(ord, os[d], os[e])
        BY <3>2, <3>4
      <4>2. QED
        BY <4>1
    <3>5. QED
      BY <3>3, <3>4
  <2>5. QED
    BY <2>3, <2>4
<1> HIDE DEF Good
<1>4. SUBSET S \subseteq Good
  BY <1>3, SubsetInduction
<1>5. QED
  BY <1>4 DEF Good

\* The choice of a match fails only when there is nothing to trade with.
LEMMA NoBestNoCandidate ==
  ASSUME NEW os, TypedOrders(os), IsFiniteSet(DOMAIN os), NEW ord, BestMatches(os, ord) = {}
  PROVE  CompatibleOrders(os, ord) = {}
<1> DEFINE S == CompatibleOrders(os, ord)
<1>1. S \subseteq DOMAIN os
  BY DEF CompatibleOrders, Candidates
<1>2. IsFiniteSet(S) /\ \A c \in S : os[c] \in Order
  BY <1>1, FS_Subset DEF TypedOrders
<1> HIDE DEF S
<1>3. SUFFICES ASSUME S # {} PROVE FALSE
  BY DEF S
<1>4. \E c \in S : \A d \in S : ~Beats(ord, os[d], os[c])
  BY <1>2, <1>3, BestExists
<1>5. QED
  BY <1>4 DEF BestMatches, S

\* With fewer orders at rest, on the terms they had, no two orders can trade that could not.
LEMMA FewerAtRest ==
  ASSUME NEW os, NEW new, NEW but, UncrossedBut(os, but),
         \A o \in DOMAIN new \ but : new[o].status = "Pending" => o \in DOMAIN os /\ new[o] = os[o]
  PROVE  UncrossedBut(new, but)
<1> SUFFICES ASSUME NEW o \in DOMAIN new \ but, new[o].status = "Pending",
                    NEW d \in CompatibleOrders(new, new[o]), d \notin but
             PROVE  FALSE
  BY DEF UncrossedBut
<1>1. o \in DOMAIN os /\ new[o] = os[o] /\ os[o].status = "Pending"
  OBVIOUS
<1>2. d \in DOMAIN new /\ new[d].status = "Pending" /\ d \in DOMAIN os /\ new[d] = os[d]
  BY DEF CompatibleOrders, Candidates
<1>3. d \in CompatibleOrders(os, os[o])
  BY <1>1, <1>2 DEF CompatibleOrders, Candidates
<1>4. QED
  BY <1>1, <1>3 DEF UncrossedBut

\* A match leaves an order at rest only when nothing can trade with it.
LEMMA MatchUncrosses ==
  ASSUME NEW os, NEW id \in DOMAIN os, NEW new \in MatchOrder(os, id), TypedOrders(os),
         IsFiniteSet(DOMAIN os), os[id].status = "Pending", UncrossedBut(os, {id})
  PROVE  UncrossedBut(new, {}) /\ DOMAIN new = DOMAIN os
<1>1. CASE BestMatches(os, os[id]) = {}
  <2>1. new = os
    BY <1>1 DEF MatchOrder
  <2>2. CompatibleOrders(os, os[id]) = {}
    BY <1>1, NoBestNoCandidate
  <2>3. ASSUME NEW o \in DOMAIN os \ {id}, os[o].status = "Pending",
               id \in CompatibleOrders(os, os[o])
        PROVE  FALSE
    <3>1. /\ os[id].side # os[o].side /\ os[id].pair = os[o].pair
          /\ Compatible(os[o], os[id])
      BY <2>3 DEF CompatibleOrders, Candidates
    <3>2. Compatible(os[id], os[o])
      BY <3>1, CompatibleBothWays DEF TypedOrders
    <3>3. o \in CompatibleOrders(os, os[id])
      BY <2>3, <3>1, <3>2 DEF CompatibleOrders, Candidates
    <3>4. QED
      BY <2>2, <3>3
  <2>4. UncrossedBut(os, {})
    BY <2>2, <2>3 DEF UncrossedBut
  <2>5. QED
    BY <2>1, <2>4
<1>2. CASE BestMatches(os, os[id]) # {}
  <2>1. PICK c \in BestMatches(os, os[id]) : new = Linked(os, id, c)
    BY <1>2 DEF MatchOrder
  <2>2. c \in DOMAIN os /\ c # id
    BY <2>1, CandidatesRest DEF BestMatches
  <2>3. /\ DOMAIN new = DOMAIN os
        /\ new[id].status = "Matched" /\ new[c].status = "Matched"
        /\ \A o \in DOMAIN os \ {id, c} : new[o] = os[o]
    BY <2>1, <2>2, LinkKeepsTerms
  <2>4. UncrossedBut(new, {id})
    BY <2>3, FewerAtRest
  <2>5. ASSUME NEW o \in DOMAIN new, new[o].status = "Pending"
        PROVE  CompatibleOrders(new, new[o]) = {}
    <3>1. CompatibleOrders(new, new[o]) \subseteq {id}
      BY <2>3, <2>4, <2>5 DEF UncrossedBut
    <3>2. id \notin CompatibleOrders(new, new[o])
      BY <2>3 DEF CompatibleOrders, Candidates
    <3>3. QED
      BY <3>1, <3>2
  <2>6. QED
    BY <2>3, <2>5 DEF UncrossedBut
<1>3. QED
  BY <1>1, <1>2

\* The orders table is finite and the book is not crossed.
BookInOrder(os) == IsFiniteSet(DOMAIN os) /\ UncrossedBut(os, {})

\* An order that enters the book, again or for the first time, is matched before it rests.
LEMMA EntersInOrder ==
  ASSUME NEW os, NEW mid, NEW x \in DOMAIN mid, NEW new \in MatchOrder(mid, x),
         BookInOrder(os), TypedOrders(mid), DOMAIN mid = DOMAIN os \cup {x},
         mid[x].status = "Pending",
         \A o \in DOMAIN mid \ {x} : mid[o].status = "Pending" => mid[o] = os[o]
  PROVE  BookInOrder(new)
<1>1. IsFiniteSet(DOMAIN mid)
  BY FS_AddElement DEF BookInOrder
<1>2. UncrossedBut(os, {x})
  BY DEF UncrossedBut, BookInOrder
<1>3. UncrossedBut(mid, {x})
  BY <1>2, FewerAtRest
<1>4. QED
  BY <1>1, <1>3, MatchUncrosses DEF BookInOrder

\* Whatever a step does to the orders table.
LEMMA NextInOrder ==
  ASSUME TypeOK, BookInOrder(orders), [Next]_vars
  PROVE  BookInOrder(orders')
<1>1. TypedOrders(orders)
  BY TypeOKParts
<1>2. ASSUME NEW new, DOMAIN new = DOMAIN orders,
             \A o \in DOMAIN new : new[o].status = "Pending" => new[o] = orders[o]
      PROVE  BookInOrder(new)
  BY <1>2, FewerAtRest DEF BookInOrder
<1>3. CASE Placed(orders')
  <2>1. PICK ins \in OrderId, ord \in Order :
          /\ ins \notin DOMAIN orders /\ ord.status = "Pending"
          /\ orders' \in MatchOrder(Put(orders, ins, ord), ins)
    BY <1>3 DEF Placed
  <2> DEFINE mid == Put(orders, ins, ord)
  <2>2. TypedOrders(mid)
    BY <1>1, PutOrder
  <2>3. /\ ins \in DOMAIN mid /\ DOMAIN mid = DOMAIN orders \cup {ins}
        /\ mid[ins] = ord /\ \A o \in DOMAIN mid \ {ins} : mid[o] = orders[o]
    BY DEF Put
  <2>4. orders' \in MatchOrder(mid, ins)
    BY <2>1
  <2> HIDE DEF mid
  <2>5. QED
    BY <2>1, <2>2, <2>3, <2>4, EntersInOrder
<1>4. ASSUME NEW a \in DOMAIN orders, NEW b \in DOMAIN orders, PairCompared(a, b, orders')
      PROVE  BookInOrder(orders')
  <2>1. PICK cmp : orders' = Compared(orders, a, b, cmp)
    BY <1>4 DEF PairCompared
  <2>2. DOMAIN orders' = DOMAIN orders /\ \A o \in DOMAIN orders \ {a, b} : orders'[o] = orders[o]
    BY <2>1 DEF Compared
  <2>3. orders'[a].status = "Settling" /\ orders'[b].status = "Settling"
    BY <1>1, <2>1 DEF Compared, TypedOrders, Order
  <2>4. QED
    BY <1>2, <2>2, <2>3
<1>5. ASSUME NEW a \in DOMAIN orders, NEW b \in DOMAIN orders, PairSettled(a, b, orders')
      PROVE  BookInOrder(orders')
  <2>1. orders' = Closed(orders, {a, b})
    BY <1>5 DEF PairSettled
  <2>2. /\ DOMAIN orders' = DOMAIN orders
        /\ \A o \in DOMAIN orders \ {a, b} : orders'[o] = orders[o]
        /\ \A o \in DOMAIN orders \cap {a, b} : orders'[o].status = "Done"
    BY <1>1, <2>1, ClosedLive
  <2>3. QED
    BY <1>2, <2>2
<1>6. ASSUME NEW a \in DOMAIN orders, NEW b \in DOMAIN orders, JointlySettled(a, b, orders')
      PROVE  BookInOrder(orders')
  <2> DEFINE closed == Closed(orders, Filled(a, b))
  <2>1. /\ DOMAIN closed = DOMAIN orders
        /\ \A o \in DOMAIN orders : closed[o].status = "Pending" => closed[o] = orders[o]
    <3>1. /\ DOMAIN closed = DOMAIN orders
          /\ \A o \in DOMAIN orders \ Filled(a, b) : closed[o] = orders[o]
          /\ \A o \in DOMAIN orders \cap Filled(a, b) : closed[o].status = "Done"
      BY <1>1, ClosedLive
    <3>2. QED
      BY <3>1
  <2>2. CASE orders' = closed
    <3> HIDE DEF closed
    <3>1. QED
      BY <1>2, <2>1, <2>2
  <2>3. ASSUME NEW x \in Survivors(a, b), NEW in \in CashId,
               orders' \in MatchOrder(Rest(a, b, x, in), x)
        PROVE  BookInOrder(orders')
    <3> DEFINE mid == Rest(a, b, x, in)
    <3>1. /\ x \in DOMAIN orders /\ TypedOrders(closed) /\ TypedOrders(mid)
          /\ DOMAIN mid = DOMAIN orders
      BY <1>1, SurvivorOpen
    <3>2. mid[x] = Remainder(closed[x], CoZkFill(a, b), in)
      BY <2>1, <3>1 DEF Rest, Relisted
    <3>3. \A o \in DOMAIN mid \ {x} : mid[o] = closed[o]
      BY <2>1, <3>1 DEF Rest, Relisted
    <3> HIDE DEF closed
    <3>4. mid[x].status = "Pending"
      BY <2>1, <3>1, <3>2 DEF Remainder, TypedOrders, Order
    <3>5. orders' \in MatchOrder(mid, x)
      BY <2>3
    <3> HIDE DEF mid
    <3>6. DOMAIN mid = DOMAIN orders \cup {x}
      BY <3>1
    <3>7. \A o \in DOMAIN mid \ {x} : mid[o].status = "Pending" => mid[o] = orders[o]
      BY <2>1, <3>1, <3>3
    <3>8. QED
      BY <3>1, <3>4, <3>5, <3>6, <3>7, EntersInOrder
  <2>4. QED
    BY <1>6, <2>2, <2>3 DEF JointlySettled
<1>7. QED
  BY <1>3, <1>4, <1>5, <1>6, StepShape

\* Matching once, at insertion and at relisting, is enough for any number of orders, prices
\* and ties, and however handlers fail: two orders that could trade never both rest.
THEOREM BookIsNeverCrossed == Spec => []NoCrossedBook
<1>1. Init => TypeOK /\ BookInOrder(orders)
  <2>1. Init => BookInOrder(orders)
    BY FS_EmptySet DEF Init, BookInOrder, UncrossedBut
  <2>2. QED
    BY <2>1, InitTyped
<1>2. TypeOK /\ BookInOrder(orders) /\ [Next]_vars => (TypeOK /\ BookInOrder(orders))'
  BY NextTyped, NextInOrder
<1>3. BookInOrder(orders) => NoCrossedBook
  BY DEF BookInOrder, UncrossedBut, NoCrossedBook
<1>4. QED
  BY <1>1, <1>2, <1>3, PTL DEF Spec
=============================================================================
