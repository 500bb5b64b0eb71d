----------------------------- MODULE ValueProofs -----------------------------
(***************************************************************************)
(* Settlement and value: the leg that waits for its counterparty, what a    *)
(* settlement mints against what it spends, and what each trader holds      *)
(* after it.                                                                *)
(***************************************************************************)
EXTENDS LockProofs

-----------------------------------------------------------------------------
(***************************************************************************)
(* The larger party can afford its leg.                                    *)
(***************************************************************************)
\* Products of naturals grow with both factors.
LEMMA Products ==
  ASSUME NEW w \in Nat, NEW x \in Nat, NEW y \in Nat, NEW z \in Nat, w <= x, y <= z
  PROVE  w * y <= x * z
<1>1. w * y <= x * y
  <2>1. PICK d \in Nat : x = w + d
    <3>1. x - w \in Nat /\ x = w + (x - w)
      OBVIOUS
    <3>2. QED
      BY <3>1
  <2>2. x * y = w * y + d * y /\ d * y \in Nat /\ w * y \in Nat
    BY <2>1
  <2>3. QED
    BY <2>2
<1>2. x * y <= x * z
  <2>1. PICK d \in Nat : z = y + d
    <3>1. z - y \in Nat /\ z = y + (z - y)
      OBVIOUS
    <3>2. QED
      BY <3>1
  <2>2. x * z = x * y + x * d /\ x * d \in Nat /\ x * y \in Nat
    BY <2>1
  <2>3. QED
    BY <2>2
<1>3. w * y \in Nat /\ x * y \in Nat /\ x * z \in Nat
  OBVIOUS
<1>4. QED
  BY <1>1, <1>2, <1>3

\* Of two compatible orders the buyer pays, and the seller asks, no other than the price.
LEMMA PriceWithinLimits ==
  ASSUME NEW x \in Order, NEW y \in Order, x.side # y.side, Compatible(x, y)
  PROVE  /\ ExecutionPrice(x, y) \in Nat \ {0}
         /\ x.side = "Buy" => ExecutionPrice(x, y) <= x.price
         /\ y.side = "Buy" => ExecutionPrice(x, y) <= y.price
<1>1. x.price \in Nat /\ y.price \in Nat /\ x.side \in Side /\ y.side \in Side
  BY OrderFields
<1>2. ExecutionPrice(x, y) \in {x.price, y.price}
  BY DEF ExecutionPrice, Min2
<1>3. QED
  BY <1>1, <1>2, ExecutionPriceTyped DEF Compatible, Side

\* The larger order of two compatible ones affords the quantity of the smaller at the execution
\* price, and the smaller pays for it no more than its collateral.
LEMMA FillIsCovered ==
  ASSUME NEW x \in Order, NEW y \in Order, x.side # y.side, Compatible(x, y),
         Worthy(x), Worthy(y), y.qty <= x.qty,
         NEW price, price = ExecutionPrice(x, y)
  PROVE  /\ Sum(x.inputs) - Pays(x.side, y.qty, price) \in Nat
         /\ Gets(x.side, y.qty, price) <= Sum(y.inputs)
<1>1. /\ x.qty \in Nat /\ y.qty \in Nat /\ x.price \in Nat /\ y.price \in Nat
      /\ x.side \in Side /\ y.side \in Side
  BY OrderFields
<1>2. /\ price \in Nat
      /\ x.side = "Buy" => price <= x.price
      /\ y.side = "Buy" => price <= y.price
  BY PriceWithinLimits
<1>3. CASE x.side = "Buy"
  <2>1. y.side = "Sell"
    BY <1>1, <1>3 DEF Side
  <2>2. Sum(x.inputs) = x.qty * x.price /\ Sum(y.inputs) = y.qty
    BY <1>3, <2>1 DEF Worthy, BackedExactly, Pays
  <2>3. Pays(x.side, y.qty, price) = y.qty * price /\ Gets(x.side, y.qty, price) = y.qty
    BY <1>3 DEF Pays, Gets
  <2>4. y.qty * price <= x.qty * x.price
    BY <1>1, <1>2, <1>3, Products
  <2>5. y.qty * price \in Nat /\ x.qty * x.price \in Nat
    BY <1>1, <1>2
  <2>6. x.qty * x.price - y.qty * price \in Nat
    BY <2>4, <2>5
  <2>7. QED
    BY <1>1, <2>2, <2>3, <2>6
<1>4. CASE x.side = "Sell"
  <2>1. y.side = "Buy"
    BY <1>1, <1>4 DEF Side
  <2>2. Sum(x.inputs) = x.qty /\ Sum(y.inputs) = y.qty * y.price
    BY <1>4, <2>1 DEF Worthy, BackedExactly, Pays
  <2>3. Pays(x.side, y.qty, price) = y.qty /\ Gets(x.side, y.qty, price) = y.qty * price
    BY <1>4 DEF Pays, Gets
  <2>4. y.qty * price <= y.qty * y.price
    BY <1>1, <1>2, <2>1, Products
  <2>5. QED
    BY <1>1, <2>2, <2>3, <2>4
<1>5. QED
  BY <1>1, <1>3, <1>4 DEF Side

-----------------------------------------------------------------------------
(***************************************************************************)
(* The stored leg.                                                         *)
(***************************************************************************)
\* The comparison tells the truth: a Settling order it did not mark asks for at least as much.
MarkRight(os) ==
  \A o \in DOMAIN os :
    (os[o].status = "Settling" /\ ~os[o].smaller) => os[os[o].match].qty <= os[o].qty

\* The row o waits for the order it was computed for.
LegRight(o, subs, os) ==
  LET p == os[o].match
      leg == subs[o].leg
  IN /\ o \in DOMAIN os /\ os[o].status = "Settling" /\ subs[o].match = p
     /\ p \notin DOMAIN subs
     /\ leg # NoLeg => /\ leg.price = ExecutionPrice(os[o], os[p])
                       /\ leg.fill = os[p].qty
                       /\ LegChange(os[o], leg) >= 0
LegsRight(subs, os) == \A o \in DOMAIN subs : LegRight(o, subs, os)

\* What is settling stays as it is while the orders of the step are others.
SettlingKept(os, new, gone) ==
  \A o \in DOMAIN os \ gone : os[o].status = "Settling" => o \in DOMAIN new /\ new[o] = os[o]

\* Rows stay right when no settling order changes and none of their tables does.
LEMMA LegsStay ==
  ASSUME NEW os, NEW new, NEW subs, LegsRight(subs, os), Symmetric(os), SettlingKept(os, new, {})
  PROVE  LegsRight(subs, new)
<1>1. SUFFICES ASSUME NEW o \in DOMAIN subs PROVE LegRight(o, subs, new)
  BY DEF LegsRight
<1>2. LegRight(o, subs, os)
  BY DEF LegsRight
<1>3. o \in PairedIn(os) /\ os[o].status = "Settling"
  BY <1>2 DEF LegRight, PairedIn
<1>4. os[o].match \in DOMAIN os /\ os[os[o].match].status = "Settling"
  BY <1>3 DEF Symmetric, PairOf
<1>5. /\ o \in DOMAIN new /\ new[o] = os[o] /\ new[os[o].match] = os[os[o].match]
  BY <1>2, <1>3, <1>4 DEF SettlingKept, LegRight
<1>6. QED
  BY <1>2, <1>5 DEF LegRight

\* So do the marks, when no order starts to settle.
LEMMA MarksStay ==
  ASSUME NEW os, NEW new, NEW gone, MarkRight(os), Symmetric(os), SettlingKept(os, new, gone),
         \A o \in DOMAIN new : new[o].status = "Settling" =>
           o \in DOMAIN os \ gone /\ os[o].status = "Settling" /\ os[o].match \notin gone
  PROVE  MarkRight(new)
<1>1. SUFFICES ASSUME NEW o \in DOMAIN new, new[o].status = "Settling", ~new[o].smaller
               PROVE  new[new[o].match].qty <= new[o].qty
  BY DEF MarkRight
<1>2. o \in DOMAIN os \ gone /\ os[o].status = "Settling" /\ os[o].match \notin gone
  BY <1>1
<1>3. os[o].match \in DOMAIN os /\ os[os[o].match].status = "Settling"
  BY <1>2 DEF Symmetric, PairOf, PairedIn
<1>4. new[o] = os[o] /\ new[os[o].match] = os[os[o].match]
  BY <1>2, <1>3 DEF SettlingKept
<1>5. QED
  BY <1>1, <1>2, <1>4 DEF MarkRight

\* A comparison marks the order that asks for less.
LEMMA CompareMarks ==
  ASSUME NEW a \in DOMAIN orders, NEW b \in DOMAIN orders, TypedOrders(orders),
         Symmetric(orders), MarkRight(orders), PairCompared(a, b, orders')
  PROVE  MarkRight(orders') /\ SettlingKept(orders, orders', {})
<1> DEFINE cmp == MpcShare(a, b).cmp
<1>1. /\ orders[a].status = "Matched" /\ orders[b].status = "Matched"
      /\ orders[a].match = b /\ orders[b].match = a
      /\ orders' = Compared(orders, a, b, cmp)
  BY DEF PairCompared, MutuallyMatched
<1>2. /\ orders[a] \in Order /\ orders[b] \in Order
      /\ orders[a].side # orders[b].side /\ a # b
  BY <1>1 DEF TypedOrders, Symmetric, PairOf, PairedIn
<1>3. /\ orders[a].side \in Side /\ orders[b].side \in Side
      /\ orders[a].qty \in Nat /\ orders[b].qty \in Nat
  BY <1>2, OrderFields
<1>4. cmp = IF orders[a].side = "Buy" THEN orders[a].qty >= orders[b].qty
            ELSE orders[b].qty >= orders[a].qty
  BY DEF MpcShare
<1> HIDE DEF cmp
<1>5. /\ DOMAIN orders' = DOMAIN orders
      /\ \A o \in DOMAIN orders \ {a, b} : orders'[o] = orders[o]
  BY <1>1 DEF Compared
<1>6. /\ \A o \in {a, b} : /\ orders'[o].qty = orders[o].qty
                           /\ orders'[o].match = orders[o].match
      /\ orders'[a].smaller = IsSmaller(orders[a].side, cmp)
      /\ orders'[b].smaller = IsSmaller(orders[b].side, cmp)
  BY <1>1, <1>2 DEF Compared, Order
<1>7. /\ ~orders'[a].smaller => orders[b].qty <= orders[a].qty
      /\ ~orders'[b].smaller => orders[a].qty <= orders[b].qty
  <2>1. CASE orders[a].side = "Buy"
    <3>1. orders[b].side = "Sell" /\ (cmp <=> orders[a].qty >= orders[b].qty)
      BY <1>2, <1>3, <1>4, <2>1 DEF Side
    <3>2. (orders'[a].smaller <=> ~cmp) /\ (orders'[b].smaller <=> cmp)
      BY <1>6, <2>1, <3>1 DEF IsSmaller
    <3>3. QED
      BY <1>3, <3>1, <3>2
  <2>2. CASE orders[a].side = "Sell"
    <3>1. orders[b].side = "Buy" /\ (cmp <=> orders[b].qty >= orders[a].qty)
      BY <1>2, <1>3, <1>4, <2>2 DEF Side
    <3>2. (orders'[b].smaller <=> ~cmp) /\ (orders'[a].smaller <=> cmp)
      BY <1>6, <2>2, <3>1 DEF IsSmaller
    <3>3. QED
      BY <1>3, <3>1, <3>2
  <2>3. QED
    BY <1>3, <2>1, <2>2 DEF Side
<1>8. SettlingKept(orders, orders', {})
  BY <1>1, <1>5 DEF SettlingKept
<1>9. ASSUME NEW o \in DOMAIN orders' \ {a, b}, orders'[o].status = "Settling", ~orders'[o].smaller
      PROVE  orders'[orders'[o].match].qty <= orders'[o].qty
  <2>1. orders'[o] = orders[o] /\ o \in PairedIn(orders)
    BY <1>5, <1>9 DEF PairedIn
  <2>2. /\ orders[o].match \in DOMAIN orders
        /\ orders[orders[o].match].status = "Settling"
    BY <1>9, <2>1 DEF Symmetric, PairOf
  <2>3. orders[o].match \notin {a, b}
    BY <1>1, <2>2
  <2>4. QED
    BY <1>5, <1>9, <2>1, <2>2, <2>3 DEF MarkRight
<1>10. MarkRight(orders')
  BY <1>1, <1>5, <1>6, <1>7, <1>9 DEF MarkRight
<1>11. QED
  BY <1>8, <1>10

\* Storing the leg of the first of a pair to submit.
LEMMA StoreLegs ==
  ASSUME NEW a \in DOMAIN orders, NEW b \in DOMAIN orders, NEW leg \in WalletLegs(a, b),
         TypeOK, Symmetric(orders), MarkRight(orders), AllWorthy(orders),
         LegsRight(settleSubs, orders), SettleOrdersStore(a, b, leg)
  PROVE  LegsRight(settleSubs', orders)
<1> DEFINE row == [match |-> b, leg |-> leg]
<1>1. /\ MutuallyMatched(a, b, "Settling") /\ (orders[a].smaller <=> leg = NoLeg)
      /\ a \notin DOMAIN settleSubs /\ b \notin DOMAIN settleSubs
      /\ settleSubs' = Put(settleSubs, a, row)
  BY DEF SettleOrdersStore, SettleRequest
<1>2. /\ orders[a].status = "Settling" /\ orders[a].match = b /\ orders[b].match = a
  BY <1>1 DEF MutuallyMatched
<1>3. /\ orders[a].side # orders[b].side /\ Compatible(orders[a], orders[b]) /\ a # b
  BY <1>2 DEF Symmetric, PairOf, PairedIn
<1>4. orders[a] \in Order /\ orders[b] \in Order
  BY TypeOKParts DEF TypedOrders
<1>5. /\ DOMAIN settleSubs' = DOMAIN settleSubs \cup {a} /\ settleSubs'[a] = row
      /\ \A o \in DOMAIN settleSubs : settleSubs'[o] = settleSubs[o]
  BY <1>1 DEF Put
<1>6. ASSUME leg # NoLeg
      PROVE  /\ leg.price = ExecutionPrice(orders[a], orders[b]) /\ leg.fill = orders[b].qty
             /\ LegChange(orders[a], leg) >= 0
  <2>1. ~orders[a].smaller
    BY <1>1, <1>6
  <2>2. leg.price = ExecutionPrice(orders[a], orders[b]) /\ leg.fill = orders[b].qty
    BY <2>1 DEF WalletLegs
  <2>3. orders[b].qty <= orders[a].qty
    BY <1>2, <2>1 DEF MarkRight
  <2>4. Worthy(orders[a]) /\ Worthy(orders[b])
    BY DEF AllWorthy
  <2>5. Sum(orders[a].inputs) - Pays(orders[a].side, leg.fill, leg.price) \in Nat
    BY <1>3, <1>4, <2>2, <2>3, <2>4, FillIsCovered
  <2>6. LegChange(orders[a], leg) \in Nat
    BY <2>5 DEF LegChange
  <2>7. QED
    BY <2>2, <2>6
<1> HIDE DEF row
<1>7. row.match = b /\ row.leg = leg
  BY DEF row
<1>8. LegRight(a, settleSubs', orders)
  BY <1>1, <1>2, <1>3, <1>5, <1>6, <1>7 DEF LegRight
<1>9. ASSUME NEW o \in DOMAIN settleSubs
      PROVE  LegRight(o, settleSubs', orders)
  <2>1. LegRight(o, settleSubs, orders)
    BY DEF LegsRight
  <2>2. orders[orders[o].match].match = o
    BY <2>1 DEF LegRight, Symmetric, PairOf, PairedIn
  <2>3. orders[o].match # a
    BY <1>1, <1>2, <2>2
  <2>4. QED
    BY <1>5, <2>1, <2>3 DEF LegRight
<1>10. QED
  BY <1>5, <1>8, <1>9 DEF LegsRight

\* Settling a pair drops its rows and leaves the others.
LEMMA SettleLegs ==
  ASSUME NEW a \in DOMAIN orders, NEW b \in DOMAIN orders, NEW leg, TypedOrders(orders),
         Symmetric(orders), MarkRight(orders), LegsRight(settleSubs, orders),
         SettleOrders(a, b, leg)
  PROVE  LegsRight(settleSubs', orders') /\ MarkRight(orders')
<1>1. /\ MutuallyMatched(a, b, "Settling")
      /\ orders' = Closed(orders, {a, b}) /\ settleSubs' = Without(settleSubs, {a, b})
  BY Zenon DEF SettleOrders, SettleVerified, SettleRequest
<1>2. orders[a].match = b /\ orders[b].match = a
  BY <1>1 DEF MutuallyMatched
<1>3. /\ DOMAIN orders' = DOMAIN orders
      /\ \A o \in DOMAIN orders \ {a, b} : orders'[o] = orders[o]
  BY <1>1 DEF Closed
<1>4. \A o \in {a, b} : orders'[o].status # "Settling"
  <2>1. \A o \in {a, b} : orders'[o] = [orders[o] EXCEPT !.status = "Done"]
    BY <1>1 DEF Closed
  <2>2. \A o \in {a, b} : orders[o] \in Order
    BY DEF TypedOrders
  <2>3. QED
    BY <2>1, <2>2 DEF Order
<1>5. \A o \in DOMAIN orders \ {a, b} :
        orders[o].status = "Settling" => /\ orders[o].match \in DOMAIN orders \ {a, b}
  BY <1>2 DEF Symmetric, PairOf, PairedIn
<1>6. MarkRight(orders')
  <2>1. SettlingKept(orders, orders', {a, b})
    BY <1>3 DEF SettlingKept
  <2>2. \A o \in DOMAIN orders' : orders'[o].status = "Settling" =>
          o \in DOMAIN orders \ {a, b} /\ orders[o].status = "Settling"
          /\ orders[o].match \notin {a, b}
    BY <1>3, <1>4, <1>5
  <2>3. QED
    BY <2>1, <2>2, MarksStay
<1>7. ASSUME NEW o \in DOMAIN settleSubs'
      PROVE  LegRight(o, settleSubs', orders')
  <2>1. /\ o \in DOMAIN settleSubs /\ o \notin {a, b} /\ settleSubs'[o] = settleSubs[o]
        /\ DOMAIN settleSubs' \subseteq DOMAIN settleSubs
    BY <1>1, <1>7 DEF Without
  <2>2. LegRight(o, settleSubs, orders)
    BY <2>1 DEF LegsRight
  <2>3. /\ orders'[o] = orders[o] /\ o \in DOMAIN orders'
        /\ orders'[orders[o].match] = orders[orders[o].match]
    BY <1>3, <1>5, <2>1, <2>2 DEF LegRight
  <2>4. QED
    BY <2>1, <2>2, <2>3 DEF LegRight
<1>8. QED
  BY <1>6, <1>7 DEF LegsRight

\* A joint settlement touches no order that is settling on legs.
LEMMA JointLegs ==
  ASSUME NEW a \in DOMAIN orders, NEW b \in DOMAIN orders, TypedOrders(orders),
         Symmetric(orders), MarkRight(orders), LegsRight(settleSubs, orders),
         JointlySettled(a, b, orders'), DOMAIN orders' = DOMAIN orders
  PROVE  SettlingKept(orders, orders', {})
<1>1. \A o \in PairedIn(orders) \ {a, b} : o \in DOMAIN orders' /\ orders'[o] = orders[o]
  BY JointLeavesPaired
<1>2. orders[a].status = "Matched" /\ orders[b].status = "Matched"
  BY DEF JointlySettled, MutuallyMatched
<1>3. QED
  BY <1>1, <1>2 DEF SettlingKept, PairedIn

\* No order of new settles that did not in os.
NoneStarts(os, new) ==
  \A o \in DOMAIN new : new[o].status = "Settling" => o \in DOMAIN os /\ os[o].status = "Settling"

\* A match makes no order settle.
LEMMA MatchStartsNone ==
  ASSUME NEW os, NEW id \in DOMAIN os, NEW new \in MatchOrder(os, id), TypedOrders(os)
  PROVE  NoneStarts(os, new)
<1>1. ASSUME NEW d \in CompatibleOrders(os, os[id]), new = Linked(os, id, d)
      PROVE  NoneStarts(os, new)
  <2>1. d \in DOMAIN os /\ d # id
    BY CandidatesRest
  <2>2. /\ DOMAIN new = DOMAIN os
        /\ \A o \in DOMAIN os \ {id, d} : new[o] = os[o]
        /\ new[id].status = "Matched" /\ new[d].status = "Matched"
    BY <1>1, <2>1, LinkKeepsTerms
  <2>3. QED
    BY <2>1, <2>2 DEF NoneStarts
<1>2. CASE new = os
  BY <1>2 DEF NoneStarts
<1>3. QED
  BY <1>1, <1>2, MatchOrderShape

\* Nor does a new order.
LEMMA PlacedStartsNone ==
  ASSUME TypedOrders(orders), NEW new, Placed(new)
  PROVE  NoneStarts(orders, new)
<1>1. PICK ins \in OrderId, ord \in Order :
        /\ ins \notin DOMAIN orders /\ ord.status = "Pending"
        /\ new \in MatchOrder(Put(orders, ins, ord), ins)
  BY DEF Placed
<1> DEFINE os == Put(orders, ins, ord)
<1>2. /\ TypedOrders(os) /\ DOMAIN os = DOMAIN orders \cup {ins} /\ os[ins] = ord
      /\ \A o \in DOMAIN orders : os[o] = orders[o]
  BY <1>1, PutOrder DEF Put
<1>3. new \in MatchOrder(os, ins)
  BY <1>1
<1> HIDE DEF os
<1>4. NoneStarts(os, new)
  BY <1>2, <1>3, MatchStartsNone
<1>5. QED
  BY <1>1, <1>2, <1>4 DEF NoneStarts

\* Nor does a joint settlement.
LEMMA JointStartsNone ==
  ASSUME NEW a \in DOMAIN orders, NEW b \in DOMAIN orders, TypedOrders(orders),
         NEW new, JointlySettled(a, b, new)
  PROVE  NoneStarts(orders, new)
<1> DEFINE closed == Closed(orders, Filled(a, b))
<1>1. NoneStarts(orders, closed) /\ TypedOrders(closed)
  <2>1. \A o \in DOMAIN orders : closed[o] = orders[o] \/ closed[o] = [orders[o] EXCEPT !.status = "Done"]
    BY DEF Closed
  <2>2. \A o \in DOMAIN orders : orders[o] \in Order
    BY DEF TypedOrders
  <2>3. \A o \in DOMAIN orders : closed[o] = orders[o] \/ closed[o].status = "Done"
    BY <2>1, <2>2 DEF Order
  <2>4. DOMAIN closed = DOMAIN orders
    BY DEF Closed
  <2> HIDE DEF closed
  <2>5. NoneStarts(orders, closed)
    BY <2>3, <2>4 DEF NoneStarts
  <2>6. QED
    BY <2>5, ClosedTyped DEF closed
<1>2. ASSUME NEW x \in Survivors(a, b), NEW in \in CashId, new \in MatchOrder(Rest(a, b, x, in), x)
      PROVE  NoneStarts(orders, new)
  <2>1. PICK os : os = Rest(a, b, x, in)
    OBVIOUS
  <2>2. /\ x \in DOMAIN os /\ TypedOrders(os) /\ DOMAIN os = DOMAIN closed /\ closed[x] \in Order
    BY <2>1, SurvivorOpen DEF TypedOrders
  <2>3. \A o \in DOMAIN closed \ {x} : os[o] = closed[o]
    BY <2>1 DEF Rest, Relisted
  <2>4. os[x] = Remainder(closed[x], CoZkFill(a, b), in)
    BY <2>1, <2>2 DEF Rest, Relisted
  <2> HIDE DEF closed
  <2>5. os[x].status = "Pending"
    BY <2>2, <2>4 DEF Remainder, Order
  <2>6. NoneStarts(os, new)
    BY <1>2, <2>1, <2>2, MatchStartsNone
  <2>7. QED
    BY <1>1, <2>2, <2>3, <2>5, <2>6 DEF NoneStarts
<1>3. QED
  BY <1>1, <1>2 DEF JointlySettled

\* The rows and marks of the legs in every step of the system.
LEMMA NextLegs ==
  ASSUME FreshOutputs, TypeOK, Symmetric(orders), AllWorthy(orders), MarkRight(orders),
         LegsRight(settleSubs, orders), [Next]_vars
  PROVE  MarkRight(orders') /\ LegsRight(settleSubs', orders')
<1>1. TypedOrders(orders)
  BY TypeOKParts
<1>2. ASSUME SettlingKept(orders, orders', {}), NoneStarts(orders, orders'), settleSubs' = settleSubs
      PROVE  MarkRight(orders') /\ LegsRight(settleSubs', orders')
  <2>1. MarkRight(orders')
    BY <1>2, MarksStay DEF NoneStarts
  <2>2. QED
    BY <1>2, <2>1, LegsStay
<1>3. CASE orders' = orders /\ settleSubs' = settleSubs
  BY <1>3
<1>4. CASE PlaceOrder
  <2>1. settleSubs' = settleSubs
    <3>1. PICK ins \in RequestInputs, pair \in Pair, side \in Side, price \in Price,
               fee \in Fee, qty \in Quantity :
            \/ SendOrder(OwnerOf(ins), pair, side, price, fee, qty, ins)
            \/ SendOrderSplit(OwnerOf(ins), pair, side, price, fee, qty, ins)
      BY <1>4, Zenon DEF PlaceOrder
    <3>2. \A ord : Inserted(ins, ord) => settleSubs' = settleSubs
      BY DEF Inserted
    <3>3. UNCHANGED <<issued, height, book>> => settleSubs' = settleSubs
      BY DEF book
    <3>4. QED
      BY <3>1, <3>2, <3>3, Zenon DEF SendOrder, SendOrderSplit
  <2>2. CASE Placed(orders')
    <3>1. \A o \in PairedIn(orders) : o \in DOMAIN orders' /\ orders'[o] = orders[o]
      BY <1>1, <2>2, PlacedLeavesPaired
    <3>2. SettlingKept(orders, orders', {})
      BY <3>1 DEF SettlingKept, PairedIn
    <3>3. NoneStarts(orders, orders')
      BY <1>1, <2>2, PlacedStartsNone
    <3>4. QED
      BY <1>2, <2>1, <3>2, <3>3
  <2>3. QED
    BY <1>3, <1>4, <2>1, <2>2, PlaceShape
<1>5. CASE LegacySettle
  <2>1. PICK a \in DOMAIN orders, b \in DOMAIN orders :
          \/ CompareOrders(a, b)
          \/ \E leg \in WalletLegs(a, b) : \/ SettleOrdersStore(a, b, leg)
                                         \/ SettleOrders(a, b, leg)
                                         \/ SettleOrdersFails(a, b, leg)
    BY <1>5, Zenon DEF LegacySettle
  <2>2. CASE CompareOrders(a, b)
    <3>1. settleSubs' = settleSubs /\ (orders' = orders \/ PairCompared(a, b, orders'))
      BY <2>2 DEF CompareOrders, PairCompared
    <3>2. CASE PairCompared(a, b, orders')
      <4>1. MarkRight(orders') /\ SettlingKept(orders, orders', {})
        BY <1>1, <3>2, CompareMarks
      <4>2. QED
        BY <3>1, <4>1, LegsStay
    <3>3. QED
      BY <1>3, <3>1, <3>2
  <2>3. ASSUME NEW leg \in WalletLegs(a, b), SettleOrdersStore(a, b, leg)
        PROVE  MarkRight(orders') /\ LegsRight(settleSubs', orders')
    <3>1. orders' = orders
      BY <2>3 DEF SettleOrdersStore
    <3>2. LegsRight(settleSubs', orders)
      BY <2>3, StoreLegs
    <3>3. QED
      BY <3>1, <3>2
  <2>4. ASSUME NEW leg \in WalletLegs(a, b), SettleOrdersFails(a, b, leg)
        PROVE  FALSE
    BY <2>4, SettleNeverFails
  <2>5. ASSUME NEW leg \in WalletLegs(a, b), SettleOrders(a, b, leg)
        PROVE  MarkRight(orders') /\ LegsRight(settleSubs', orders')
    BY <1>1, <2>5, SettleLegs
  <2>6. QED
    BY <2>1, <2>2, <2>3, <2>4, <2>5
<1>6. ASSUME NEW a \in DOMAIN orders, NEW b \in DOMAIN orders, SettleOrdersCoZk(a, b)
      PROVE  MarkRight(orders') /\ LegsRight(settleSubs', orders')
  <2>1. settleSubs' = settleSubs
    BY <1>6, Zenon DEF SettleOrdersCoZk
  <2>2. JointlySettled(a, b, orders') /\ DOMAIN orders' = DOMAIN orders
    BY <1>6, JointShape, CoZkSameOrders
  <2>3. SettlingKept(orders, orders', {}) /\ NoneStarts(orders, orders')
    BY <1>1, <2>2, JointLegs, JointStartsNone
  <2>4. QED
    BY <1>2, <2>1, <2>3
<1>7. CASE JointSettle
  BY <1>6, <1>7, CoZkNeverFails DEF JointSettle
<1>8. QED
  <2>1. \/ NextBlock \/ LedgerStep \/ UNCHANGED vars
        \/ \E o \in DOMAIN orders : RegisterSettleAddr(o)
        => orders' = orders /\ settleSubs' = settleSubs
    BY DEF NextBlock, LedgerStep, RegisterSettleAddr, book, vars
  <2>2. QED
    BY <1>3, <1>4, <1>5, <1>7, <2>1 DEF Next

\* Everything the book promises of its pairs and rows while wallets draw new blindings.
BookSound ==
  /\ TypeOK
  /\ AllBacked(cash, orders)
  /\ Symmetric(orders)
  /\ AllWorthy(orders)
  /\ MarkRight(orders)
  /\ LegsRight(settleSubs, orders)

\* It is an inductive invariant.
LEMMA BookStaysSound ==
  ASSUME FreshOutputs
  PROVE  /\ Init => BookSound
         /\ BookSound /\ [Next]_vars => BookSound'
<1>1. Init => BookSound
  BY InitTyped, InitBacked
  DEF Init, BookSound, Symmetric, PairedIn, AllWorthy, MarkRight, LegsRight
<1>2. BookSound /\ [Next]_vars => AllWorthy(orders')
  BY NextEvolves DEF BookSound, AllWorthy, AllEvolve, Evolves
<1>3. BookSound /\ [Next]_vars => BookSound'
  BY <1>2, NextTyped, NextBacked, NextSymmetric, NextLegs DEF BookSound
<1>4. QED
  BY <1>1, <1>3

\* A leg is stored unverified, for the counterparty that is still to answer; when it does, the
\* leg is still for that very pair, at its execution price and quantity, and within its means.
THEOREM StoredLegsStayCurrent ==
  ASSUME FreshOutputs
  PROVE  Spec => []StoredLegsCurrent
<1>1. BookSound => StoredLegsCurrent
  BY DEF BookSound, LegsRight, LegRight, StoredLegsCurrent
<1>2. QED
  BY <1>1, BookStaysSound, PTL DEF Spec

-----------------------------------------------------------------------------
(***************************************************************************)
(* Value.                                                                  *)
(***************************************************************************)
\* What the cash c adds to the worth of the cash in K, and to the token tk.
Part(c, K) == IF c \in K THEN c.amt ELSE 0
Value(c, tk) == IF c.token = tk THEN c.amt ELSE 0

\* One more cash adds its part.
LEMMA OneMore ==
  ASSUME NEW S, IsFiniteSet(S), S \subseteq CashId, NEW c \in CashId, c \notin S, NEW K
  PROVE  /\ IsFiniteSet(S \cup {c}) /\ S \cup {c} \subseteq CashId
         /\ Sum((S \cup {c}) \cap K) = Sum(S \cap K) + Part(c, K)
         /\ Sum(S \cap K) \in Nat /\ Part(c, K) \in Nat
<1>1. IsFiniteSet(S \cup {c}) /\ S \cup {c} \subseteq CashId
  BY FS_AddElement
<1>2. IsFiniteSet(S \cap K) /\ S \cap K \subseteq CashId /\ c \notin S \cap K
  <2>1. S \cap K \in SUBSET S
    OBVIOUS
  <2>2. QED
    BY <2>1, FS_Subset
<1>3. Sum(S \cap K) \in Nat
  BY <1>2, SumIsNat
<1>4. Part(c, K) \in Nat
  BY DEF Part, CashId
<1>5. CASE c \in K
  <2>1. (S \cup {c}) \cap K = (S \cap K) \cup {c}
    BY <1>5
  <2>2. QED
    BY <1>1, <1>2, <1>3, <1>4, <1>5, <2>1, SumAdds DEF Part
<1>6. CASE c \notin K
  <2>1. (S \cup {c}) \cap K = S \cap K
    BY <1>6
  <2>2. QED
    BY <1>1, <1>3, <1>4, <1>6, <2>1 DEF Part
<1>7. QED
  BY <1>5, <1>6

\* The cash two outputs name.
LEMMA TwoParts ==
  ASSUME NEW t, NEW s \in Seq(Outputs), Len(s) = 2, Mintable(t, s), NEW K
  PROVE  /\ s[1].id \in CashId /\ s[2].id \in CashId /\ Ids(s) \subseteq CashId
         /\ Sum(Ids(s) \cap K) = Part(s[1].id, K) + Part(s[2].id, K)
         /\ Part(s[1].id, K) \in Nat /\ Part(s[2].id, K) \in Nat
<1>1. s[1] \in Outputs /\ s[2] \in Outputs
  <2>1. 1 \in 1..Len(s) /\ 2 \in 1..Len(s)
    OBVIOUS
  <2>2. \A i \in 1..Len(s) : s[i] \in Outputs
    BY ElementOfSeq
  <2>3. QED
    BY <2>1, <2>2
<1>2. s[1].id \in CashId /\ s[2].id \in CashId
  BY <1>1 DEF Outputs
<1>3. s[1].id # s[2].id
  BY DEF Mintable, MintsUpTo
<1>4. PICK c, d : c = s[1].id /\ d = s[2].id
  OBVIOUS
<1>5. PICK S : S = {} \cup {c}
  OBVIOUS
<1>6. Ids(s) = S \cup {d}
  BY <1>4, <1>5 DEF Ids
<1>7. /\ IsFiniteSet(S) /\ S \subseteq CashId
      /\ Sum(S \cap K) = Sum({} \cap K) + Part(c, K) /\ Part(c, K) \in Nat
  BY <1>2, <1>4, <1>5, FS_EmptySet, OneMore
<1>8. /\ S \cup {d} \subseteq CashId
      /\ Sum((S \cup {d}) \cap K) = Sum(S \cap K) + Part(d, K) /\ Part(d, K) \in Nat
  <2>1. d \in CashId /\ d \notin S
    BY <1>2, <1>3, <1>4, <1>5
  <2>2. QED
    BY <1>7, <2>1, OneMore
<1>9. Sum({} \cap K) = 0
  <2>1. {} \cap K = {}
    OBVIOUS
  <2>2. QED
    BY <2>1, SumOfNone
<1>10. QED
  BY <1>2, <1>4, <1>6, <1>7, <1>8, <1>9

\* The cash three outputs name.
LEMMA ThreeParts ==
  ASSUME NEW t, NEW s \in Seq(Outputs), Len(s) = 3, Mintable(t, s), NEW K
  PROVE  /\ s[1].id \in CashId /\ s[2].id \in CashId /\ s[3].id \in CashId
         /\ Ids(s) \subseteq CashId
         /\ Sum(Ids(s) \cap K) = Part(s[1].id, K) + Part(s[2].id, K) + Part(s[3].id, K)
         /\ Part(s[1].id, K) \in Nat /\ Part(s[2].id, K) \in Nat /\ Part(s[3].id, K) \in Nat
<1>1. s[1] \in Outputs /\ s[2] \in Outputs /\ s[3] \in Outputs
  <2>1. 1 \in 1..Len(s) /\ 2 \in 1..Len(s) /\ 3 \in 1..Len(s)
    OBVIOUS
  <2>2. \A i \in 1..Len(s) : s[i] \in Outputs
    BY ElementOfSeq
  <2>3. QED
    BY <2>1, <2>2
<1>2. s[1].id \in CashId /\ s[2].id \in CashId /\ s[3].id \in CashId
  BY <1>1 DEF Outputs
<1>3. s[1].id # s[2].id /\ s[1].id # s[3].id /\ s[2].id # s[3].id
  <2>1. \A j \in 1..(2 - 1) : s[j].id # s[2].id
    BY DEF Mintable, MintsUpTo
  <2>2. \A j \in 1..(3 - 1) : s[j].id # s[3].id
    BY DEF Mintable, MintsUpTo
  <2>3. QED
    BY <2>1, <2>2
<1>4. Ids(s) = (({} \cup {s[1].id}) \cup {s[2].id}) \cup {s[3].id}
  <2>1. 1..Len(s) = {1, 2, 3}
    OBVIOUS
  <2>2. QED
    BY <2>1 DEF Ids
<1>5. PICK c, d, e : c = s[1].id /\ d = s[2].id /\ e = s[3].id
  OBVIOUS
<1>6. PICK S : S = {} \cup {c}
  OBVIOUS
<1>7. PICK T : T = S \cup {d}
  OBVIOUS
<1>8. /\ IsFiniteSet(S) /\ S \subseteq CashId
      /\ Sum(S \cap K) = Sum({} \cap K) + Part(c, K) /\ Part(c, K) \in Nat
  BY <1>2, <1>5, <1>6, FS_EmptySet, OneMore
<1>9. /\ IsFiniteSet(T) /\ T \subseteq CashId
      /\ Sum(T \cap K) = Sum(S \cap K) + Part(d, K) /\ Part(d, K) \in Nat
  <2>1. d \in CashId /\ d \notin S
    BY <1>2, <1>3, <1>5, <1>6
  <2>2. QED
    BY <1>7, <1>8, <2>1, OneMore
<1>10. /\ T \cup {e} \subseteq CashId
       /\ Sum((T \cup {e}) \cap K) = Sum(T \cap K) + Part(e, K) /\ Part(e, K) \in Nat
  <2>1. e \in CashId /\ e \notin T
    BY <1>2, <1>3, <1>5, <1>6, <1>7
  <2>2. QED
    BY <1>9, <2>1, OneMore
<1>11. Sum({} \cap K) = 0
  <2>1. {} \cap K = {}
    OBVIOUS
  <2>2. QED
    BY <2>1, SumOfNone
<1>12. Ids(s) = T \cup {e}
  BY <1>4, <1>5, <1>6, <1>7
<1>13. QED
  BY <1>2, <1>5, <1>8, <1>9, <1>10, <1>11, <1>12

\* All cash of the token tk.
CashOf(tk) == {c \in CashId : c.token = tk}

\* The part of a token is the value of the cash.
LEMMA TokenParts ==
  ASSUME NEW tk
  PROVE  /\ \A S : S \subseteq CashId => OfToken(S, tk) = S \cap CashOf(tk)
         /\ \A c \in CashId : Value(c, tk) = Part(c, CashOf(tk))
  BY DEF OfToken, CashOf, Value, Part

\* What two or three outputs add to a token.
LEMMA TwoIds ==
  ASSUME NEW t, NEW s \in Seq(Outputs), Len(s) = 2, Mintable(t, s), NEW tk
  PROVE  /\ Sum(OfToken(Ids(s), tk)) = Value(s[1].id, tk) + Value(s[2].id, tk)
         /\ Value(s[1].id, tk) \in Nat /\ Value(s[2].id, tk) \in Nat
<1>1. PICK K : K = CashOf(tk)
  OBVIOUS
<1>2. /\ s[1].id \in CashId /\ s[2].id \in CashId /\ Ids(s) \subseteq CashId
      /\ Sum(Ids(s) \cap K) = Part(s[1].id, K) + Part(s[2].id, K)
      /\ Part(s[1].id, K) \in Nat /\ Part(s[2].id, K) \in Nat
  BY TwoParts
<1>3. QED
  BY <1>1, <1>2, TokenParts

LEMMA ThreeIds ==
  ASSUME NEW t, NEW s \in Seq(Outputs), Len(s) = 3, Mintable(t, s), NEW tk
  PROVE  /\ Sum(OfToken(Ids(s), tk))
              = Value(s[1].id, tk) + Value(s[2].id, tk) + Value(s[3].id, tk)
         /\ Value(s[1].id, tk) \in Nat /\ Value(s[2].id, tk) \in Nat
         /\ Value(s[3].id, tk) \in Nat
<1>1. PICK K : K = CashOf(tk)
  OBVIOUS
<1>2. /\ s[1].id \in CashId /\ s[2].id \in CashId /\ s[3].id \in CashId /\ Ids(s) \subseteq CashId
      /\ Sum(Ids(s) \cap K) = Part(s[1].id, K) + Part(s[2].id, K) + Part(s[3].id, K)
      /\ Part(s[1].id, K) \in Nat /\ Part(s[2].id, K) \in Nat /\ Part(s[3].id, K) \in Nat
  BY ThreeParts
<1>3. QED
  BY <1>1, <1>2, TokenParts

\* Spending cs and minting outs.
LEMMA SpendAndMintWorth ==
  ASSUME FiniteTable(cash), NEW cs, cs \subseteq Unspent(cash), NEW os,
         NEW outs \in Seq(Outputs), NEW spent, spent = SpendCash(cash, cs, os),
         Mintable(spent, outs), \A i \in 1..Len(outs) : outs[i].row.status # "Spent",
         cash' = Mint(spent, outs)
  PROVE  /\ FiniteTable(cash')
         /\ \A tk : /\ Worth(cash, tk) \in Nat /\ Sum(OfToken(cs, tk)) \in Nat
                    /\ Worth(cash', tk) = Worth(cash, tk) - Sum(OfToken(cs, tk))
                                            + Sum(OfToken(Ids(outs), tk))
<1>1. FiniteTable(spent)
  BY SpendKeeps DEF FiniteTable, Spendable
<1>2. \A tk : Worth(spent, tk) = Worth(cash, tk) - Sum(OfToken(cs, tk))
  BY SpendWorth
<1>3. /\ FiniteTable(cash')
      /\ \A tk : Worth(cash', tk) = Worth(spent, tk) + Sum(OfToken(Ids(outs), tk))
  BY <1>1, MintWorth
<1>4. \A tk : OfToken(Unspent(cash), tk) \in SUBSET (DOMAIN cash) /\ OfToken(cs, tk) \in SUBSET (DOMAIN cash)
  BY DEF OfToken, Unspent
<1>5. \A tk : Worth(cash, tk) \in Nat /\ Sum(OfToken(cs, tk)) \in Nat
  BY <1>4, TableSum DEF Worth
<1>6. QED
  BY <1>2, <1>3, <1>5

\* A set of cash of one token.
LEMMA OneToken ==
  ASSUME NEW cs, NEW token, \A c \in cs : c.token = token, NEW tk
  PROVE  Sum(OfToken(cs, tk)) = IF tk = token THEN Sum(cs) ELSE 0
<1>1. OfToken(cs, tk) = IF tk = token THEN cs ELSE {}
  BY DEF OfToken
<1>2. QED
  BY <1>1, SumOfNone

\* What a pair of live orders locks.
LEMMA PairWorth ==
  ASSUME NEW a \in LiveIn(orders), NEW b \in LiveIn(orders), a # b, FiniteTable(cash),
         AllBacked(cash, orders), NEW tk
  PROVE  /\ Sum(orders[a].inputs) \in Nat /\ Sum(orders[b].inputs) \in Nat
         /\ Sum(OfToken(orders[a].inputs \cup orders[b].inputs, tk))
              = (IF tk = LockToken(orders[a]) THEN Sum(orders[a].inputs) ELSE 0)
                + (IF tk = LockToken(orders[b]) THEN Sum(orders[b].inputs) ELSE 0)
<1> DEFINE A == orders[a].inputs
           B == orders[b].inputs
<1>1. /\ A \in SUBSET (DOMAIN cash) /\ B \in SUBSET (DOMAIN cash)
      /\ \A c \in A : cash[c] = LockedRow(a) /\ c.token = LockToken(orders[a])
      /\ \A c \in B : cash[c] = LockedRow(b) /\ c.token = LockToken(orders[b])
  BY DEF AllBacked, BackedBy
<1>2. A \cap B = {}
  BY <1>1, LockNamesOrder
<1> HIDE DEF A, B
<1>3. /\ OfToken(A, tk) \in SUBSET (DOMAIN cash) /\ OfToken(B, tk) \in SUBSET (DOMAIN cash)
      /\ OfToken(A \cup B, tk) = OfToken(A, tk) \cup OfToken(B, tk)
      /\ OfToken(A, tk) \cap OfToken(B, tk) = {}
  BY <1>1, <1>2 DEF OfToken
<1>4. Sum(OfToken(A \cup B, tk)) = Sum(OfToken(A, tk)) + Sum(OfToken(B, tk))
  <2>1. /\ IsFiniteSet(OfToken(A, tk)) /\ OfToken(A, tk) \subseteq CashId
        /\ IsFiniteSet(OfToken(B, tk)) /\ OfToken(B, tk) \subseteq CashId
    BY <1>3, TableSum
  <2>2. QED
    BY <1>3, <2>1, SumOfUnion
<1>5. /\ Sum(OfToken(A, tk)) = IF tk = LockToken(orders[a]) THEN Sum(A) ELSE 0
      /\ Sum(OfToken(B, tk)) = IF tk = LockToken(orders[b]) THEN Sum(B) ELSE 0
  BY <1>1, OneToken
<1>6. Sum(A) \in Nat /\ Sum(B) \in Nat
  BY <1>1, TableSum
<1>7. QED
  BY <1>4, <1>5, <1>6 DEF A, B

\* A step that mints no more than it spends.
NotInflated ==
  /\ FiniteTable(cash')
  /\ \A tk \in Token : Worth(cash', tk) + issued[tk] <= Worth(cash, tk) + issued'[tk]

\* Locking Active cash leaves it in circulation.
LEMMA SendOrderWorth ==
  ASSUME NEW ins \in RequestInputs, NEW pair, NEW side, NEW price, NEW fee, NEW qty,
         TypeOK, FiniteTable(cash),
         SendOrder(OwnerOf(ins), pair, side, price, fee, qty, ins)
  PROVE  NotInflated
<1>1. /\ ins \subseteq ActiveCash(cash) /\ cash' = LockCash(cash, ins, ins) /\ issued' = issued
  BY DEF SendOrder, ValidInputs, Inserted
<1>2. DOMAIN cash' = DOMAIN cash /\ Unspent(cash') = Unspent(cash)
  BY <1>1 DEF LockCash, LockedRow, Unspent, ActiveCash
<1>3. FiniteTable(cash') /\ \A tk : Worth(cash', tk) = Worth(cash, tk)
  BY <1>2 DEF FiniteTable, Worth
<1>4. \A tk : OfToken(Unspent(cash), tk) \in SUBSET (DOMAIN cash)
  BY DEF OfToken, Unspent
<1>5. ASSUME NEW tk \in Token
      PROVE  Worth(cash', tk) + issued[tk] <= Worth(cash, tk) + issued'[tk]
  <2>1. Worth(cash, tk) \in Nat /\ issued[tk] \in Int
    BY <1>4, TableSum, TypeOKParts DEF Worth
  <2>2. QED
    BY <1>1, <1>3, <2>1
<1>6. QED
  BY <1>3, <1>5 DEF NotInflated

\* A split mints the locked cash and the change for inputs worth both.
LEMMA SplitWorth ==
  ASSUME NEW ins \in RequestInputs, NEW pair \in Pair, NEW side \in Side, NEW price \in Price,
         NEW fee \in Fee, NEW qty \in Quantity, FreshOutputs, TypeOK, FiniteTable(cash),
         SendOrderSplit(OwnerOf(ins), pair, side, price, fee, qty, ins)
  PROVE  NotInflated
<1> DEFINE owner == OwnerOf(ins)
           token == IF side = "Buy" THEN pair[2] ELSE pair[1]
           locked == Pays(side, qty, price)
           change == Sum(ins) - locked
           spent == SpendCash(cash, ins, {ins})
           outs(rl, rc) == SplitOutputs(owner, token, ins, locked, change, rl, rc)
           new(in) == NewOrder(owner, pair, side, price, fee, qty, in)
<1>1. /\ ins \in OrderId /\ owner \in Trader /\ token \in Token
      /\ ins \subseteq Unspent(cash) /\ \A c \in ins : c.token = token
  <2>1. ValidInputs(ins, OwnerOf(ins), token) /\ Spendable(cash, ins)
    BY DEF SendOrderSplit
  <2> HIDE DEF token
  <2>2. QED
    BY <2>1, InputsAreOrderId, TypeOKParts DEF ValidInputs, Spendable
<1>2. locked \in Nat \ {0} /\ change \in Nat \ {0}
  BY Trades, NumbersAssumption DEF SendOrderSplit
<1>3. PICK rl \in Blinding, rc \in Blinding :
        /\ WalletMayName(outs(rl, rc))
        /\ \/ /\ Mintable(spent, outs(rl, rc))
              /\ cash' = Mint(spent, outs(rl, rc))
              /\ Inserted(ins, new({outs(rl, rc)[1].id}))
           \/ MintFails(spent, outs(rl, rc), cash')
  BY Zenon DEF SendOrderSplit
<1>4. PICK s : s = outs(rl, rc)
  OBVIOUS
<1>5. s \in Seq(Outputs) /\ Len(s) = 2
  <2>1. outs(rl, rc) \in Seq(Outputs) /\ Len(outs(rl, rc)) = 2
    <3> HIDE DEF owner, token, locked, change
    <3>1. ins \in OrderId /\ owner \in Trader /\ token \in Token
      BY <1>1
    <3>2. QED
      BY <1>2, <3>1, SplitOutputsTyped
  <2>2. QED
    BY <1>4, <2>1
<1>6. /\ s[1].id.token = token /\ s[1].id.amt = locked /\ s[1].row = LockedRow(ins)
      /\ s[2].id.token = token /\ s[2].id.amt = change /\ s[2].row = ActiveRow
  BY <1>4 DEF SplitOutputs, Output, Cash
<1> HIDE DEF outs, new, token, locked
<1>7. Mintable(spent, s) /\ cash' = Mint(spent, s) /\ issued' = issued
  <2>1. DOMAIN spent = DOMAIN cash /\ Len(s) \in Nat
    BY <1>5 DEF SpendCash
  <2> HIDE DEF spent
  <2>2. WalletMayName(s)
    BY <1>3, <1>4
  <2>3. Mintable(spent, s) /\ ~MintFails(spent, s, cash')
    BY <2>1, <2>2, FreshNeverFails, Zenon
  <2>4. QED
    BY <1>3, <1>4, <2>3 DEF Inserted
<1>8. \A i \in 1..Len(s) : s[i].row.status # "Spent"
  BY <1>5, <1>6 DEF LockedRow, ActiveRow
<1>9. Sum(ins) = locked + change /\ Sum(ins) \in Nat
  <2>1. Sum(ins) \in Nat
    BY <1>1, TableSum DEF Unspent
  <2>2. QED
    BY <1>2, <2>1
<1> HIDE DEF change
<1>10. /\ FiniteTable(cash')
       /\ \A tk : /\ Worth(cash, tk) \in Nat
                  /\ Worth(cash', tk) = Worth(cash, tk) - Sum(OfToken(ins, tk))
                                          + Sum(OfToken(Ids(s), tk))
  BY <1>1, <1>5, <1>7, <1>8, SpendAndMintWorth
<1> HIDE DEF spent
<1>11. ASSUME NEW tk \in Token
       PROVE  Worth(cash', tk) + issued[tk] <= Worth(cash, tk) + issued'[tk]
  <2>1. Worth(cash, tk) \in Nat /\ issued[tk] \in Int
    BY <1>10, TypeOKParts
  <2>2. Sum(OfToken(ins, tk)) = IF tk = token THEN Sum(ins) ELSE 0
    BY <1>1, OneToken
  <2>3. Sum(OfToken(Ids(s), tk)) = Value(s[1].id, tk) + Value(s[2].id, tk)
    BY <1>5, <1>7, TwoIds
  <2>4. Sum(OfToken(Ids(s), tk)) = IF tk = token THEN locked + change ELSE 0
    BY <1>6, <2>3 DEF Value
  <2>5. Worth(cash', tk) = Worth(cash, tk)
    BY <1>2, <1>9, <1>10, <2>1, <2>2, <2>4
  <2>6. QED
    BY <1>7, <2>1, <2>5
<1>12. QED
  BY <1>10, <1>11 DEF NotInflated

\* The outputs of a leg are well formed, and none is minted Spent.
LEMMA LegRows ==
  ASSUME NEW x \in Order, NEW y \in Order, NEW leg \in Leg, LegChange(x, leg) \in Nat,
         NEW s, s = LegOutputs(x, y, leg)
  PROVE  s \in Seq(Outputs) /\ \A i \in 1..Len(s) : s[i].row.status # "Spent"
<1> DEFINE pay == Output(Cash(y.owner, LockToken(x), Pays(x.side, leg.fill, leg.price), leg.recv),
                         ActiveRow)
           back == Output(Cash(x.owner, LockToken(x), LegChange(x, leg), leg.change), ActiveRow)
           get == Output(Cash(x.owner, LockToken(y), Gets(x.side, leg.fill, leg.price), leg.other),
                         ActiveRow)
<1>1. s = <<pay, get>> \/ s = <<pay, back, get>>
  BY DEF LegOutputs
<1>2. pay.row = ActiveRow /\ back.row = ActiveRow /\ get.row = ActiveRow
  BY DEF Output
<1> HIDE DEF pay, back, get
<1>3. \A i \in 1..Len(s) : s[i].row = ActiveRow
  <2>1. \A i : i \in 1..2 \/ i \in 1..3 => i = 1 \/ i = 2 \/ i = 3
    OBVIOUS
  <2>2. CASE s = <<pay, get>>
    BY <1>2, <2>1, <2>2
  <2>3. CASE s = <<pay, back, get>>
    BY <1>2, <2>1, <2>3
  <2>4. QED
    BY <1>1, <2>2, <2>3
<1>4. QED
  BY <1>3, LegOutputsTyped DEF ActiveRow

\* What the outputs of a leg are worth: what the larger party pays, its change, and what it gets.
LEMMA LegWorth ==
  ASSUME NEW x \in Order, NEW y \in Order, NEW leg \in Leg, LegChange(x, leg) \in Nat,
         NEW t, NEW s, s = LegOutputs(x, y, leg), Mintable(t, s), NEW tk
  PROVE  Sum(OfToken(Ids(s), tk))
              = (IF tk = LockToken(x) THEN Pays(x.side, leg.fill, leg.price) + LegChange(x, leg) ELSE 0)
                + (IF tk = LockToken(y) THEN Gets(x.side, leg.fill, leg.price) ELSE 0)
<1> DEFINE pays == Pays(x.side, leg.fill, leg.price)
           gets == Gets(x.side, leg.fill, leg.price)
           change == LegChange(x, leg)
           pay == Output(Cash(y.owner, LockToken(x), pays, leg.recv), ActiveRow)
           back == Output(Cash(x.owner, LockToken(x), change, leg.change), ActiveRow)
           get == Output(Cash(x.owner, LockToken(y), gets, leg.other), ActiveRow)
<1>1. s \in Seq(Outputs)
  BY LegOutputsTyped
<1>2. s = IF change = 0 THEN <<pay, get>> ELSE <<pay, back, get>>
  BY DEF LegOutputs
<1>3. /\ pay.id.token = LockToken(x) /\ pay.id.amt = pays
      /\ back.id.token = LockToken(x) /\ back.id.amt = change
      /\ get.id.token = LockToken(y) /\ get.id.amt = gets
  BY DEF Output, Cash
<1>4. pays \in Nat /\ gets \in Nat /\ change \in Nat
  <2>1. leg.fill \in Nat \ {0} /\ leg.price \in Nat \ {0}
    BY NumbersAssumption DEF Leg
  <2>2. QED
    BY <2>1, Trades
<1> HIDE DEF pay, back, get, pays, gets, change
<1>5. /\ Value(pay.id, tk) = IF tk = LockToken(x) THEN pays ELSE 0
      /\ Value(back.id, tk) = IF tk = LockToken(x) THEN change ELSE 0
      /\ Value(get.id, tk) = IF tk = LockToken(y) THEN gets ELSE 0
  BY <1>3 DEF Value
<1>6. CASE change = 0
  <2>1. Len(s) = 2 /\ s[1] = pay /\ s[2] = get
    BY <1>2, <1>6
  <2>2. Sum(OfToken(Ids(s), tk)) = Value(pay.id, tk) + Value(get.id, tk)
    <3>1. Sum(OfToken(Ids(s), tk)) = Value(s[1].id, tk) + Value(s[2].id, tk)
      BY <1>1, <2>1, TwoIds
    <3>2. QED
      BY <2>1, <3>1
  <2>3. Sum(OfToken(Ids(s), tk)) = (IF tk = LockToken(x) THEN pays + change ELSE 0)
                                     + (IF tk = LockToken(y) THEN gets ELSE 0)
    BY <1>4, <1>5, <1>6, <2>2
  <2>4. QED
    BY <2>3 DEF pays, gets, change
<1>7. CASE change # 0
  <2>1. Len(s) = 3 /\ s[1] = pay /\ s[2] = back /\ s[3] = get
    BY <1>2, <1>7
  <2>2. Sum(OfToken(Ids(s), tk)) = Value(pay.id, tk) + Value(back.id, tk) + Value(get.id, tk)
    <3>1. Sum(OfToken(Ids(s), tk)) = Value(s[1].id, tk) + Value(s[2].id, tk) + Value(s[3].id, tk)
      BY <1>1, <2>1, ThreeIds
    <3>2. QED
      BY <2>1, <3>1
  <2>3. Sum(OfToken(Ids(s), tk)) = (IF tk = LockToken(x) THEN pays + change ELSE 0)
                                     + (IF tk = LockToken(y) THEN gets ELSE 0)
    BY <1>4, <1>5, <2>2
  <2>4. QED
    BY <2>3 DEF pays, gets, change
<1>8. QED
  BY <1>6, <1>7

\* The terms on which two orders may be paired.
Dealt(x, y) == x.side # y.side /\ x.pair = y.pair /\ Compatible(x, y)

\* The leg a settlement uses, stored or in the request: for the quantity of the smaller order,
\* within the means of both.
LEMMA LegIsCovered ==
  ASSUME NEW a \in DOMAIN orders, NEW b \in DOMAIN orders, NEW leg \in WalletLegs(a, b),
         BookSound, SettleVerified(a, b, leg),
         NEW x, x = orders[LargerOf(a, b)], NEW y, y = orders[SmallerOf(a, b)],
         NEW theLeg, theLeg = LegOf(a, b, leg)
  PROVE  /\ x \in Order /\ y \in Order /\ theLeg \in Leg
         /\ Dealt(x, y) /\ Worthy(y) /\ y.qty <= x.qty
         /\ theLeg.fill = y.qty /\ theLeg.price = ExecutionPrice(x, y)
         /\ LegChange(x, theLeg) \in Nat
         /\ Pays(x.side, theLeg.fill, theLeg.price) \in Nat
         /\ Gets(x.side, theLeg.fill, theLeg.price) \in Nat
         /\ Gets(x.side, theLeg.fill, theLeg.price) <= Sum(y.inputs)
<1>1. /\ TypeOK /\ Symmetric(orders) /\ AllWorthy(orders) /\ MarkRight(orders)
      /\ LegsRight(settleSubs, orders)
  BY DEF BookSound
<1>2. /\ MutuallyMatched(a, b, "Settling") /\ (orders[a].smaller <=> leg = NoLeg)
      /\ b \in DOMAIN settleSubs /\ theLeg # NoLeg
      /\ theLeg.price = ExecutionPrice(x, y) /\ LegChange(x, theLeg) \in Nat
  BY DEF SettleVerified, SettleRequest
<1>3. /\ orders[a].status = "Settling" /\ orders[a].match = b
      /\ orders[b].status = "Settling" /\ orders[b].match = a
  BY <1>2 DEF MutuallyMatched
<1>4. /\ PairOf(orders, a, b) /\ PairOf(orders, b, a)
      /\ orders[a] \in Order /\ orders[b] \in Order
  BY <1>1, <1>3, TypeOKParts DEF Symmetric, PairedIn, TypedOrders
<1>5. theLeg \in Leg
  BY <1>1, <1>2, WalletLegsTyped, TypeOKParts DEF LegOf, TypedRows
<1>6. /\ x \in Order /\ y \in Order /\ x.side # y.side /\ x.pair = y.pair /\ Compatible(x, y)
      /\ Worthy(x) /\ Worthy(y) /\ theLeg.fill = y.qty /\ y.qty <= x.qty
  <2>1. CASE orders[a].smaller
    <3>1. x = orders[b] /\ y = orders[a] /\ theLeg = settleSubs[b].leg
      BY <2>1 DEF LargerOf, SmallerOf, LegOf
    <3>2. ~orders[b].smaller
      BY <1>3, <1>4, <2>1 DEF PairOf
    <3>3. theLeg.fill = y.qty
      BY <1>1, <1>2, <1>3, <3>1 DEF LegsRight, LegRight
    <3>4. y.qty <= x.qty
      BY <1>1, <1>3, <3>1, <3>2 DEF MarkRight
    <3>5. QED
      BY <1>1, <1>4, <3>1, <3>3, <3>4 DEF PairOf, AllWorthy
  <2>2. CASE ~orders[a].smaller
    <3>1. x = orders[a] /\ y = orders[b] /\ theLeg = leg
      BY <2>2 DEF LargerOf, SmallerOf, LegOf
    <3>2. theLeg.fill = y.qty
      BY <2>2, <3>1 DEF WalletLegs
    <3>3. y.qty <= x.qty
      BY <1>1, <1>3, <2>2, <3>1 DEF MarkRight
    <3>4. QED
      BY <1>1, <1>4, <3>1, <3>2, <3>3 DEF PairOf, AllWorthy
  <2>3. QED
    BY <2>1, <2>2
<1>7. Gets(x.side, y.qty, theLeg.price) <= Sum(y.inputs)
  BY <1>2, <1>6, FillIsCovered
<1>8. theLeg.fill \in Nat \ {0} /\ theLeg.price \in Nat \ {0}
  BY <1>5, NumbersAssumption DEF Leg
<1>9. QED
  BY <1>2, <1>5, <1>6, <1>7, <1>8, Trades DEF Dealt

\* A legacy settlement mints what the larger order's cash is worth, and no more than the smaller
\* order's for the rest.
LEMMA SettleWorth ==
  ASSUME NEW a \in DOMAIN orders, NEW b \in DOMAIN orders, NEW leg \in WalletLegs(a, b),
         BookSound, FiniteTable(cash), SettleOrders(a, b, leg)
  PROVE  NotInflated
<1>1. PICK x, y, theLeg, s : /\ x = orders[LargerOf(a, b)] /\ y = orders[SmallerOf(a, b)]
                             /\ theLeg = LegOf(a, b, leg) /\ s = LegOutputs(x, y, theLeg)
  OBVIOUS
<1>2. /\ SettleVerified(a, b, leg) /\ MutuallyMatched(a, b, "Settling")
      /\ Mintable(PairSpent(a, b), s) /\ cash' = Mint(PairSpent(a, b), s) /\ issued' = issued
  <2>1. s = SettledOutputs(a, b, leg)
    BY <1>1 DEF SettledOutputs
  <2>2. /\ SettleVerified(a, b, leg) /\ issued' = issued
        /\ Mintable(PairSpent(a, b), SettledOutputs(a, b, leg))
        /\ cash' = Mint(PairSpent(a, b), SettledOutputs(a, b, leg))
    BY Zenon DEF SettleOrders
  <2>3. MutuallyMatched(a, b, "Settling")
    BY <2>2 DEF SettleVerified, SettleRequest
  <2>4. QED
    BY <2>1, <2>2, <2>3
<1>3. /\ a \in LiveIn(orders) /\ b \in LiveIn(orders) /\ a # b
  BY <1>2 DEF BookSound, MutuallyMatched, LiveIn, Symmetric, PairedIn, PairOf
<1>4. /\ x \in Order /\ y \in Order /\ theLeg \in Leg
      /\ LegChange(x, theLeg) \in Nat
      /\ Pays(x.side, theLeg.fill, theLeg.price) \in Nat
      /\ Gets(x.side, theLeg.fill, theLeg.price) \in Nat
      /\ Gets(x.side, theLeg.fill, theLeg.price) <= Sum(y.inputs)
  BY <1>1, <1>2, LegIsCovered
<1>5. orders[a].inputs \cup orders[b].inputs \subseteq Unspent(cash)
  BY <1>1, <1>2 DEF SettleVerified, Spendable, LargerOf, SmallerOf
<1>6. /\ s \in Seq(Outputs) /\ \A i \in 1..Len(s) : s[i].row.status # "Spent"
  BY <1>1, <1>4, LegRows
<1>7. PICK paid : paid = orders[a].inputs \cup orders[b].inputs
  OBVIOUS
<1>8. /\ FiniteTable(cash')
      /\ \A tk : /\ Worth(cash, tk) \in Nat
                 /\ Worth(cash', tk) = Worth(cash, tk) - Sum(OfToken(paid, tk))
                                         + Sum(OfToken(Ids(s), tk))
  BY <1>2, <1>5, <1>6, <1>7, SpendAndMintWorth DEF PairSpent
<1>9. ASSUME NEW tk \in Token
      PROVE  Worth(cash', tk) + issued[tk] <= Worth(cash, tk) + issued'[tk]
  <2>1. PICK pays, gets, change, inX, inY :
          /\ pays = Pays(x.side, theLeg.fill, theLeg.price)
          /\ gets = Gets(x.side, theLeg.fill, theLeg.price)
          /\ change = LegChange(x, theLeg) /\ inX = Sum(x.inputs) /\ inY = Sum(y.inputs)
    OBVIOUS
  <2>2. /\ Sum(orders[a].inputs) \in Nat /\ Sum(orders[b].inputs) \in Nat
        /\ Sum(OfToken(paid, tk))
             = (IF tk = LockToken(orders[a]) THEN Sum(orders[a].inputs) ELSE 0)
               + (IF tk = LockToken(orders[b]) THEN Sum(orders[b].inputs) ELSE 0)
    BY <1>3, <1>7, PairWorth DEF BookSound
  <2>3. /\ inX \in Nat /\ inY \in Nat
        /\ Sum(OfToken(paid, tk)) = (IF tk = LockToken(x) THEN inX ELSE 0)
                                      + (IF tk = LockToken(y) THEN inY ELSE 0)
    BY <1>1, <2>1, <2>2 DEF LargerOf, SmallerOf
  <2>4. inX = pays + change /\ pays \in Nat /\ gets \in Nat /\ change \in Nat /\ gets <= inY
    BY <1>4, <2>1, <2>3 DEF LegChange
  <2>5. Sum(OfToken(Ids(s), tk)) = (IF tk = LockToken(x) THEN pays + change ELSE 0)
                                     + (IF tk = LockToken(y) THEN gets ELSE 0)
    BY <1>1, <1>2, <1>4, <2>1, LegWorth
  <2>6. PICK out, in, w, n : /\ out = Sum(OfToken(Ids(s), tk)) /\ in = Sum(OfToken(paid, tk))
                             /\ w = Worth(cash, tk) /\ n = issued[tk]
    OBVIOUS
  <2>7. in \in Nat /\ out \in Nat /\ out <= in
    BY <2>3, <2>4, <2>5, <2>6
  <2>8. w \in Nat /\ n \in Int /\ Worth(cash', tk) = w - in + out /\ issued'[tk] = n
    BY <1>2, <1>8, <2>6, TypeOKParts DEF BookSound
  <2>9. QED
    BY <2>6, <2>7, <2>8
<1>10. QED
  BY <1>8, <1>9 DEF NotInflated

\* What an order pays for a quantity, it pays for its parts.
LEMMA PaysInParts ==
  ASSUME NEW side, NEW qty \in Nat, NEW fill \in Nat, NEW price \in Nat, qty - fill \in Nat
  PROVE  Pays(side, qty, price) = Pays(side, fill, price) + Pays(side, qty - fill, price)
<1>1. PICK rest \in Nat : rest = qty - fill
  OBVIOUS
<1>2. qty = fill + rest
  BY <1>1
<1>3. (fill + rest) * price = fill * price + rest * price
  OBVIOUS
<1>4. QED
  BY <1>1, <1>2, <1>3 DEF Pays

\* What one side gets, the other pays.
LEMMA GetsIsPaid ==
  ASSUME NEW x \in Order, NEW y \in Order, x.side # y.side, x.pair = y.pair,
         NEW qty, NEW price
  PROVE  Gets(x.side, qty, price) = Pays(y.side, qty, price) /\ RecvToken(x) = LockToken(y)
<1>1. x.side \in Side /\ y.side \in Side
  BY OrderFields
<1>2. QED
  BY <1>1 DEF Side, Gets, Pays, RecvToken, LockToken

\* The elements of the outputs s of a joint settlement.
JointOutputsAre(s, a, b, ra, rb) ==
  /\ s[1] = RecvOutput(orders[a], CoZkFill(a, b), ExecutionPrice(orders[a], orders[b]), ra)
  /\ s[2] = RecvOutput(orders[b], CoZkFill(a, b), ExecutionPrice(orders[a], orders[b]), rb)
  /\ Survivors(a, b) = {} => Len(s) = 2

\* They are what the two owners receive, and nothing else when nothing remains.
LEMMA JointOutputs ==
  ASSUME NEW a \in DOMAIN orders, NEW b \in DOMAIN orders, TypedOrders(orders),
         NEW ra \in Blinding, NEW rb \in Blinding, NEW rest \in Blinding
  PROVE  JointOutputsAre(RecvOutputs(a, b, ra, rb) \o RemainderOutputs(a, b, rest), a, b, ra, rb)
<1>0. PICK s : s = RecvOutputs(a, b, ra, rb) \o RemainderOutputs(a, b, rest)
  OBVIOUS
<1>1. PICK recvs, rems : recvs = RecvOutputs(a, b, ra, rb) /\ rems = RemainderOutputs(a, b, rest)
  OBVIOUS
<1>2. recvs \in Seq(Outputs) /\ Len(recvs) = 2 /\ rems \in Seq(Outputs)
      /\ (Survivors(a, b) = {} => Len(rems) = 0) /\ Len(rems) \in Nat
  BY <1>1, RecvTyped, RemainderTyped, LenProperties
<1>3. \A i \in 1..(Len(recvs) + Len(rems)) :
        (recvs \o rems)[i] = IF i <= Len(recvs) THEN recvs[i] ELSE rems[i - Len(recvs)]
  BY <1>2, ConcatProperties, Zenon
<1>4. Len(recvs \o rems) = Len(recvs) + Len(rems)
  BY <1>2, ConcatProperties
<1>5. /\ 1 \in 1..(Len(recvs) + Len(rems)) /\ 1 <= Len(recvs)
      /\ 2 \in 1..(Len(recvs) + Len(rems)) /\ 2 <= Len(recvs)
  BY <1>2
<1>6. s[1] = recvs[1] /\ s[2] = recvs[2]
  BY <1>0, <1>1, <1>3, <1>5
<1>7. /\ recvs[1] = RecvOutput(orders[a], CoZkFill(a, b), ExecutionPrice(orders[a], orders[b]), ra)
      /\ recvs[2] = RecvOutput(orders[b], CoZkFill(a, b), ExecutionPrice(orders[a], orders[b]), rb)
  BY <1>1 DEF RecvOutputs
<1>8. QED
  BY <1>0, <1>1, <1>2, <1>4, <1>6, <1>7 DEF JointOutputsAre

\* The list s is what a joint settlement of the pair mints.
JointMinted(a, b, s) ==
  /\ s \in Seq(Outputs)
  /\ \E ra, rb \in Blinding : JointOutputsAre(s, a, b, ra, rb)
  /\ Survivors(a, b) # {} => Len(s) = 3
  /\ \A x \in Survivors(a, b) : BacksRest(s[3], a, b, x)
  /\ \A i \in 1..Len(s) : s[i].row.status # "Spent"
  /\ Mintable(PairSpent(a, b), s) /\ cash' = Mint(PairSpent(a, b), s)

\* A joint settlement spends the collateral of a pair of live orders and mints such a list.
LEMMA JointMints ==
  ASSUME NEW a \in DOMAIN orders, NEW b \in DOMAIN orders, BookSound, SettleOrdersCoZk(a, b)
  PROVE  /\ a \in LiveIn(orders) /\ b \in LiveIn(orders) /\ PairOf(orders, a, b) /\ a # b
         /\ orders[a] \in Order /\ orders[b] \in Order /\ issued' = issued
         /\ \A o \in {a, b} : BackedExactly(orders[o], ExecutionPrice(orders[a], orders[b]))
         /\ orders[a].inputs \cup orders[b].inputs \subseteq Unspent(cash)
         /\ \E s : JointMinted(a, b, s)
<1> DEFINE outs(ra, rb, rest) == RecvOutputs(a, b, ra, rb) \o RemainderOutputs(a, b, rest)
<1>1. /\ MutuallyMatched(a, b, "Matched") /\ issued' = issued
      /\ \A o \in {a, b} : BackedExactly(orders[o], ExecutionPrice(orders[a], orders[b]))
  BY Zenon DEF SettleOrdersCoZk, CoZkVerified, CoZkPair
<1>2. PICK ra \in Blinding, rb \in Blinding, rest \in Blinding :
        /\ CoZkAccepted(a, b, outs(ra, rb, rest))
        /\ Mintable(PairSpent(a, b), outs(ra, rb, rest))
        /\ cash' = Mint(PairSpent(a, b), outs(ra, rb, rest))
  BY Zenon DEF SettleOrdersCoZk
<1>3. PICK s : s = outs(ra, rb, rest)
  OBVIOUS
<1>4. TypedOrders(orders) /\ Typed(cash)
  BY TypeOKParts DEF BookSound
<1>5. /\ a \in LiveIn(orders) /\ b \in LiveIn(orders) /\ PairOf(orders, a, b) /\ a # b
      /\ orders[a] \in Order /\ orders[b] \in Order
  BY <1>1, <1>4 DEF BookSound, MutuallyMatched, LiveIn, Symmetric, PairedIn, PairOf, TypedOrders
<1>6. s \in Seq(Outputs) /\ (Survivors(a, b) # {} => Len(s) = 3)
  <2>1. s = RecvOutputs(a, b, ra, rb) \o RemainderOutputs(a, b, rest)
    BY <1>3
  <2>2. QED
    BY <1>4, <2>1, CoZkOutputsTyped
<1>7. JointOutputsAre(s, a, b, ra, rb)
  <2>1. JointOutputsAre(outs(ra, rb, rest), a, b, ra, rb)
    BY <1>4, JointOutputs
  <2>2. QED
    BY <1>3, <2>1
<1>8. \A x \in Survivors(a, b) : BacksRest(s[3], a, b, x)
  <2>1. \A x \in Survivors(a, b) : BacksRest(outs(ra, rb, rest)[3], a, b, x)
    BY <1>4, ThirdOutput
  <2>2. QED
    BY <1>3, <2>1
<1>9. Mintable(PairSpent(a, b), s) /\ cash' = Mint(PairSpent(a, b), s)
  BY <1>2, <1>3
<1>10. orders[a].inputs \cup orders[b].inputs \subseteq Unspent(cash)
  BY <1>2 DEF CoZkAccepted, Spendable
<1> HIDE DEF outs
<1>11. \A i \in 1..Len(s) : s[i].row.status # "Spent"
  <2>1. s[1].row = ActiveRow /\ s[2].row = ActiveRow
    BY <1>7 DEF JointOutputsAre, RecvOutput, Output
  <2>2. CASE Survivors(a, b) = {}
    <3>1. \A i \in 1..Len(s) : i = 1 \/ i = 2
      <4>1. Len(s) = 2
        BY <1>7, <2>2 DEF JointOutputsAre
      <4>2. QED
        BY <4>1
    <3>2. QED
      BY <2>1, <3>1 DEF ActiveRow
  <2>3. CASE Survivors(a, b) # {}
    <3>1. \A i \in 1..Len(s) : i = 1 \/ i = 2 \/ i = 3
      <4>1. Len(s) = 3
        BY <1>6, <2>3
      <4>2. QED
        BY <4>1
    <3>2. s[3].row.status = "Locked"
      <4>1. PICK x : x \in Survivors(a, b)
        BY <2>3
      <4>2. s[3].row = LockedRow(x)
        BY <1>8, <4>1 DEF BacksRest
      <4>3. QED
        BY <4>2 DEF LockedRow
    <3>3. QED
      BY <2>1, <3>1, <3>2 DEF ActiveRow
  <2>4. QED
    BY <2>2, <2>3
<1>12. JointMinted(a, b, s)
  BY <1>6, <1>7, <1>8, <1>9, <1>11 DEF JointMinted
<1>13. QED
  BY <1>1, <1>5, <1>10, <1>12

\* A joint settlement mints exactly what it spends.
LEMMA JointWorth ==
  ASSUME NEW a \in DOMAIN orders, NEW b \in DOMAIN orders,
         BookSound, FiniteTable(cash), SettleOrdersCoZk(a, b)
  PROVE  NotInflated
<1>1. /\ issued' = issued
      /\ \A o \in {a, b} : BackedExactly(orders[o], ExecutionPrice(orders[a], orders[b]))
      /\ \E s : JointMinted(a, b, s)
  BY JointMints
<1>2. PICK s : JointMinted(a, b, s)
  BY <1>1
<1>3. PICK ra \in Blinding, rb \in Blinding : JointOutputsAre(s, a, b, ra, rb)
  BY <1>2 DEF JointMinted
<1>4. PICK price, fill : price = ExecutionPrice(orders[a], orders[b]) /\ fill = CoZkFill(a, b)
  OBVIOUS
<1>5. /\ a \in LiveIn(orders) /\ b \in LiveIn(orders) /\ PairOf(orders, a, b) /\ a # b
      /\ orders[a] \in Order /\ orders[b] \in Order /\ TypedOrders(orders) /\ Typed(cash)
  BY JointMints, TypeOKParts DEF BookSound
<1>6. /\ s \in Seq(Outputs)
      /\ s[1] = RecvOutput(orders[a], fill, price, ra)
      /\ s[2] = RecvOutput(orders[b], fill, price, rb)
      /\ Survivors(a, b) = {} => Len(s) = 2
      /\ Survivors(a, b) # {} => Len(s) = 3
  BY <1>2, <1>3, <1>4 DEF JointMinted, JointOutputsAre
<1>7. \A x \in Survivors(a, b) : BacksRest(s[3], a, b, x)
  BY <1>2 DEF JointMinted
<1>8. Mintable(PairSpent(a, b), s) /\ cash' = Mint(PairSpent(a, b), s)
  BY <1>2 DEF JointMinted
<1>9. orders[a].inputs \cup orders[b].inputs \subseteq Unspent(cash)
  BY JointMints
<1>10. \A i \in 1..Len(s) : s[i].row.status # "Spent"
  BY <1>2 DEF JointMinted
<1>11. PICK paid : paid = orders[a].inputs \cup orders[b].inputs
  OBVIOUS
<1>12. /\ FiniteTable(cash')
       /\ \A tk : /\ Worth(cash, tk) \in Nat
                  /\ Worth(cash', tk) = Worth(cash, tk) - Sum(OfToken(paid, tk))
                                          + Sum(OfToken(Ids(s), tk))
  BY <1>8, <1>9, <1>10, <1>6, <1>11, SpendAndMintWorth DEF PairSpent
<1>13. ASSUME NEW tk
       PROVE  Sum(OfToken(Ids(s), tk)) = Sum(OfToken(paid, tk))
  <2>1. PICK inA, inB, forA, forB :
          /\ inA = Sum(orders[a].inputs) /\ inB = Sum(orders[b].inputs)
          /\ forA = Pays(orders[a].side, fill, price) /\ forB = Pays(orders[b].side, fill, price)
    OBVIOUS
  <2>2. Sum(OfToken(paid, tk)) = (IF tk = LockToken(orders[a]) THEN inA ELSE 0)
                                   + (IF tk = LockToken(orders[b]) THEN inB ELSE 0)
    BY <1>5, <1>11, <2>1, PairWorth DEF BookSound
  <2>3. /\ Value(s[1].id, tk) = IF tk = LockToken(orders[b]) THEN forB ELSE 0
        /\ Value(s[2].id, tk) = IF tk = LockToken(orders[a]) THEN forA ELSE 0
    <3>1. /\ Gets(orders[a].side, fill, price) = forB /\ RecvToken(orders[a]) = LockToken(orders[b])
          /\ Gets(orders[b].side, fill, price) = forA /\ RecvToken(orders[b]) = LockToken(orders[a])
      BY <1>5, <2>1, GetsIsPaid DEF PairOf
    <3>2. /\ s[1].id.token = RecvToken(orders[a]) /\ s[1].id.amt = Gets(orders[a].side, fill, price)
          /\ s[2].id.token = RecvToken(orders[b]) /\ s[2].id.amt = Gets(orders[b].side, fill, price)
      BY <1>6 DEF RecvOutput, Output, Cash
    <3>3. QED
      BY <3>1, <3>2 DEF Value
  <2>4. /\ fill \in Nat /\ price \in Nat /\ orders[a].qty \in Nat /\ orders[b].qty \in Nat
        /\ forA \in Nat /\ forB \in Nat
    <3>1. fill \in Nat \ {0} /\ price \in Nat \ {0}
      BY <1>4, <1>5, FillBounds, ExecutionPriceTyped
    <3>2. orders[a].qty \in Nat /\ orders[b].qty \in Nat
      BY <1>5, OrderFields
    <3>3. QED
      BY <2>1, <3>1, <3>2, Trades
  <2>5. /\ inA = Pays(orders[a].side, orders[a].qty, price)
        /\ inB = Pays(orders[b].side, orders[b].qty, price)
    BY <1>1, <1>4, <2>1 DEF BackedExactly
  <2>6. /\ a \in Filled(a, b) => inA = forA
        /\ b \in Filled(a, b) => inB = forB
    BY <1>4, <2>1, <2>5 DEF Filled
  <2>7. CASE Survivors(a, b) = {}
    <3>1. inA = forA /\ inB = forB
      BY <2>6, <2>7 DEF Survivors
    <3>2. Sum(OfToken(Ids(s), tk)) = Value(s[1].id, tk) + Value(s[2].id, tk)
      BY <1>6, <1>8, <2>7, TwoIds
    <3>3. QED
      BY <2>2, <2>3, <2>4, <3>1, <3>2
  <2>8. ASSUME NEW x \in Survivors(a, b)
        PROVE  Sum(OfToken(Ids(s), tk)) = Sum(OfToken(paid, tk))
    <3>1. Sum(OfToken(Ids(s), tk)) = Value(s[1].id, tk) + Value(s[2].id, tk) + Value(s[3].id, tk)
      BY <1>6, <1>8, <2>8, ThreeIds
    <3>2. PICK left : left = Pays(orders[x].side, orders[x].qty - fill, price)
      OBVIOUS
    <3>3. Value(s[3].id, tk) = IF tk = LockToken(orders[x]) THEN left ELSE 0
      BY <1>4, <1>7, <3>2 DEF BacksRest, Value
    <3>4. /\ x = a \/ x = b
          /\ a = x \/ a \in Filled(a, b)
          /\ b = x \/ b \in Filled(a, b)
          /\ orders[x].qty - fill \in Nat \ {0}
      BY <1>4, <1>5, OneSurvivor, FillBounds
    <3>5. left \in Nat
      BY <1>4, <1>5, <3>2, <3>4, Trades, ExecutionPriceTyped
    <3>6. CASE x = a
      <4>1. inA = forA + left /\ inB = forB
        BY <1>5, <2>1, <2>4, <2>5, <2>6, <3>2, <3>4, <3>6, PaysInParts
      <4>2. QED
        BY <2>2, <2>3, <2>4, <3>1, <3>3, <3>5, <3>6, <4>1
    <3>7. CASE x = b
      <4>1. inB = forB + left /\ inA = forA
        BY <1>5, <2>1, <2>4, <2>5, <2>6, <3>2, <3>4, <3>7, PaysInParts
      <4>2. QED
        BY <2>2, <2>3, <2>4, <3>1, <3>3, <3>5, <3>7, <4>1
    <3>8. QED
      BY <3>4, <3>6, <3>7
  <2>9. QED
    BY <2>7, <2>8
<1>14. ASSUME NEW tk \in Token
       PROVE  Worth(cash', tk) + issued[tk] <= Worth(cash, tk) + issued'[tk]
  <2>1. PICK in, w, n : /\ in = Sum(OfToken(paid, tk)) /\ w = Worth(cash, tk) /\ n = issued[tk]
    OBVIOUS
  <2>2. in \in Nat
    <3>1. OfToken(paid, tk) \in SUBSET (DOMAIN cash)
      BY <1>9, <1>11 DEF OfToken, Unspent
    <3>2. QED
      BY <2>1, <3>1, TableSum
  <2>3. w \in Nat /\ n \in Int /\ Worth(cash', tk) = w - in + in /\ issued'[tk] = n
    BY <1>1, <1>12, <1>13, <2>1, TypeOKParts DEF BookSound
  <2>4. QED
    BY <2>1, <2>2, <2>3
<1>15. QED
  BY <1>12, <1>14 DEF NotInflated

\* The table is finite, and no token's unspent cash is worth more than was issued of it.
Solvent ==
  /\ IsFiniteSet(DOMAIN cash)
  /\ Genesis \subseteq DOMAIN cash
  /\ \A tk \in Token : Worth(cash, tk) <= issued[tk]

\* A step that does not inflate leaves the system solvent.
LEMMA SolventStep ==
  ASSUME TypeOK, Solvent, NotInflated, Genesis \subseteq DOMAIN cash', TypeOK'
  PROVE  Solvent'
<1>1. ASSUME NEW tk \in Token
      PROVE  Worth(cash', tk) <= issued'[tk]
  <2>1. /\ FiniteTable(cash) /\ FiniteTable(cash')
        /\ issued \in [Token -> Int] /\ issued' \in [Token -> Int]
    BY TypeOKParts DEF Solvent, NotInflated, FiniteTable, Typed, TypeOK, LedgerTypeOK
  <2>2. /\ OfToken(Unspent(cash), tk) \in SUBSET (DOMAIN cash)
        /\ OfToken(Unspent(cash'), tk) \in SUBSET (DOMAIN cash')
    BY DEF OfToken, Unspent
  <2>3. PICK w, v, n, m : /\ w = Worth(cash, tk) /\ v = Worth(cash', tk)
                          /\ n = issued[tk] /\ m = issued'[tk]
    OBVIOUS
  <2>4. w \in Nat /\ v \in Nat /\ n \in Int /\ m \in Int
    BY <2>1, <2>2, <2>3, TableSum DEF Worth
  <2>5. w <= n /\ v + n <= w + m
    BY <2>3 DEF Solvent, NotInflated
  <2>6. QED
    BY <2>3, <2>4, <2>5
<1>2. QED
  BY <1>1 DEF Solvent, NotInflated, FiniteTable

\* Every step of the system leaves it solvent.
LEMMA NextSolvent ==
  ASSUME FreshOutputs, BookSound, Solvent, [Next]_vars
  PROVE  Solvent'
<1>1. TypeOK /\ TypeOK' /\ FiniteTable(cash)
  BY NextTyped, TypeOKParts DEF BookSound, Solvent, FiniteTable, Typed
<1>2. Genesis \subseteq DOMAIN cash'
  BY BookKeeps DEF Keeps, Solvent, vars
<1>3. NotInflated => Solvent'
  BY <1>1, <1>2, SolventStep
<1>4. CASE cash' = cash /\ issued' = issued
  BY <1>4 DEF Solvent
<1>5. CASE LedgerStep
  <2>1. LedgerSound /\ LedgerNext
    BY <1>1, <1>5 DEF LedgerSound, LedgerStep, Solvent, TypeOK
  <2>2. LedgerSound' /\ Balanced
    BY <2>1, LedgerStepBalanced
  <2>3. FiniteTable(cash')
    BY <2>2 DEF LedgerSound, LedgerTypeOK, FiniteTable
  <2>4. ASSUME NEW tk \in Token
        PROVE  Worth(cash', tk) + issued[tk] <= Worth(cash, tk) + issued'[tk]
    <3>1. OfToken(Unspent(cash), tk) \in SUBSET (DOMAIN cash)
      BY DEF OfToken, Unspent
    <3>2. Worth(cash, tk) \in Nat /\ issued'[tk] \in Int
      BY <1>1, <3>1, TableSum DEF Worth, TypeOK, LedgerTypeOK
    <3>3. Worth(cash', tk) + issued[tk] = Worth(cash, tk) + issued'[tk]
      BY <2>2 DEF Balanced
    <3>4. PICK w, m : w = Worth(cash, tk) /\ m = issued'[tk]
      OBVIOUS
    <3>5. w + m \in Int /\ w + m <= w + m
      BY <3>2, <3>4
    <3>6. QED
      BY <3>3, <3>4, <3>5
  <2>5. QED
    BY <1>3, <2>3, <2>4 DEF NotInflated
<1>6. CASE PlaceOrder
  <2>1. PICK ins \in RequestInputs, pair \in Pair, side \in Side, price \in Price,
             fee \in Fee, qty \in Quantity :
          \/ SendOrder(OwnerOf(ins), pair, side, price, fee, qty, ins)
          \/ SendOrderSplit(OwnerOf(ins), pair, side, price, fee, qty, ins)
    BY <1>6, Zenon DEF PlaceOrder
  <2>2. QED
    BY <1>1, <1>3, <2>1, SendOrderWorth, SplitWorth
<1>7. CASE LegacySettle
  <2>1. PICK a \in DOMAIN orders, b \in DOMAIN orders :
          \/ CompareOrders(a, b)
          \/ \E leg \in WalletLegs(a, b) : \/ SettleOrdersStore(a, b, leg)
                                         \/ SettleOrders(a, b, leg)
                                         \/ SettleOrdersFails(a, b, leg)
    BY <1>7, Zenon DEF LegacySettle
  <2>2. CompareOrders(a, b) => cash' = cash /\ issued' = issued
    BY DEF CompareOrders, ledger
  <2>3. ASSUME NEW leg \in WalletLegs(a, b), SettleOrdersStore(a, b, leg)
        PROVE  cash' = cash /\ issued' = issued
    BY <2>3 DEF SettleOrdersStore, ledger
  <2>4. ASSUME NEW leg \in WalletLegs(a, b), SettleOrders(a, b, leg)
        PROVE  Solvent'
    BY <1>1, <1>3, <2>4, SettleWorth
  <2>5. ASSUME NEW leg \in WalletLegs(a, b), SettleOrdersFails(a, b, leg)
        PROVE  FALSE
    BY <1>1, <2>5, SettleNeverFails
  <2>6. QED
    BY <1>4, <2>1, <2>2, <2>3, <2>4, <2>5
<1>8. CASE JointSettle
  <2>1. PICK a \in DOMAIN orders, b \in DOMAIN orders :
          SettleOrdersCoZk(a, b) \/ SettleOrdersCoZkFails(a, b)
    BY <1>8, Zenon DEF JointSettle
  <2>2. SettleOrdersCoZk(a, b)
    BY <1>1, <2>1, CoZkNeverFails
  <2>3. QED
    BY <1>1, <1>3, <2>2, JointWorth
<1>9. QED
  <2>1. \/ NextBlock \/ UNCHANGED vars \/ \E o \in DOMAIN orders : RegisterSettleAddr(o)
        => cash' = cash /\ issued' = issued
    BY DEF NextBlock, RegisterSettleAddr, ledger, vars
  <2>2. QED
    BY <1>4, <1>5, <1>6, <1>7, <1>8, <2>1 DEF Next

\* The tables Init seeds are solvent: all of genesis was issued.
LEMMA InitSolvent == Init => Solvent
<1>1. SUFFICES ASSUME Init PROVE Solvent
  OBVIOUS
<1>2. LedgerSound /\ ValueConserved
  <2>1. LedgerInit
    BY <1>1 DEF Init
  <2>2. QED
    BY <2>1, LedgerInitSound
<1>3. \A tk \in Token : Worth(cash, tk) = issued[tk] /\ issued[tk] \in Int
  BY <1>2 DEF LedgerSound, LedgerTypeOK, ValueConserved, InCirculation, Worth, OfToken
<1>4. \A tk \in Token : Worth(cash, tk) <= issued[tk]
  BY <1>3
<1>5. QED
  BY <1>2, <1>4 DEF Solvent, LedgerSound

\* Whatever is deposited, split, matched, settled by either protocol, relisted and withdrawn, no
\* more of a token is unspent than genesis and the bridge put in.
THEOREM NothingIsInflated ==
  ASSUME FreshOutputs
  PROVE  Spec => []NoInflation
<1>1. Init => Solvent
  BY InitSolvent
<1>2. BookSound /\ Solvent /\ [Next]_vars => (BookSound /\ Solvent)'
  BY BookStaysSound, NextSolvent
<1>3. Solvent => NoInflation
  BY DEF Solvent, NoInflation, InCirculation, Worth, OfToken
<1>4. QED
  BY <1>1, <1>2, <1>3, BookStaysSound, PTL DEF Spec
-----------------------------------------------------------------------------
(***************************************************************************)
(* The trade: what a settlement gives each of the two owners, and takes.   *)
(***************************************************************************)
\* All cash of one owner in one token.
CashFor(owner, tk) == {c \in CashId : c.owner = owner /\ c.token = tk}

\* What an owner holds of a token is its part of the unspent cash.
LEMMA HoldingIsPart ==
  ASSUME NEW t, FiniteTable(t), NEW owner, NEW tk
  PROVE  Holding(t, owner, tk) = Sum(Unspent(t) \cap CashFor(owner, tk))
<1>1. {c \in Unspent(t) : c.owner = owner /\ c.token = tk} = Unspent(t) \cap CashFor(owner, tk)
  BY DEF Unspent, CashFor, FiniteTable
<1>2. QED
  BY <1>1 DEF Holding

\* The holding of the owner in tk goes down by out and up by in.
Moved(owner, tk, out, in) ==
  /\ Holding(cash, owner, tk) \in Nat
  /\ Holding(cash', owner, tk) = Holding(cash, owner, tk) - out + in

\* Spending cs and minting outs moves a holding by the parts of both.
LEMMA SpendAndMintHolding ==
  ASSUME FiniteTable(cash), NEW cs, cs \subseteq Unspent(cash), NEW os,
         NEW outs \in Seq(Outputs), NEW spent, spent = SpendCash(cash, cs, os),
         Mintable(spent, outs), \A i \in 1..Len(outs) : outs[i].row.status # "Spent",
         cash' = Mint(spent, outs), NEW owner, NEW tk, NEW K, K = CashFor(owner, tk)
  PROVE  Moved(owner, tk, Sum(cs \cap K), Sum(Ids(outs) \cap K))
<1>1. FiniteTable(spent) /\ DOMAIN spent = DOMAIN cash /\ Unspent(spent) = Unspent(cash) \ cs
  BY DEF FiniteTable, SpendCash, SpentRow, Unspent
<1>2. /\ FiniteTable(cash') /\ Unspent(cash') = Unspent(spent) \cup Ids(outs)
      /\ IsFiniteSet(Ids(outs)) /\ Ids(outs) \subseteq CashId /\ Ids(outs) \cap DOMAIN cash = {}
  BY <1>1, MintAdds
<1>3. PICK A, B, C, D : /\ A = Unspent(cash) \cap K /\ B = cs \cap K
                        /\ C = (Unspent(cash) \ cs) \cap K /\ D = Ids(outs) \cap K
  OBVIOUS
<1>4. /\ A \in SUBSET (DOMAIN cash) /\ B \in SUBSET (DOMAIN cash) /\ C \in SUBSET (DOMAIN cash)
      /\ A = B \cup C /\ B \cap C = {} /\ C \cap D = {}
      /\ D \in SUBSET Ids(outs) /\ Unspent(cash') \cap K = C \cup D
  BY <1>1, <1>2, <1>3 DEF Unspent
<1>5. /\ IsFiniteSet(A) /\ A \subseteq CashId /\ Sum(A) \in Nat
      /\ IsFiniteSet(B) /\ B \subseteq CashId /\ Sum(B) \in Nat
      /\ IsFiniteSet(C) /\ C \subseteq CashId /\ Sum(C) \in Nat
  BY <1>4, TableSum
<1>6. IsFiniteSet(D) /\ D \subseteq CashId
  BY <1>2, <1>4, FS_Subset
<1>7. Sum(D) \in Nat
  BY <1>6, SumIsNat
<1>8. Sum(A) = Sum(B) + Sum(C) /\ Sum(C \cup D) = Sum(C) + Sum(D)
  BY <1>4, <1>5, <1>6, SumOfUnion
<1>9. Holding(cash, owner, tk) = Sum(A) /\ Holding(cash', owner, tk) = Sum(C \cup D)
  BY <1>2, <1>3, <1>4, HoldingIsPart
<1>10. QED
  BY <1>3, <1>5, <1>7, <1>8, <1>9 DEF Moved

\* The part of the collateral of an order is all of it or none.
LEMMA InputsPart ==
  ASSUME FiniteTable(cash), AllBacked(cash, orders), NEW o \in LiveIn(orders),
         NEW owner, NEW tk
  PROVE  Sum(orders[o].inputs \cap CashFor(owner, tk))
           = IF owner = orders[o].owner /\ tk = LockToken(orders[o])
             THEN Sum(orders[o].inputs) ELSE 0
<1>1. \A c \in orders[o].inputs :
        c \in CashId /\ c.owner = orders[o].owner /\ c.token = LockToken(orders[o])
  BY DEF AllBacked, BackedBy, FiniteTable
<1>2. orders[o].inputs \cap CashFor(owner, tk)
        = IF owner = orders[o].owner /\ tk = LockToken(orders[o]) THEN orders[o].inputs ELSE {}
  BY <1>1 DEF CashFor
<1>3. QED
  BY <1>2, SumOfNone

\* Two orders of different owners put nothing in one another's holdings.
LEMMA PairPart ==
  ASSUME FiniteTable(cash), AllBacked(cash, orders),
         NEW a \in LiveIn(orders), NEW b \in LiveIn(orders), orders[a].owner # orders[b].owner,
         NEW tk
  PROVE  /\ Sum(orders[a].inputs) \in Nat
         /\ Sum((orders[a].inputs \cup orders[b].inputs) \cap CashFor(orders[a].owner, tk))
              = IF tk = LockToken(orders[a]) THEN Sum(orders[a].inputs) ELSE 0
<1>1. orders[b].inputs \cap CashFor(orders[a].owner, tk) = {}
  BY DEF AllBacked, BackedBy, CashFor
<1>2. (orders[a].inputs \cup orders[b].inputs) \cap CashFor(orders[a].owner, tk)
        = orders[a].inputs \cap CashFor(orders[a].owner, tk)
  BY <1>1
<1>3. orders[a].inputs \in SUBSET (DOMAIN cash)
  BY DEF AllBacked, BackedBy
<1>4. QED
  BY <1>2, <1>3, InputsPart, TableSum

\* What TradesWithinLimits says of one order of the pair.
WithinLimits(x, y) ==
  LET fill == Min2(x.qty, y.qty)
      price == ExecutionPrice(x, y)
      got == Holding(cash', x.owner, RecvToken(x)) - Holding(cash, x.owner, RecvToken(x))
      paid == Holding(cash, x.owner, LockToken(x)) - Holding(cash', x.owner, LockToken(x))
  IN /\ got = Gets(x.side, fill, price)
     /\ Pays(x.side, fill, price) <= paid /\ paid <= Pays(x.side, fill, x.price)

\* Both orders of a pair name one execution price, one quantity, and each other's tokens.
LEMMA DealtBothWays ==
  ASSUME NEW x \in Order, NEW y \in Order, Dealt(x, y)
  PROVE  /\ Dealt(y, x)
         /\ ExecutionPrice(x, y) = ExecutionPrice(y, x) /\ Min2(x.qty, y.qty) = Min2(y.qty, x.qty)
         /\ RecvToken(x) = LockToken(y)
         /\ \A qty, p : Gets(x.side, qty, p) = Pays(y.side, qty, p)
         /\ x.pair[1] # x.pair[2] => LockToken(x) # LockToken(y)
<1>1. /\ x.price \in Nat /\ y.price \in Nat /\ x.height \in Nat /\ y.height \in Nat
      /\ x.qty \in Nat /\ y.qty \in Nat /\ x.side \in Side /\ y.side \in Side
  BY OrderFields
<1>2. Dealt(y, x)
  BY CompatibleBothWays DEF Dealt
<1>3. Min2(x.qty, y.qty) = Min2(y.qty, x.qty) /\ Min2(x.price, y.price) = Min2(y.price, x.price)
  BY <1>1 DEF Min2
<1>4. ExecutionPrice(x, y) = ExecutionPrice(y, x)
  BY <1>1, <1>3 DEF ExecutionPrice
<1>5. \A qty, p : Gets(x.side, qty, p) = Pays(y.side, qty, p)
  BY <1>1 DEF Dealt, Side, Gets, Pays
<1>6. QED
  BY <1>1, <1>2, <1>3, <1>4, <1>5 DEF Dealt, Side, RecvToken, LockToken

\* No side pays more at the execution price than at its own.
LEMMA PaysWithin ==
  ASSUME NEW x \in Order, NEW y \in Order, Dealt(x, y), NEW fill \in Nat,
         NEW price, price = ExecutionPrice(x, y)
  PROVE  /\ Pays(x.side, fill, price) \in Nat /\ Pays(x.side, fill, x.price) \in Nat
         /\ Pays(y.side, fill, price) \in Nat
         /\ Pays(x.side, fill, price) <= Pays(x.side, fill, x.price)
<1>1. x.price \in Nat /\ x.side \in Side
  BY OrderFields
<1>2. price \in Nat /\ (x.side = "Buy" => price <= x.price)
  BY PriceWithinLimits DEF Dealt
<1>3. CASE x.side = "Buy"
  <2>1. fill * price <= fill * x.price
    BY <1>1, <1>2, <1>3, Products
  <2>2. QED
    BY <1>1, <1>2, <1>3, <2>1 DEF Pays
<1>4. CASE x.side # "Buy"
  BY <1>1, <1>2, <1>4 DEF Pays
<1>5. QED
  BY <1>3, <1>4

\* An owner whose holdings moved by what the other side pays and by what this one does, no more
\* than at its own price, has traded within its limits.
LEMMA MovesAreWithin ==
  ASSUME NEW x \in Order, NEW y \in Order, Dealt(x, y),
         NEW fill \in Nat, fill = Min2(x.qty, y.qty), NEW price, price = ExecutionPrice(x, y),
         NEW in \in Nat, NEW out \in Nat, NEW back \in Nat,
         Moved(x.owner, LockToken(y), 0, in), Moved(x.owner, LockToken(x), out, back),
         in = Pays(y.side, fill, price),
         Pays(x.side, fill, price) <= out - back, out - back <= Pays(x.side, fill, x.price)
  PROVE  WithinLimits(x, y)
<1>1. RecvToken(x) = LockToken(y)
  BY DealtBothWays
<1>2. Gets(x.side, fill, price) = in
  <2>1. \A qty, p : Gets(x.side, qty, p) = Pays(y.side, qty, p)
    BY DealtBothWays
  <2>2. QED
    BY <2>1
<1>3. PICK h, k : h = Holding(cash, x.owner, LockToken(y)) /\ k = Holding(cash, x.owner, LockToken(x))
  OBVIOUS
<1>4. /\ Holding(cash', x.owner, RecvToken(x)) - Holding(cash, x.owner, RecvToken(x)) = in
      /\ Holding(cash, x.owner, LockToken(x)) - Holding(cash', x.owner, LockToken(x)) = out - back
  <2>1. /\ h \in Nat /\ Holding(cash', x.owner, LockToken(y)) = h - 0 + in
        /\ k \in Nat /\ Holding(cash', x.owner, LockToken(x)) = k - out + back
    BY <1>3 DEF Moved
  <2>2. (h - 0 + in) - h = in /\ k - (k - out + back) = out - back
    BY <2>1
  <2>3. QED
    BY <1>1, <1>3, <2>1, <2>2
<1>5. QED
  BY <1>2, <1>4 DEF WithinLimits

\* The parts of a leg's outputs: the smaller party's is what the larger pays, the larger's its
\* change and what it gets.
SmallerPart(x, leg, tk) == IF tk = LockToken(x) THEN Pays(x.side, leg.fill, leg.price) ELSE 0
LargerPart(x, y, leg, tk) ==
  (IF tk = LockToken(x) THEN LegChange(x, leg) ELSE 0)
    + (IF tk = LockToken(y) THEN Gets(x.side, leg.fill, leg.price) ELSE 0)

LEMMA LegParts ==
  ASSUME NEW x \in Order, NEW y \in Order, NEW leg \in Leg, LegChange(x, leg) \in Nat,
         x.owner # y.owner, NEW t, NEW s, s = LegOutputs(x, y, leg), Mintable(t, s), NEW tk
  PROVE  /\ Sum(Ids(s) \cap CashFor(y.owner, tk)) = SmallerPart(x, leg, tk)
         /\ Sum(Ids(s) \cap CashFor(x.owner, tk)) = LargerPart(x, y, leg, tk)
<1> DEFINE pays == Pays(x.side, leg.fill, leg.price)
           gets == Gets(x.side, leg.fill, leg.price)
           change == LegChange(x, leg)
           pay == Output(Cash(y.owner, LockToken(x), pays, leg.recv), ActiveRow)
           back == Output(Cash(x.owner, LockToken(x), change, leg.change), ActiveRow)
           get == Output(Cash(x.owner, LockToken(y), gets, leg.other), ActiveRow)
<1>1. s \in Seq(Outputs)
  BY LegOutputsTyped
<1>2. s = IF change = 0 THEN <<pay, get>> ELSE <<pay, back, get>>
  BY DEF LegOutputs
<1>3. /\ pay.id.owner = y.owner /\ pay.id.token = LockToken(x) /\ pay.id.amt = pays
      /\ back.id.owner = x.owner /\ back.id.token = LockToken(x) /\ back.id.amt = change
      /\ get.id.owner = x.owner /\ get.id.token = LockToken(y) /\ get.id.amt = gets
  BY DEF Output, Cash
<1>4. pays \in Nat /\ gets \in Nat /\ change \in Nat
  <2>1. leg.fill \in Nat \ {0} /\ leg.price \in Nat \ {0}
    BY NumbersAssumption DEF Leg
  <2>2. QED
    BY <2>1, Trades
<1>5. PICK K, M : K = CashFor(x.owner, tk) /\ M = CashFor(y.owner, tk)
  OBVIOUS
<1> HIDE DEF pay, back, get, pays, gets, change
<1>6. /\ pay.id \in CashId => /\ Part(pay.id, M) = (IF tk = LockToken(x) THEN pays ELSE 0)
                             /\ Part(pay.id, K) = 0
      /\ back.id \in CashId => /\ Part(back.id, K) = (IF tk = LockToken(x) THEN change ELSE 0)
                              /\ Part(back.id, M) = 0
      /\ get.id \in CashId => /\ Part(get.id, K) = (IF tk = LockToken(y) THEN gets ELSE 0)
                             /\ Part(get.id, M) = 0
  BY <1>3, <1>5 DEF Part, CashFor
<1>7. CASE change = 0
  <2>1. Len(s) = 2 /\ s[1] = pay /\ s[2] = get
    BY <1>2, <1>7
  <2>2. \A J : /\ s[1].id \in CashId /\ s[2].id \in CashId
               /\ Sum(Ids(s) \cap J) = Part(s[1].id, J) + Part(s[2].id, J)
    BY <1>1, <2>1, TwoParts
  <2>3. /\ Sum(Ids(s) \cap K) = Part(pay.id, K) + Part(get.id, K)
        /\ Sum(Ids(s) \cap M) = Part(pay.id, M) + Part(get.id, M)
        /\ pay.id \in CashId /\ get.id \in CashId
    BY <2>1, <2>2
  <2>4. QED
    BY <1>4, <1>5, <1>6, <1>7, <2>3 DEF SmallerPart, LargerPart, pays, gets, change
<1>8. CASE change # 0
  <2>1. Len(s) = 3 /\ s[1] = pay /\ s[2] = back /\ s[3] = get
    BY <1>2, <1>8
  <2>2. \A J : /\ s[1].id \in CashId /\ s[2].id \in CashId /\ s[3].id \in CashId
               /\ Sum(Ids(s) \cap J) = Part(s[1].id, J) + Part(s[2].id, J) + Part(s[3].id, J)
    BY <1>1, <2>1, ThreeParts
  <2>3. /\ Sum(Ids(s) \cap K) = Part(pay.id, K) + Part(back.id, K) + Part(get.id, K)
        /\ Sum(Ids(s) \cap M) = Part(pay.id, M) + Part(back.id, M) + Part(get.id, M)
        /\ pay.id \in CashId /\ back.id \in CashId /\ get.id \in CashId
    BY <2>1, <2>2
  <2>4. QED
    BY <1>4, <1>5, <1>6, <2>3 DEF SmallerPart, LargerPart, pays, gets, change
<1>9. QED
  BY <1>7, <1>8

\* A legacy settlement is a trade within the limits of both.
LEMMA SettleWithin ==
  ASSUME NEW a \in DOMAIN orders, NEW b \in DOMAIN orders, NEW leg \in WalletLegs(a, b),
         BookSound, FiniteTable(cash), SettleOrders(a, b, leg),
         orders[a].owner # orders[b].owner, orders[a].pair[1] # orders[a].pair[2]
  PROVE  WithinLimits(orders[a], orders[b]) /\ WithinLimits(orders[b], orders[a])
<1>1. PICK l, m : l = LargerOf(a, b) /\ m = SmallerOf(a, b)
  OBVIOUS
<1>2. (l = a /\ m = b) \/ (l = b /\ m = a)
  BY <1>1 DEF LargerOf, SmallerOf
<1>3. PICK x, y, theLeg, s : /\ x = orders[l] /\ y = orders[m]
                             /\ theLeg = LegOf(a, b, leg) /\ s = LegOutputs(x, y, theLeg)
  OBVIOUS
<1>4. /\ SettleVerified(a, b, leg) /\ MutuallyMatched(a, b, "Settling")
      /\ Mintable(PairSpent(a, b), s) /\ cash' = Mint(PairSpent(a, b), s)
  <2>1. s = SettledOutputs(a, b, leg)
    BY <1>1, <1>3 DEF SettledOutputs
  <2>2. /\ SettleVerified(a, b, leg)
        /\ Mintable(PairSpent(a, b), SettledOutputs(a, b, leg))
        /\ cash' = Mint(PairSpent(a, b), SettledOutputs(a, b, leg))
    BY Zenon DEF SettleOrders
  <2>3. MutuallyMatched(a, b, "Settling")
    BY <2>2 DEF SettleVerified, SettleRequest
  <2>4. QED
    BY <2>1, <2>2, <2>3
<1>5. /\ l \in LiveIn(orders) /\ m \in LiveIn(orders)
      /\ orders[a].pair = orders[b].pair
  BY <1>2, <1>4 DEF BookSound, MutuallyMatched, LiveIn, Symmetric, PairedIn, PairOf
<1>6. /\ x \in Order /\ y \in Order /\ theLeg \in Leg
      /\ Dealt(x, y) /\ Worthy(y) /\ y.qty <= x.qty
      /\ theLeg.fill = y.qty /\ theLeg.price = ExecutionPrice(x, y)
      /\ LegChange(x, theLeg) \in Nat
  BY <1>1, <1>3, <1>4, LegIsCovered
<1>7. PICK fill, price : fill = theLeg.fill /\ price = theLeg.price
  OBVIOUS
<1>8. /\ fill \in Nat /\ price = ExecutionPrice(x, y) /\ price = ExecutionPrice(y, x)
      /\ fill = Min2(x.qty, y.qty) /\ fill = Min2(y.qty, x.qty)
      /\ Dealt(y, x) /\ LockToken(x) # LockToken(y) /\ x.owner # y.owner
  <2>1. x.qty \in Nat /\ y.qty \in Nat
    BY <1>6, OrderFields
  <2>2. fill \in Nat /\ fill = Min2(x.qty, y.qty)
    BY <1>6, <1>7, <2>1 DEF Min2
  <2>3. x.pair[1] # x.pair[2] /\ x.owner # y.owner
    BY <1>2, <1>3, <1>5
  <2>4. QED
    BY <1>6, <1>7, <2>2, <2>3, DealtBothWays
<1>9. PICK paid, payX, payY, change :
        /\ paid = x.inputs \cup y.inputs /\ change = LegChange(x, theLeg)
        /\ payX = Pays(x.side, fill, price) /\ payY = Pays(y.side, fill, price)
  OBVIOUS
<1>10. /\ payX \in Nat /\ payY \in Nat /\ payX <= Pays(x.side, fill, x.price)
       /\ payY <= Pays(y.side, fill, y.price)
       /\ Gets(x.side, fill, price) = payY
  <2>1. /\ payX \in Nat /\ payX <= Pays(x.side, fill, x.price)
    BY <1>6, <1>8, <1>9, PaysWithin
  <2>2. /\ payY \in Nat /\ payY <= Pays(y.side, fill, y.price)
    BY <1>6, <1>8, <1>9, PaysWithin
  <2>3. QED
    BY <1>6, <1>9, <2>1, <2>2, DealtBothWays
<1>11. /\ Sum(x.inputs) \in Nat /\ Sum(y.inputs) \in Nat
       /\ \A tk : /\ Sum(paid \cap CashFor(x.owner, tk))
                       = IF tk = LockToken(x) THEN Sum(x.inputs) ELSE 0
                  /\ Sum(paid \cap CashFor(y.owner, tk))
                       = IF tk = LockToken(y) THEN Sum(y.inputs) ELSE 0
  <2>1. AllBacked(cash, orders) /\ orders[l].owner # orders[m].owner
    BY <1>2 DEF BookSound
  <2>2. paid = orders[l].inputs \cup orders[m].inputs /\ paid = orders[m].inputs \cup orders[l].inputs
    BY <1>3, <1>9
  <2>3. /\ Sum(orders[l].inputs) \in Nat
        /\ \A tk : Sum(paid \cap CashFor(orders[l].owner, tk))
                     = IF tk = LockToken(orders[l]) THEN Sum(orders[l].inputs) ELSE 0
    BY <1>5, <2>1, <2>2, PairPart
  <2>4. /\ Sum(orders[m].inputs) \in Nat
        /\ \A tk : Sum(paid \cap CashFor(orders[m].owner, tk))
                     = IF tk = LockToken(orders[m]) THEN Sum(orders[m].inputs) ELSE 0
    BY <1>5, <2>1, <2>2, PairPart
  <2>5. QED
    BY <1>3, <2>3, <2>4
<1>12. Sum(x.inputs) = payX + change /\ change \in Nat
  BY <1>6, <1>7, <1>9, <1>10, <1>11 DEF LegChange
<1>13. Sum(y.inputs) = Pays(y.side, fill, y.price)
  BY <1>6, <1>7 DEF Worthy, BackedExactly
<1>14. /\ Sum(Ids(s) \cap CashFor(y.owner, LockToken(x))) = payX
       /\ Sum(Ids(s) \cap CashFor(y.owner, LockToken(y))) = 0
       /\ Sum(Ids(s) \cap CashFor(x.owner, LockToken(x))) = change
       /\ Sum(Ids(s) \cap CashFor(x.owner, LockToken(y))) = payY
  <2>1. ASSUME NEW tk
        PROVE  /\ Sum(Ids(s) \cap CashFor(y.owner, tk)) = SmallerPart(x, theLeg, tk)
               /\ Sum(Ids(s) \cap CashFor(x.owner, tk)) = LargerPart(x, y, theLeg, tk)
    <3>1. PICK spent : spent = PairSpent(a, b)
      OBVIOUS
    <3>2. /\ s = LegOutputs(x, y, theLeg) /\ Mintable(spent, s) /\ x.owner # y.owner
      BY <1>3, <1>4, <1>8, <3>1
    <3>3. x \in Order /\ y \in Order /\ theLeg \in Leg /\ LegChange(x, theLeg) \in Nat
      BY <1>6
    <3>4. QED
      BY <3>2, <3>3, LegParts
  <2>2. /\ SmallerPart(x, theLeg, LockToken(x)) = payX
        /\ SmallerPart(x, theLeg, LockToken(y)) = 0
        /\ LargerPart(x, y, theLeg, LockToken(x)) = change
        /\ LargerPart(x, y, theLeg, LockToken(y)) = payY
    BY <1>7, <1>8, <1>9, <1>10, <1>12 DEF SmallerPart, LargerPart
  <2>3. QED
    BY <2>1, <2>2
<1>15. ASSUME NEW owner, NEW tk
       PROVE  Moved(owner, tk, Sum(paid \cap CashFor(owner, tk)), Sum(Ids(s) \cap CashFor(owner, tk)))
  <2>1. paid \subseteq Unspent(cash) /\ PairSpent(a, b) = SpendCash(cash, paid, {a, b})
    <3>1. paid = orders[a].inputs \cup orders[b].inputs
      BY <1>2, <1>3, <1>9
    <3>2. Spendable(cash, orders[LargerOf(a, b)].inputs \cup orders[SmallerOf(a, b)].inputs)
      BY <1>4 DEF SettleVerified
    <3>3. QED
      BY <1>1, <1>3, <1>9, <3>1, <3>2 DEF Spendable, PairSpent
  <2>2. s \in Seq(Outputs) /\ \A i \in 1..Len(s) : s[i].row.status # "Spent"
    BY <1>3, <1>6, LegRows
  <2>3. PICK spent, both : spent = PairSpent(a, b) /\ both = {a, b}
    OBVIOUS
  <2>4. spent = SpendCash(cash, paid, both) /\ Mintable(spent, s) /\ cash' = Mint(spent, s)
    BY <1>4, <2>1, <2>3
  <2>5. QED
    BY <2>1, <2>2, <2>4, SpendAndMintHolding
<1>16. PICK inX, inY : inX = Sum(x.inputs) /\ inY = Sum(y.inputs)
  OBVIOUS
<1>17. WithinLimits(x, y)
  <2>1. Moved(x.owner, LockToken(y), 0, payY)
    <3>1. Sum(paid \cap CashFor(x.owner, LockToken(y))) = 0
      BY <1>8, <1>11
    <3>2. QED
      BY <1>14, <1>15, <3>1
  <2>2. Moved(x.owner, LockToken(x), inX, change)
    <3>1. Sum(paid \cap CashFor(x.owner, LockToken(x))) = inX
      BY <1>11, <1>16
    <3>2. QED
      BY <1>14, <1>15, <3>1
  <2>3. inX \in Nat /\ inX - change = payX
    BY <1>10, <1>11, <1>12, <1>16
  <2>4. /\ payY = Pays(y.side, fill, price)
        /\ Pays(x.side, fill, price) <= inX - change
        /\ inX - change <= Pays(x.side, fill, x.price)
    BY <1>9, <1>10, <2>3
  <2>5. x \in Order /\ y \in Order /\ Dealt(x, y)
    BY <1>6
  <2>6. QED
    BY <1>8, <1>10, <1>12, <2>1, <2>2, <2>3, <2>4, <2>5, MovesAreWithin
<1>18. WithinLimits(y, x)
  <2>1. Moved(y.owner, LockToken(x), 0, payX)
    <3>1. Sum(paid \cap CashFor(y.owner, LockToken(x))) = 0
      BY <1>8, <1>11
    <3>2. QED
      BY <1>14, <1>15, <3>1
  <2>2. Moved(y.owner, LockToken(y), inY, 0)
    <3>1. Sum(paid \cap CashFor(y.owner, LockToken(y))) = inY
      BY <1>11, <1>16
    <3>2. QED
      BY <1>14, <1>15, <3>1
  <2>3. /\ inY \in Nat /\ payX = Pays(x.side, fill, price)
        /\ Pays(y.side, fill, price) <= inY - 0
        /\ inY - 0 <= Pays(y.side, fill, y.price)
    BY <1>9, <1>10, <1>11, <1>13, <1>16
  <2>4. x \in Order /\ y \in Order
    BY <1>6
  <2>5. QED
    BY <1>8, <1>10, <2>1, <2>2, <2>3, <2>4, MovesAreWithin
<1>19. QED
  BY <1>2, <1>3, <1>17, <1>18
\* The part of one party in what a joint settlement mints: what it receives, and its remainder.
JointPart(a, b, x, tk) ==
  LET o == orders[x]
      fill == CoZkFill(a, b)
      price == ExecutionPrice(orders[a], orders[b])
  IN (IF tk = RecvToken(o) THEN Gets(o.side, fill, price) ELSE 0)
       + (IF x \in Survivors(a, b) /\ tk = LockToken(o) THEN Pays(o.side, o.qty - fill, price) ELSE 0)

LEMMA JointParts ==
  ASSUME NEW a \in DOMAIN orders, NEW b \in DOMAIN orders, TypedOrders(orders),
         orders[a].owner # orders[b].owner, NEW s, JointMinted(a, b, s), NEW x \in {a, b}, NEW tk
  PROVE  Sum(Ids(s) \cap CashFor(orders[x].owner, tk)) = JointPart(a, b, x, tk)
<1>1. PICK K, fill, price, gets :
        /\ K = CashFor(orders[x].owner, tk)
        /\ fill = CoZkFill(a, b) /\ price = ExecutionPrice(orders[a], orders[b])
        /\ gets = IF tk = RecvToken(orders[x]) THEN Gets(orders[x].side, fill, price) ELSE 0
  OBVIOUS
<1>2. PICK ra \in Blinding, rb \in Blinding : JointOutputsAre(s, a, b, ra, rb)
  BY DEF JointMinted
<1>3. PICK t : Mintable(t, s)
  BY DEF JointMinted
<1>4. s \in Seq(Outputs) /\ (Survivors(a, b) # {} => Len(s) = 3) /\ (Survivors(a, b) = {} => Len(s) = 2)
  BY <1>2 DEF JointMinted, JointOutputsAre
<1>5. /\ s[1].id.owner = orders[a].owner /\ s[1].id.token = RecvToken(orders[a])
      /\ s[1].id.amt = Gets(orders[a].side, fill, price)
      /\ s[2].id.owner = orders[b].owner /\ s[2].id.token = RecvToken(orders[b])
      /\ s[2].id.amt = Gets(orders[b].side, fill, price)
  BY <1>1, <1>2 DEF JointOutputsAre, RecvOutput, Output, Cash
<1>6. (s[1].id \in CashId /\ s[2].id \in CashId) => Part(s[1].id, K) + Part(s[2].id, K) = gets
  <2>1. fill \in Nat \ {0} /\ price \in Nat \ {0}
    BY <1>1, FillBounds, ExecutionPriceTyped DEF TypedOrders
  <2>2. gets \in Nat
    BY <1>1, <2>1, Trades
  <2>3. SUFFICES ASSUME s[1].id \in CashId, s[2].id \in CashId
                 PROVE  Part(s[1].id, K) + Part(s[2].id, K) = gets
    OBVIOUS
  <2>4. CASE x = a
    <3>1. Part(s[1].id, K) = gets /\ Part(s[2].id, K) = 0
      BY <1>1, <1>5, <2>3, <2>4 DEF Part, CashFor
    <3>2. QED
      BY <2>2, <3>1
  <2>5. CASE x = b
    <3>1. Part(s[1].id, K) = 0 /\ Part(s[2].id, K) = gets
      BY <1>1, <1>5, <2>3, <2>5 DEF Part, CashFor
    <3>2. QED
      BY <2>2, <3>1
  <2>6. QED
    BY <2>4, <2>5
<1>7. CASE Survivors(a, b) = {}
  <2>1. Sum(Ids(s) \cap K) = gets
    <3>1. /\ s[1].id \in CashId /\ s[2].id \in CashId
          /\ Sum(Ids(s) \cap K) = Part(s[1].id, K) + Part(s[2].id, K)
      BY <1>3, <1>4, <1>7, TwoParts
    <3>2. QED
      BY <1>6, <3>1
  <2>2. gets \in Nat
    <3>1. fill \in Nat \ {0} /\ price \in Nat \ {0}
      BY <1>1, FillBounds, ExecutionPriceTyped DEF TypedOrders
    <3>2. QED
      BY <1>1, <3>1, Trades
  <2>3. JointPart(a, b, x, tk) = gets + 0
    BY <1>1, <1>7 DEF JointPart
  <2>4. QED
    BY <1>1, <2>1, <2>2, <2>3
<1>8. ASSUME NEW z \in Survivors(a, b)
      PROVE  Sum(Ids(s) \cap K) = JointPart(a, b, x, tk)
  <2>1. /\ BacksRest(s[3], a, b, z) /\ z \in {a, b}
        /\ \A w \in {a, b} : w \in Survivors(a, b) <=> w = z
    BY OneSurvivor DEF JointMinted, Survivors
  <2>2. PICK left : left = IF x \in Survivors(a, b) /\ tk = LockToken(orders[x])
                           THEN Pays(orders[x].side, orders[x].qty - fill, price) ELSE 0
    OBVIOUS
  <2>3. /\ s[1].id \in CashId /\ s[2].id \in CashId /\ s[3].id \in CashId
        /\ Sum(Ids(s) \cap K) = Part(s[1].id, K) + Part(s[2].id, K) + Part(s[3].id, K)
    BY <1>3, <1>4, <1>8, ThreeParts
  <2>4. Part(s[3].id, K) = left
    <3>1. /\ s[3].id.owner = orders[z].owner /\ s[3].id.token = LockToken(orders[z])
          /\ s[3].id.amt = Pays(orders[z].side, orders[z].qty - fill, price)
      BY <1>1, <2>1 DEF BacksRest
    <3>2. (orders[z].owner = orders[x].owner) <=> (z = x)
      BY <2>1
    <3>3. QED
      BY <1>1, <2>1, <2>2, <2>3, <3>1, <3>2 DEF Part, CashFor
  <2>5. JointPart(a, b, x, tk) = gets + left
    BY <1>1, <2>2 DEF JointPart
  <2>6. Sum(Ids(s) \cap K) = gets + left
    BY <1>6, <2>3, <2>4
  <2>7. QED
    BY <2>5, <2>6
<1>9. QED
  BY <1>1, <1>7, <1>8

\* A joint settlement is a trade within the limits of both.
LEMMA JointWithin ==
  ASSUME NEW a \in DOMAIN orders, NEW b \in DOMAIN orders,
         BookSound, FiniteTable(cash), SettleOrdersCoZk(a, b),
         orders[a].owner # orders[b].owner, orders[a].pair[1] # orders[a].pair[2]
  PROVE  WithinLimits(orders[a], orders[b]) /\ WithinLimits(orders[b], orders[a])
<1>1. /\ a \in LiveIn(orders) /\ b \in LiveIn(orders) /\ PairOf(orders, a, b) /\ a # b
      /\ orders[a] \in Order /\ orders[b] \in Order /\ TypedOrders(orders)
      /\ \A o \in {a, b} : BackedExactly(orders[o], ExecutionPrice(orders[a], orders[b]))
      /\ orders[a].inputs \cup orders[b].inputs \subseteq Unspent(cash)
      /\ \E s : JointMinted(a, b, s)
  BY JointMints, TypeOKParts DEF BookSound
<1>2. PICK s : JointMinted(a, b, s)
  BY <1>1
<1>3. PICK paid : paid = orders[a].inputs \cup orders[b].inputs
  OBVIOUS
<1>4. ASSUME NEW owner, NEW tk
      PROVE  Moved(owner, tk, Sum(paid \cap CashFor(owner, tk)), Sum(Ids(s) \cap CashFor(owner, tk)))
  <2>1. PICK spent, both : spent = PairSpent(a, b) /\ both = {a, b}
    OBVIOUS
  <2>2. /\ s \in Seq(Outputs) /\ \A i \in 1..Len(s) : s[i].row.status # "Spent"
        /\ Mintable(spent, s) /\ cash' = Mint(spent, s)
    BY <1>2, <2>1 DEF JointMinted
  <2>3. spent = SpendCash(cash, paid, both) /\ paid \subseteq Unspent(cash)
    BY <1>1, <1>3, <2>1 DEF PairSpent
  <2>4. QED
    BY <2>2, <2>3, SpendAndMintHolding
<1>5. Dealt(orders[a], orders[b]) /\ Dealt(orders[b], orders[a])
  <2>1. Dealt(orders[a], orders[b])
    BY <1>1 DEF PairOf, Dealt
  <2>2. QED
    BY <1>1, <2>1, DealtBothWays
<1>6. ASSUME NEW o \in {a, b}, NEW p \in {a, b}, o # p
      PROVE  WithinLimits(orders[o], orders[p])
  <2>1. PICK x, y, fill, price : /\ x = orders[o] /\ y = orders[p]
                                 /\ fill = CoZkFill(a, b)
                                 /\ price = ExecutionPrice(orders[a], orders[b])
    OBVIOUS
  <2>2. x \in Order /\ y \in Order /\ Dealt(x, y)
    BY <1>1, <1>5, <1>6, <2>1
  <2>3. /\ fill \in Nat \ {0} /\ price \in Nat \ {0} /\ price = ExecutionPrice(x, y)
        /\ fill = Min2(x.qty, y.qty)
    <3>1. fill \in Nat \ {0} /\ price \in Nat \ {0}
      BY <1>1, <2>1, FillBounds, ExecutionPriceTyped
    <3>2. /\ ExecutionPrice(orders[a], orders[b]) = ExecutionPrice(orders[b], orders[a])
          /\ Min2(orders[a].qty, orders[b].qty) = Min2(orders[b].qty, orders[a].qty)
      BY <1>1, <1>5, DealtBothWays
    <3>3. QED
      BY <1>6, <2>1, <3>1, <3>2 DEF CoZkFill
  <2>4. /\ RecvToken(x) = LockToken(y) /\ LockToken(x) # LockToken(y)
        /\ Gets(x.side, fill, price) = Pays(y.side, fill, price)
    <3>1. x.pair[1] # x.pair[2]
      BY <1>1, <2>1 DEF PairOf
    <3>2. QED
      BY <2>2, <3>1, DealtBothWays
  <2>5. PICK pays, got, left, in :
          /\ pays = Pays(x.side, fill, price) /\ got = Pays(y.side, fill, price)
          /\ left = (IF o \in Survivors(a, b) THEN Pays(x.side, x.qty - fill, price) ELSE 0)
          /\ in = Sum(x.inputs)
    OBVIOUS
  <2>6. /\ pays \in Nat /\ got \in Nat /\ pays <= Pays(x.side, fill, x.price)
    <3>1. fill \in Nat
      BY <2>3
    <3>2. QED
      BY <2>2, <2>3, <2>5, <3>1, PaysWithin
  <2>7. left \in Nat /\ in = pays + left
    <3>1. in = Pays(x.side, x.qty, price) /\ x.qty \in Nat
      BY <1>1, <2>1, <2>2, <2>5, OrderFields DEF BackedExactly
    <3>2. CASE o \in Survivors(a, b)
      <4>1. x.qty - fill \in Nat \ {0}
        BY <1>1, <2>1, <3>2, FillBounds
      <4>2. left = Pays(x.side, x.qty - fill, price) /\ left \in Nat
        BY <2>3, <2>5, <3>2, <4>1, Trades
      <4>3. Pays(x.side, x.qty, price) = Pays(x.side, fill, price) + Pays(x.side, x.qty - fill, price)
        BY <2>3, <3>1, <4>1, PaysInParts
      <4>4. QED
        BY <2>5, <3>1, <4>2, <4>3
    <3>3. CASE o \notin Survivors(a, b)
      <4>1. x.qty = fill
        BY <2>1, <3>3 DEF Survivors, Filled
      <4>2. QED
        BY <2>5, <2>6, <3>1, <3>3, <4>1
    <3>4. QED
      BY <3>2, <3>3
  <2>8. ASSUME NEW tk
        PROVE  Sum(paid \cap CashFor(x.owner, tk)) = IF tk = LockToken(x) THEN in ELSE 0
    <3>1. /\ o \in LiveIn(orders) /\ p \in LiveIn(orders) /\ orders[o].owner # orders[p].owner
          /\ AllBacked(cash, orders) /\ paid = orders[o].inputs \cup orders[p].inputs
      BY <1>1, <1>3, <1>6 DEF BookSound
    <3>2. QED
      BY <2>1, <2>5, <3>1, PairPart
  <2>9. ASSUME NEW tk
        PROVE  Sum(Ids(s) \cap CashFor(x.owner, tk)) = JointPart(a, b, o, tk)
    BY <1>1, <1>2, <2>1, JointParts
  <2>10. JointPart(a, b, o, LockToken(y)) = got /\ JointPart(a, b, o, LockToken(x)) = left
    BY <2>1, <2>4, <2>5, <2>6, <2>7 DEF JointPart
  <2>11. Moved(x.owner, LockToken(y), 0, got)
    <3>1. Sum(paid \cap CashFor(x.owner, LockToken(y))) = 0
      BY <2>4, <2>8
    <3>2. QED
      BY <1>4, <2>9, <2>10, <3>1
  <2>12. Moved(x.owner, LockToken(x), in, left)
    <3>1. Sum(paid \cap CashFor(x.owner, LockToken(x))) = in
      BY <2>8
    <3>2. QED
      BY <1>4, <2>9, <2>10, <3>1
  <2>13. /\ in \in Nat /\ got = Pays(y.side, fill, price) /\ fill \in Nat
         /\ Pays(x.side, fill, price) <= in - left
         /\ in - left <= Pays(x.side, fill, x.price)
    BY <2>3, <2>5, <2>6, <2>7
  <2>14. WithinLimits(x, y)
    BY <2>2, <2>3, <2>6, <2>7, <2>11, <2>12, <2>13, MovesAreWithin
  <2>15. QED
    BY <2>1, <2>14
<1>7. QED
  BY <1>1, <1>6

\* Whichever protocol settles a pair of two owners in two tokens, each receives the smaller
\* quantity at the execution price and pays for it no more than at its own price.
THEOREM TradesStayWithinLimits ==
  ASSUME FreshOutputs, \A pair \in Pair : pair[1] # pair[2]
  PROVE  Spec => TradesWithinLimits
<1> DEFINE Traded ==
      \A o \in Paired :
        LET x == orders[o]
            y == orders[x.match]
            fill == Min2(x.qty, y.qty)
            price == ExecutionPrice(x, y)
            got == Holding(cash', x.owner, RecvToken(x)) - Holding(cash, x.owner, RecvToken(x))
            paid == Holding(cash, x.owner, LockToken(x)) - Holding(cash', x.owner, LockToken(x))
        IN (x.owner # y.owner /\ \E c \in x.inputs : cash'[c] # cash[c]) =>
             /\ got = Gets(x.side, fill, price)
             /\ Pays(x.side, fill, price) <= paid /\ paid <= Pays(x.side, fill, x.price)
<1>1. Init => BookSound /\ Solvent
  BY BookStaysSound, InitSolvent
<1>2. BookSound /\ Solvent /\ [Next]_vars => (BookSound /\ Solvent)'
  BY BookStaysSound, NextSolvent
<1>3. BookSound /\ Solvent /\ [Next]_vars => [Traded]_vars
  <2>1. SUFFICES ASSUME BookSound, Solvent, [Next]_vars, NEW o \in Paired,
                        orders[o].owner # orders[orders[o].match].owner,
                        NEW c \in orders[o].inputs, cash'[c] # cash[c]
                 PROVE  WithinLimits(orders[o], orders[orders[o].match])
    BY DEF WithinLimits
  <2>2. /\ TypeOK /\ AllBacked(cash, orders) /\ FiniteTable(cash) /\ TypedOrders(orders)
    BY <2>1, TypeOKParts DEF BookSound, Solvent, FiniteTable, Typed
  <2>3. o \in LiveIn(orders) /\ c \in DOMAIN cash /\ cash[c] = LockedRow(o)
    BY <2>1, <2>2 DEF Paired, LiveIn, AllBacked, BackedBy
  <2>4. ~LocksKept(cash, cash', LiveIn(orders))
    BY <2>1, <2>3 DEF LocksKept
  <2>5. PICK a \in DOMAIN orders, b \in DOMAIN orders : SettlesPair(a, b) /\ LocksTakenFrom(a, b)
    BY <2>1, <2>2, <2>4, NextLocks
  <2>6. o \in {a, b} /\ orders[a].match = b /\ orders[b].match = a
    BY <2>1, <2>3, <2>5 DEF LocksTakenFrom, LocksKept
  <2>7. /\ orders[a].owner # orders[b].owner
        /\ orders[a].pair[1] # orders[a].pair[2]
    <3>1. orders[a].pair \in Pair
      BY <2>2 DEF TypedOrders, Order
    <3>2. QED
      BY <2>1, <2>6, <3>1
  <2>8. WithinLimits(orders[a], orders[b]) /\ WithinLimits(orders[b], orders[a])
    BY <2>1, <2>2, <2>5, <2>7, SettleWithin, JointWithin DEF SettlesPair
  <2>9. QED
    BY <2>6, <2>8
<1>4. QED
  BY <1>1, <1>2, <1>3, PTL DEF Spec, TradesWithinLimits
=============================================================================
