------------------------------ MODULE LockProofs ------------------------------
(***************************************************************************)
(* The locks on cash: who gives them up, that none is left behind, and what *)
(* becomes of collateral when handlers stop halfway.                        *)
(***************************************************************************)
EXTENDS OrderBookProofs

-----------------------------------------------------------------------------
(***************************************************************************)
(* Locks: they are taken only for a live order and given up only with it.  *)
(***************************************************************************)
\* The settlement of the pair a, b is the one thing that takes locks away.
LocksTakenFrom(a, b) ==
  /\ a \in PairedIn(orders) /\ b \in PairedIn(orders)
  /\ orders[a].match = b /\ orders[b].match = a
  /\ "Done" \in {orders'[a].status, orders'[b].status}
  /\ LocksKept(cash, cash', LiveIn(orders) \ {a, b})

\* The order a joint settlement fills is Done, whatever the other one is matched with.
LEMMA CoZkCloses ==
  ASSUME NEW a \in DOMAIN orders, NEW b \in DOMAIN orders, TypeOK, SettleOrdersCoZk(a, b)
  PROVE  "Done" \in {orders'[a].status, orders'[b].status}
<1> DEFINE closed == Closed(orders, Filled(a, b))
<1>1. PICK ra \in Blinding, rb \in Blinding, rest \in Blinding :
        \/ Survivors(a, b) = {} /\ orders' = closed
        \/ \E x \in Survivors(a, b) :
             orders' \in MatchOrder(Relisted(closed, x, CoZkFill(a, b),
               (RecvOutputs(a, b, ra, rb) \o RemainderOutputs(a, b, rest))[3].id), x)
  BY Zenon DEF SettleOrdersCoZk, Relistings
<1>2. PICK y \in {a, b} : y \in Filled(a, b)
  BY DEF Filled, CoZkFill, Min2
<1>3. y \in DOMAIN closed /\ closed[y].status = "Done" /\ TypedOrders(closed)
  BY <1>2, ClosedLive, ClosedTyped, TypeOKParts
<1> HIDE DEF closed
<1>4. ASSUME NEW x \in Survivors(a, b), NEW in,
             orders' \in MatchOrder(Relisted(closed, x, CoZkFill(a, b), in), x)
      PROVE  orders'[y].status = "Done"
  <2> DEFINE new == Relisted(closed, x, CoZkFill(a, b), in)
  <2>1. x # y /\ x \in DOMAIN closed
    BY <1>2, OneSurvivor, ClosedLive, TypeOKParts DEF closed
  <2>2. /\ x \in DOMAIN new /\ y \in DOMAIN new
        /\ new[y] = closed[y] /\ new[x] = Remainder(closed[x], CoZkFill(a, b), in)
    BY <1>3, <2>1 DEF Relisted
  <2>3. new[x].status = "Pending"
    BY <1>3, <2>1, <2>2 DEF Remainder, TypedOrders, Order
  <2> HIDE DEF new
  <2>4. new[y].status # "Pending"
    BY <1>3, <2>2
  <2>5. orders'[y] = new[y]
    <3>1. orders' \in MatchOrder(new, x)
      BY <1>4 DEF new
    <3>2. QED
      BY <2>2, <2>3, <2>4, <3>1, MatchLeavesPaired
  <2>6. QED
    BY <1>3, <2>2, <2>5
<1>5. orders'[y].status = "Done"
  BY <1>1, <1>3, <1>4
<1>6. QED
  BY <1>2, <1>5

\* The pair a, b is settled, by legs or jointly.
SettlesPair(a, b) ==
  SettleOrdersCoZk(a, b) \/ \E leg \in WalletLegs(a, b) : SettleOrders(a, b, leg)

\* Every step keeps every lock, or settles one pair and keeps those of all others.
LEMMA NextLocks ==
  ASSUME FreshOutputs, TypeOK, AllBacked(cash, orders), [Next]_vars
  PROVE  \/ LocksKept(cash, cash', LiveIn(orders))
         \/ \E a, b \in DOMAIN orders : SettlesPair(a, b) /\ LocksTakenFrom(a, b)
<1>0. cash' = cash => LocksKept(cash, cash', LiveIn(orders))
  BY DEF LocksKept
<1>1. CASE LedgerStep
  BY <1>1, LedgerKeepsLocks DEF LedgerStep
<1>2. CASE PlaceOrder
  <2>1. ASSUME NEW ins \in RequestInputs, NEW pair \in Pair, NEW side \in Side,
               NEW price \in Price, NEW fee \in Fee, NEW qty \in Quantity,
               SendOrder(OwnerOf(ins), pair, side, price, fee, qty, ins)
        PROVE  LocksKept(cash, cash', LiveIn(orders))
    <3>1. cash' = LockCash(cash, ins, ins) /\ ins \subseteq ActiveCash(cash)
      BY <2>1 DEF SendOrder, ValidInputs
    <3>2. QED
      BY <3>1, LockActive
  <2>2. ASSUME NEW ins \in RequestInputs, NEW pair \in Pair, NEW side \in Side,
               NEW price \in Price, NEW fee \in Fee, NEW qty \in Quantity,
               SendOrderSplit(OwnerOf(ins), pair, side, price, fee, qty, ins)
        PROVE  LocksKept(cash, cash', LiveIn(orders))
    <3> DEFINE spent == SpendCash(cash, ins, {ins})
    <3>1. /\ ins \subseteq ActiveCash(cash)
          /\ \E outs : cash' = Mint(spent, outs) \/ MintFails(spent, outs, cash')
      BY <2>2, Zenon DEF SendOrderSplit, ValidInputs
    <3>2. LocksKept(cash, spent, LiveIn(orders))
      BY <3>1, SpendActive
    <3> HIDE DEF spent
    <3>3. QED
      BY <3>1, <3>2, MintKeepsLocks DEF Mint, MintFails
  <2>3. QED
    BY <1>2, <2>1, <2>2 DEF PlaceOrder
<1>3. CASE LegacySettle
  <2>1. PICK a \in DOMAIN orders, b \in DOMAIN orders :
          \/ CompareOrders(a, b)
          \/ \E leg \in WalletLegs(a, b) : \/ SettleOrdersStore(a, b, leg)
                                         \/ SettleOrders(a, b, leg)
                                         \/ SettleOrdersFails(a, b, leg)
    BY <1>3, Zenon DEF LegacySettle
  <2>2. ASSUME NEW leg \in WalletLegs(a, b), SettleOrders(a, b, leg)
        PROVE  LocksTakenFrom(a, b)
    <3>1. /\ cash' = Mint(PairSpent(a, b), SettledOutputs(a, b, leg))
          /\ orders' = Closed(orders, {a, b})
          /\ SettleRequest(a, b, leg)
      BY <2>2, Zenon DEF SettleOrders, SettleVerified
    <3>2. /\ a \in PairedIn(orders) /\ b \in PairedIn(orders)
          /\ orders[a].match = b /\ orders[b].match = a
          /\ a \in LiveIn(orders) /\ b \in LiveIn(orders)
      BY <3>1 DEF SettleRequest, MutuallyMatched, PairedIn, LiveIn
    <3>3. LocksKept(cash, cash', LiveIn(orders) \ {a, b})
      BY <3>1, <3>2, SpendPair, MintKeepsLocks DEF Mint
    <3>4. orders'[a].status = "Done"
      BY <3>1, ClosedLive, TypeOKParts
    <3>5. QED
      BY <3>2, <3>3, <3>4 DEF LocksTakenFrom
  <2>3. CompareOrders(a, b) => cash' = cash
    BY DEF CompareOrders, ledger
  <2>4. \A leg : SettleOrdersStore(a, b, leg) => cash' = cash
    BY DEF SettleOrdersStore, ledger
  <2>5. QED
    BY <1>0, <2>1, <2>2, <2>3, <2>4, SettleNeverFails DEF SettlesPair
<1>4. ASSUME NEW a \in DOMAIN orders, NEW b \in DOMAIN orders, SettleOrdersCoZk(a, b)
      PROVE  LocksTakenFrom(a, b)
  <2>1. /\ MutuallyMatched(a, b, "Matched")
        /\ \E outs : cash' = Mint(PairSpent(a, b), outs)
    BY <1>4, Zenon DEF SettleOrdersCoZk, CoZkVerified, CoZkPair
  <2>2. /\ a \in PairedIn(orders) /\ b \in PairedIn(orders)
        /\ orders[a].match = b /\ orders[b].match = a
        /\ a \in LiveIn(orders) /\ b \in LiveIn(orders)
    BY <2>1 DEF MutuallyMatched, PairedIn, LiveIn
  <2>3. LocksKept(cash, cash', LiveIn(orders) \ {a, b})
    BY <2>1, <2>2, SpendPair, MintKeepsLocks DEF Mint
  <2>4. QED
    BY <1>4, <2>2, <2>3, CoZkCloses DEF LocksTakenFrom
<1>5. CASE JointSettle
  BY <1>4, <1>5, CoZkNeverFails DEF JointSettle, SettlesPair
<1>6. QED
  <2>1. NextBlock \/ UNCHANGED vars \/ (\E o \in DOMAIN orders : RegisterSettleAddr(o)) => cash' = cash
    BY DEF NextBlock, RegisterSettleAddr, ledger, vars
  <2>2. QED
    BY <1>0, <1>1, <1>2, <1>3, <1>5, <2>1 DEF Next

\* Collateral is never taken from an order that rests, by no one's withdrawal, placement or
\* settlement, and when it is taken from a paired order, one of the pair has been filled.
THEOREM LocksAreHeld ==
  ASSUME FreshOutputs
  PROVE  Spec => LocksHeld
<1> DEFINE Held ==
      \A o \in DOMAIN orders : \A c \in orders[o].inputs :
        (Live(o) /\ cash'[c] # cash[c]) =>
          /\ o \in Paired
          /\ "Done" \in {orders'[o].status, orders'[orders[o].match].status}
<1>1. Init => TypeOK /\ AllBacked(cash, orders)
  BY InitTyped, InitBacked
<1>2. TypeOK /\ AllBacked(cash, orders) /\ [Next]_vars => (TypeOK /\ AllBacked(cash, orders))'
  BY NextTyped, NextBacked
<1>3. TypeOK /\ AllBacked(cash, orders) /\ [Next]_vars => [Held]_vars
  <2> SUFFICES ASSUME TypeOK, AllBacked(cash, orders), [Next]_vars,
                      NEW o \in DOMAIN orders, NEW c \in orders[o].inputs,
                      Live(o), cash'[c] # cash[c]
               PROVE  /\ o \in Paired
                      /\ "Done" \in {orders'[o].status, orders'[orders[o].match].status}
    OBVIOUS
  <2>1. o \in LiveIn(orders) /\ c \in DOMAIN cash /\ cash[c] = LockedRow(o)
    BY DEF Live, LiveIn, AllBacked, BackedBy
  <2>2. ~LocksKept(cash, cash', LiveIn(orders))
    BY <2>1 DEF LocksKept
  <2>3. PICK a \in DOMAIN orders, b \in DOMAIN orders : LocksTakenFrom(a, b)
    BY <2>2, NextLocks
  <2>4. o \in {a, b}
    BY <2>1, <2>3 DEF LocksTakenFrom, LocksKept
  <2>5. QED
    BY <2>3, <2>4 DEF LocksTakenFrom, PairedIn, Paired
<1>4. QED
  BY <1>1, <1>2, <1>3, PTL DEF Spec, LocksHeld

\* No cash of t is locked but for a live order of os that lists it.
NoOrphans(t, os) ==
  \A c \in DOMAIN t : t[c].status = "Locked" => \E o \in LiveIn(os) : c \in os[o].inputs

\* The orders of keep stay live over the same cash.
InputsStay(os, new, keep) ==
  \A o \in keep : o \in LiveIn(new) /\ new[o].inputs = os[o].inputs

\* What the table u locks and t does not is in extra.
OnlyLocks(t, u, extra) ==
  \A c \in DOMAIN u : u[c].status = "Locked" =>
    (c \in DOMAIN t /\ t[c].status = "Locked") \/ c \in extra

\* Outputs of status Active only.
AllActive(outs) == \A i \in 1..Len(outs) : outs[i].row = ActiveRow

\* A minted cash that is locked is an output that says so.
LEMMA MintedLocks ==
  ASSUME NEW t, NEW outs, NEW k, NEW c \in DOMAIN Minted(t, outs, k), c \notin DOMAIN t
  PROVE  \E i \in 1..k : outs[i].id = c /\ Minted(t, outs, k)[c] = outs[i].row
<1>1. c \in {outs[i].id : i \in 1..k}
  BY DEF Minted
<1>2. PICK i \in 1..k : outs[i].id = c
  BY <1>1
<1> DEFINE j == CHOOSE x \in 1..k : outs[x].id = c
<1>3. j \in 1..k /\ outs[j].id = c
  BY <1>2
<1>4. Minted(t, outs, k)[c] = outs[j].row
  BY DEF Minted
<1>5. QED
  BY <1>3, <1>4

\* Spending locks nothing, minting locks what it mints Locked.
LEMMA MintLocksOnly ==
  ASSUME NEW t, NEW cs, NEW os, NEW outs, NEW k, NEW extra,
         \A i \in 1..k : outs[i].row.status = "Locked" => outs[i].id \in extra
  PROVE  /\ OnlyLocks(t, Minted(t, outs, k), extra)
         /\ OnlyLocks(t, Minted(SpendCash(t, cs, os), outs, k), extra)
         /\ \A c \in cs \cap DOMAIN t :
              Minted(SpendCash(t, cs, os), outs, k)[c].status # "Locked"
<1>1. \A u : OnlyLocks(u, Minted(u, outs, k), extra)
  <2> SUFFICES ASSUME NEW u, NEW c \in DOMAIN Minted(u, outs, k), c \notin extra,
                      Minted(u, outs, k)[c].status = "Locked"
               PROVE  c \in DOMAIN u /\ u[c].status = "Locked"
    BY DEF OnlyLocks
  <2>1. CASE c \in DOMAIN u
    BY <2>1, MintKeeps
  <2>2. CASE c \notin DOMAIN u
    BY <2>2, MintedLocks
  <2>3. QED
    BY <2>1, <2>2
<1> DEFINE spent == SpendCash(t, cs, os)
<1>2. /\ DOMAIN spent = DOMAIN t
      /\ \A c \in DOMAIN t : spent[c].status = "Locked" => t[c].status = "Locked"
      /\ \A c \in cs \cap DOMAIN t : spent[c].status = "Spent"
  BY DEF SpendCash, SpentRow
<1> HIDE DEF spent
<1>3. OnlyLocks(t, Minted(spent, outs, k), extra)
  BY <1>1, <1>2 DEF OnlyLocks
<1>4. \A c \in cs \cap DOMAIN t : Minted(spent, outs, k)[c] = spent[c]
  BY <1>2, MintKeeps
<1>5. QED
  BY <1>1, <1>2, <1>3, <1>4 DEF spent

\* Active outputs lock nothing, even when only the first k are minted.
LEMMA ActiveMintLocksNothing ==
  ASSUME NEW t, NEW cs, NEW os, NEW outs, Len(outs) \in Nat, NEW k \in 0..Len(outs),
         AllActive(outs)
  PROVE  /\ OnlyLocks(t, Minted(t, outs, k), {})
         /\ OnlyLocks(t, Minted(SpendCash(t, cs, os), outs, k), {})
         /\ \A c \in cs \cap DOMAIN t :
              Minted(SpendCash(t, cs, os), outs, k)[c].status # "Locked"
<1>1. PICK none : none = {}
  OBVIOUS
<1>2. \A i \in 1..k : outs[i].row.status = "Locked" => outs[i].id \in none
  BY DEF AllActive, ActiveRow
<1>3. /\ OnlyLocks(t, Minted(t, outs, k), none)
      /\ OnlyLocks(t, Minted(SpendCash(t, cs, os), outs, k), none)
      /\ \A c \in cs \cap DOMAIN t :
           Minted(SpendCash(t, cs, os), outs, k)[c].status # "Locked"
  BY <1>2, MintLocksOnly
<1>4. QED
  BY <1>1, <1>3

\* With the live orders as they were, or gone with all their cash, no lock is orphaned.
LEMMA StillNoOrphans ==
  ASSUME NEW t, NEW u, NEW os, NEW new, NEW gone, NEW extra, NoOrphans(t, os),
         OnlyLocks(t, u, extra), InputsStay(os, new, LiveIn(os) \ gone),
         \A o \in gone : \A c \in os[o].inputs :
           c \notin DOMAIN u \/ u[c].status # "Locked" \/ c \in extra,
         \A c \in extra : \E o \in LiveIn(new) : c \in new[o].inputs
  PROVE  NoOrphans(u, new)
<1> SUFFICES ASSUME NEW c \in DOMAIN u, u[c].status = "Locked", c \notin extra
             PROVE  \E o \in LiveIn(new) : c \in new[o].inputs
  BY DEF NoOrphans
<1>1. PICK o \in LiveIn(os) : c \in os[o].inputs
  BY DEF OnlyLocks, NoOrphans
<1>2. o \notin gone
  BY <1>1
<1>3. QED
  BY <1>1, <1>2 DEF InputsStay

\* The same when nothing is locked anew: the cash of the orders that are gone is unlocked.
LEMMA PairGone ==
  ASSUME NEW t, NEW u, NEW os, NEW new, NEW gone, NoOrphans(t, os), OnlyLocks(t, u, {}),
         InputsStay(os, new, LiveIn(os) \ gone),
         \A o \in gone : \A c \in os[o].inputs : c \notin DOMAIN u \/ u[c].status # "Locked"
  PROVE  NoOrphans(u, new)
<1>1. PICK none : none = {}
  OBVIOUS
<1>2. OnlyLocks(t, u, none) /\ \A c \in none : \E o \in LiveIn(new) : c \in new[o].inputs
  BY <1>1
<1>3. \A o \in gone : \A c \in os[o].inputs :
        c \notin DOMAIN u \/ u[c].status # "Locked" \/ c \in none
  OBVIOUS
<1>4. QED
  BY <1>2, <1>3, StillNoOrphans

\* A match takes no order off the book.
LEMMA MatchInputsStay ==
  ASSUME NEW os, NEW id \in DOMAIN os, NEW new \in MatchOrder(os, id),
         os[id].status = "Pending", TypedOrders(os)
  PROVE  InputsStay(os, new, LiveIn(os)) /\ id \in LiveIn(new) /\ new[id].inputs = os[id].inputs
<1>1. CASE new = os
  BY <1>1 DEF InputsStay, LiveIn
<1>2. ASSUME NEW d \in CompatibleOrders(os, os[id]), new = Linked(os, id, d)
      PROVE  InputsStay(os, new, LiveIn(os))
  <2>1. d \in DOMAIN os /\ d # id
    BY CandidatesRest
  <2>2. /\ DOMAIN new = DOMAIN os
        /\ \A o \in DOMAIN os : SameTerms(os[o], new[o])
        /\ \A o \in DOMAIN os \ {id, d} : new[o] = os[o]
        /\ new[id].status = "Matched" /\ new[d].status = "Matched"
    BY <1>2, <2>1, LinkKeepsTerms
  <2>3. QED
    BY <2>2 DEF InputsStay, LiveIn, SameTerms
<1>3. InputsStay(os, new, LiveIn(os))
  BY <1>1, <1>2, MatchOrderShape
<1>4. QED
  BY <1>3 DEF InputsStay, LiveIn

\* An inserted order is live over its cash, and so are those that were there.
LEMMA InsertedInputs ==
  ASSUME NEW ins \in OrderId, NEW ord \in Order, TypedOrders(orders), Inserted(ins, ord),
         ord.status = "Pending"
  PROVE  /\ InputsStay(orders, orders', LiveIn(orders))
         /\ ins \in LiveIn(orders') /\ orders'[ins].inputs = ord.inputs
<1> DEFINE os == Put(orders, ins, ord)
<1>1. /\ TypedOrders(os) /\ ins \in DOMAIN os /\ os[ins] = ord
      /\ \A o \in DOMAIN orders : o \in DOMAIN os /\ os[o] = orders[o]
  BY PutOrder DEF Inserted, Put
<1>2. orders' \in MatchOrder(os, ins)
  BY DEF Inserted
<1> HIDE DEF os
<1>3. /\ InputsStay(os, orders', LiveIn(os))
      /\ ins \in LiveIn(orders') /\ orders'[ins].inputs = os[ins].inputs
  BY <1>1, <1>2, MatchInputsStay
<1>4. QED
  BY <1>1, <1>3 DEF InputsStay, LiveIn

-----------------------------------------------------------------------------
\* Deposits, withdrawals and restarts lock nothing.
LEMMA LedgerLocksNothing ==
  ASSUME LedgerNext
  PROVE  OnlyLocks(cash, cash', {})
<1>1. CASE Restart
  BY <1>1 DEF Restart, Seeded, ActiveRow, OnlyLocks
<1>2. ASSUME NEW owner, NEW token, NEW amt, NEW r, Deposit(owner, token, amt, r)
      PROVE  OnlyLocks(cash, cash', {})
  <2> DEFINE outs == <<Output(Cash(owner, token, amt, r), ActiveRow)>>
  <2>1. cash' = Mint(cash, outs)
    BY <1>2 DEF Deposit
  <2>2. AllActive(outs) /\ Len(outs) = 1
    BY DEF AllActive, Output
  <2> HIDE DEF outs
  <2>3. Len(outs) \in Nat /\ Len(outs) \in 0..Len(outs)
    BY <2>2
  <2>4. QED
    BY <2>1, <2>2, <2>3, ActiveMintLocksNothing DEF Mint
<1>3. ASSUME NEW cs, NEW out, NEW to, NEW r, Withdraw(cs, out, to, r)
      PROVE  OnlyLocks(cash, cash', {})
  <2> DEFINE outs == WithdrawOutputs(to, TokenOf(cs), Sum(cs) - out, r)
  <2>1. cash' = Mint(SpendCash(cash, cs, {}), outs)
    BY <1>3, Zenon DEF Withdraw
  <2>2. AllActive(outs) /\ Len(outs) \in {0, 1}
    BY DEF AllActive, WithdrawOutputs, Output
  <2> HIDE DEF outs
  <2>3. Len(outs) \in Nat /\ Len(outs) \in 0..Len(outs)
    BY <2>2
  <2>4. QED
    BY <2>1, <2>2, <2>3, ActiveMintLocksNothing DEF Mint
<1>4. ASSUME NEW cs, NEW out, NEW to, NEW r, WithdrawFails(cs, out, to, r)
      PROVE  OnlyLocks(cash, cash', {})
  <2> DEFINE spent == SpendCash(cash, cs, {})
             outs == WithdrawOutputs(to, TokenOf(cs), Sum(cs) - out, r)
  <2>1. PICK k \in 0..(Len(outs) - 1) : cash' = Minted(spent, outs, k)
    BY <1>4, Zenon DEF WithdrawFails, MintFails
  <2>2. AllActive(outs) /\ Len(outs) \in {0, 1}
    BY DEF AllActive, WithdrawOutputs, Output
  <2> HIDE DEF outs
  <2>3. Len(outs) \in Nat /\ k \in 0..Len(outs)
    BY <2>2
  <2>4. QED
    BY <2>1, <2>2, <2>3, ActiveMintLocksNothing
<1>5. QED
  BY <1>1, <1>2, <1>3, <1>4 DEF LedgerNext

\* A placement locks what the new order lists.
LEMMA PlaceNoOrphans ==
  ASSUME FreshOutputs, TypeOK, NoOrphans(cash, orders), PlaceOrder
  PROVE  NoOrphans(cash', orders')
<1>1. ASSUME NEW ins \in RequestInputs, NEW pair \in Pair, NEW side \in Side,
             NEW price \in Price, NEW fee \in Fee, NEW qty \in Quantity,
             SendOrder(OwnerOf(ins), pair, side, price, fee, qty, ins)
      PROVE  NoOrphans(cash', orders')
  <2> DEFINE ord == NewOrder(OwnerOf(ins), pair, side, price, fee, qty, ins)
  <2>1. /\ ValidInputs(ins, OwnerOf(ins), LockToken(ord))
        /\ cash' = LockCash(cash, ins, ins)
        /\ Inserted(ins, ord)
    BY <1>1 DEF SendOrder
  <2>2. ins \in OrderId /\ OwnerOf(ins) \in Trader
    BY <2>1, InputsAreOrderId, TypeOKParts
  <2>3. ord \in Order /\ ord.status = "Pending" /\ ord.inputs = ins
    BY <2>2, NewOrderTyped, TypeOKParts DEF NewOrder
  <2> HIDE DEF ord
  <2>4. /\ InputsStay(orders, orders', LiveIn(orders))
        /\ ins \in LiveIn(orders') /\ orders'[ins].inputs = ins
    BY <2>1, <2>2, <2>3, InsertedInputs, TypeOKParts
  <2>5. OnlyLocks(cash, cash', ins)
    BY <2>1 DEF OnlyLocks, LockCash
  <2>6. \A c \in ins : \E o \in LiveIn(orders') : c \in orders'[o].inputs
    BY <2>4
  <2>7. InputsStay(orders, orders', LiveIn(orders) \ {})
    BY <2>4 DEF InputsStay
  <2>8. QED
    BY <2>5, <2>6, <2>7, StillNoOrphans
<1>2. ASSUME NEW ins \in RequestInputs, NEW pair \in Pair, NEW side \in Side,
             NEW price \in Price, NEW fee \in Fee, NEW qty \in Quantity,
             SendOrderSplit(OwnerOf(ins), pair, side, price, fee, qty, ins)
      PROVE  NoOrphans(cash', orders')
  <2> DEFINE owner == OwnerOf(ins)
             locked == Pays(side, qty, price)
             change == Sum(ins) - locked
             token == IF side = "Buy" THEN pair[2] ELSE pair[1]
             spent == SpendCash(cash, ins, {ins})
             outs(rl, rc) == SplitOutputs(owner, token, ins, locked, change, rl, rc)
             new(in) == NewOrder(owner, pair, side, price, fee, qty, {in})
  <2>1. ins \in OrderId /\ owner \in Trader /\ token \in Token
    BY <1>2, InputsAreOrderId, TypeOKParts DEF SendOrderSplit, ValidInputs
  <2>2. locked \in Nat \ {0} /\ change \in Nat \ {0}
    BY <1>2, Trades, NumbersAssumption DEF SendOrderSplit
  <2>3. PICK rl \in Blinding, rc \in Blinding :
          /\ WalletMayName(outs(rl, rc))
          /\ \/ /\ cash' = Mint(spent, outs(rl, rc))
                /\ Inserted(ins, new(outs(rl, rc)[1].id))
             \/ MintFails(spent, outs(rl, rc), cash')
    BY <1>2, Zenon DEF SendOrderSplit
  <2> DEFINE s == outs(rl, rc)
             in == s[1].id
  <2>4. Len(s) = 2 /\ {in} \in OrderId
    <3> HIDE DEF owner, locked, change, token
    <3>1. QED
      BY <2>1, <2>2, SplitOutputsTyped
  <2>5. s[2].row = ActiveRow
    BY DEF SplitOutputs, Output
  <2>6. new(in) \in Order /\ new(in).status = "Pending" /\ new(in).inputs = {in}
    <3>1. new(in) \in Order
      BY <2>1, <2>4, NewOrderTyped, TypeOKParts
    <3>2. QED
      BY <3>1 DEF NewOrder
  <2>7. WalletMayName(s) /\ (\/ cash' = Mint(spent, s) /\ Inserted(ins, new(in))
                             \/ MintFails(spent, s, cash'))
    BY <2>3
  <2> HIDE DEF s, in, new
  <2>8. cash' = Mint(spent, s) /\ Inserted(ins, new(in))
    <3>1. Len(s) \in Nat /\ DOMAIN spent = DOMAIN cash
      BY <2>4 DEF SpendCash
    <3> HIDE DEF spent
    <3>2. ~MintFails(spent, s, cash')
      BY <2>7, <3>1, FreshNeverFails, Zenon
    <3>3. QED
      BY <2>7, <3>2
  <2>9. /\ InputsStay(orders, orders', LiveIn(orders) \ {})
        /\ ins \in LiveIn(orders') /\ orders'[ins].inputs = {in}
    BY <2>1, <2>6, <2>8, InsertedInputs, TypeOKParts DEF InputsStay
  <2>10. \A i \in 1..Len(s) : s[i].row.status = "Locked" => s[i].id \in {in}
    <3>1. 1..Len(s) = {1, 2}
      BY <2>4
    <3>2. QED
      BY <2>5, <3>1 DEF ActiveRow, in
  <2>11. OnlyLocks(cash, cash', {in})
    BY <2>8, <2>10, MintLocksOnly DEF Mint
  <2>12. \A c \in {in} : \E o \in LiveIn(orders') : c \in orders'[o].inputs
    BY <2>9
  <2>13. QED
    BY <2>9, <2>11, <2>12, StillNoOrphans
<1>3. QED
  BY <1>1, <1>2 DEF PlaceOrder

-----------------------------------------------------------------------------
\* A comparison moves a pair to Settling: both stay live.
LEMMA CompareInputsStay ==
  ASSUME NEW a, NEW b, TypeOK, CompareOrders(a, b)
  PROVE  InputsStay(orders, orders', LiveIn(orders)) /\ cash' = cash
<1>1. /\ a \in DOMAIN orders /\ b \in DOMAIN orders /\ cash' = cash
      /\ orders[a] \in Order /\ orders[b] \in Order
  BY TypeOKParts DEF CompareOrders, MutuallyMatched, ledger, TypedOrders
<1>2. CASE orders' = orders
  BY <1>1, <1>2 DEF InputsStay
<1>3. ASSUME NEW cmp, orders' = Compared(orders, a, b, cmp)
      PROVE  InputsStay(orders, orders', LiveIn(orders))
  <2>1. /\ DOMAIN orders' = DOMAIN orders
        /\ \A o \in DOMAIN orders \ {a, b} : orders'[o] = orders[o]
        /\ \A o \in {a, b} : /\ orders'[o].inputs = orders[o].inputs
                             /\ orders'[o].status = "Settling"
    BY <1>1, <1>3 DEF Compared, Order
  <2>2. QED
    BY <2>1 DEF InputsStay, LiveIn
<1>4. QED
  BY <1>1, <1>2, <1>3 DEF CompareOrders

\* A legacy settlement spends the cash of the two orders it closes, and mints none Locked.
LEMMA SettleNoOrphans ==
  ASSUME NEW a \in DOMAIN orders, NEW b \in DOMAIN orders, NEW leg, TypeOK,
         NoOrphans(cash, orders), SettleOrders(a, b, leg)
  PROVE  NoOrphans(cash', orders')
<1> DEFINE outs == SettledOutputs(a, b, leg)
<1>1. /\ cash' = Mint(PairSpent(a, b), outs)
      /\ orders' = Closed(orders, {a, b})
  BY Zenon DEF SettleOrders
<1>2. AllActive(outs) /\ Len(outs) \in {2, 3}
  BY DEF AllActive, SettledOutputs, LegOutputs, Output
<1> HIDE DEF outs
<1>3. Len(outs) \in Nat /\ Len(outs) \in 0..Len(outs)
  BY <1>2
<1>4. /\ OnlyLocks(cash, cash', {})
      /\ \A c \in (orders[a].inputs \cup orders[b].inputs) \cap DOMAIN cash : cash'[c].status # "Locked"
  BY <1>1, <1>2, <1>3, ActiveMintLocksNothing DEF PairSpent, Mint
<1>5. InputsStay(orders, orders', LiveIn(orders) \ {a, b})
  BY <1>1, ClosedLive, TypeOKParts DEF InputsStay, LiveIn
<1>6. PICK gone : gone = {a, b}
  OBVIOUS
<1>7. /\ InputsStay(orders, orders', LiveIn(orders) \ gone)
      /\ \A o \in gone : \A c \in orders[o].inputs :
           c \notin DOMAIN cash' \/ cash'[c].status # "Locked"
  BY <1>4, <1>5, <1>6 DEF OnlyLocks
<1>8. QED
  BY <1>4, <1>7, PairGone

\* Of the outputs of a joint settlement only the third, the remainder, is Locked.
LEMMA JointOutputsLock ==
  ASSUME NEW a \in DOMAIN orders, NEW b \in DOMAIN orders, TypeOK,
         NEW ra \in Blinding, NEW rb \in Blinding, NEW rest \in Blinding,
         NEW s, s = RecvOutputs(a, b, ra, rb) \o RemainderOutputs(a, b, rest),
         NEW i \in 1..Len(s), s[i].row.status = "Locked"
  PROVE  i = 3 /\ Survivors(a, b) # {}
<1> DEFINE recvs == RecvOutputs(a, b, ra, rb)
           rems == RemainderOutputs(a, b, rest)
<1>1. /\ recvs \in Seq(Outputs) /\ Len(recvs) = 2 /\ rems \in Seq(Outputs)
      /\ Survivors(a, b) # {} => Len(rems) = 1
      /\ Survivors(a, b) = {} => Len(rems) = 0
  BY RecvTyped, RemainderTyped, TypeOKParts
<1>2. recvs[1].row = ActiveRow /\ recvs[2].row = ActiveRow
  BY DEF RecvOutputs, RecvOutput, Output
<1> HIDE DEF recvs, rems
<1>3. /\ Len(s) = Len(recvs) + Len(rems)
      /\ \A j \in 1..(Len(recvs) + Len(rems)) :
           s[j] = IF j <= Len(recvs) THEN recvs[j] ELSE rems[j - Len(recvs)]
  BY <1>1, ConcatProperties, Zenon DEF recvs, rems
<1>4. i \notin {1, 2}
  BY <1>1, <1>2, <1>3 DEF ActiveRow
<1>5. QED
  BY <1>1, <1>3, <1>4

\* A joint settlement: the pair's cash is spent, the remainder is listed by the relisted order.
LEMMA CoZkNoOrphans ==
  ASSUME NEW a \in DOMAIN orders, NEW b \in DOMAIN orders, TypeOK,
         NoOrphans(cash, orders), SettleOrdersCoZk(a, b)
  PROVE  NoOrphans(cash', orders')
<1> DEFINE outs(ra, rb, rest) == RecvOutputs(a, b, ra, rb) \o RemainderOutputs(a, b, rest)
           closed == Closed(orders, Filled(a, b))
           fill == CoZkFill(a, b)
<1>1. PICK ra \in Blinding, rb \in Blinding, rest \in Blinding :
        /\ cash' = Mint(PairSpent(a, b), outs(ra, rb, rest))
        /\ \/ Survivors(a, b) = {} /\ orders' = closed
           \/ \E x \in Survivors(a, b) :
                orders' \in MatchOrder(Relisted(closed, x, fill, outs(ra, rb, rest)[3].id), x)
  BY Zenon DEF SettleOrdersCoZk, Relistings
<1>2. PICK s : s = outs(ra, rb, rest)
  OBVIOUS
<1>3. \A i \in 1..Len(s) : s[i].row.status = "Locked" => i = 3 /\ Survivors(a, b) # {}
  BY <1>2, JointOutputsLock
<1>4. /\ TypedOrders(closed) /\ DOMAIN closed = DOMAIN orders
      /\ \A o \in DOMAIN orders \ Filled(a, b) : closed[o] = orders[o]
      /\ LiveIn(closed) = LiveIn(orders) \ Filled(a, b)
      /\ Filled(a, b) \subseteq {a, b}
  BY ClosedLive, ClosedTyped, TypeOKParts DEF Filled
<1> HIDE DEF closed, outs
<1>5. ASSUME NEW extra, NEW gone, gone = {a, b},
             \A i \in 1..Len(s) : s[i].row.status = "Locked" => s[i].id \in extra
      PROVE  /\ OnlyLocks(cash, cash', extra)
             /\ \A o \in gone : \A c \in orders[o].inputs :
                  c \notin DOMAIN cash' \/ cash'[c].status # "Locked" \/ c \in extra
  <2>1. /\ OnlyLocks(cash, cash', extra)
        /\ \A c \in (orders[a].inputs \cup orders[b].inputs) \cap DOMAIN cash :
             cash'[c].status # "Locked"
    BY <1>1, <1>2, <1>5, MintLocksOnly DEF PairSpent, Mint
  <2>2. QED
    BY <1>5, <2>1 DEF OnlyLocks
<1>6. CASE Survivors(a, b) = {} /\ orders' = closed
  <2>1. InputsStay(orders, orders', LiveIn(orders) \ {a, b})
    BY <1>4, <1>6 DEF InputsStay, LiveIn
  <2>2. PICK none, gone : none = {} /\ gone = {a, b}
    OBVIOUS
  <2>3. \A i \in 1..Len(s) : s[i].row.status = "Locked" => s[i].id \in none
    BY <1>3, <1>6
  <2>4. \A c \in none : \E o \in LiveIn(orders') : c \in orders'[o].inputs
    BY <2>2
  <2>5. /\ OnlyLocks(cash, cash', none)
        /\ \A o \in gone : \A c \in orders[o].inputs :
             c \notin DOMAIN cash' \/ cash'[c].status # "Locked" \/ c \in none
    BY <1>5, <2>2, <2>3
  <2>6. InputsStay(orders, orders', LiveIn(orders) \ gone)
    BY <2>1, <2>2
  <2>7. QED
    BY <2>4, <2>5, <2>6, StillNoOrphans
<1>7. ASSUME NEW x \in Survivors(a, b),
             orders' \in MatchOrder(Relisted(closed, x, fill, s[3].id), x)
      PROVE  NoOrphans(cash', orders')
  <2> DEFINE in == s[3].id
             new == Relisted(closed, x, fill, in)
  <2>1. x \in {a, b} /\ x \in DOMAIN orders /\ closed[x] = orders[x]
    BY <1>4, OneSurvivor, TypeOKParts
  <2>2. in \in CashId
    <3>1. s \in Seq(Outputs) /\ Len(s) = 3
      <4>1. s \in Seq(Outputs) /\ (Survivors(a, b) # {} => Len(s) = 3)
        BY <1>2, CoZkOutputsTyped, TypeOKParts DEF outs
      <4>2. QED
        BY <4>1
    <3>2. Len(s) \in Nat /\ 3 \in 1..Len(s)
      BY <3>1
    <3>3. s[3] \in Outputs
      BY <3>1, <3>2, ElementOfSeq
    <3>4. QED
      BY <3>3 DEF Outputs
  <2>3. /\ TypedOrders(new) /\ DOMAIN new = DOMAIN orders
        /\ new[x] = Remainder(closed[x], fill, in)
        /\ \A o \in DOMAIN orders \ {x} : new[o] = closed[o]
    <3>1. closed[x].qty - fill \in Nat \ {0}
      BY <2>1, FillBounds, TypeOKParts
    <3>2. TypedOrders(new) /\ DOMAIN new = DOMAIN orders
      BY <1>4, <2>1, <2>2, <3>1, RelistedTyped
    <3>3. QED
      BY <1>4, <2>1, <3>2 DEF Relisted
  <2>4. new[x].status = "Pending" /\ new[x].inputs = {in}
    BY <1>4, <2>1, <2>3 DEF Remainder, TypedOrders, Order
  <2> HIDE DEF new, in
  <2>5. /\ InputsStay(new, orders', LiveIn(new))
        /\ x \in LiveIn(orders') /\ orders'[x].inputs = {in}
    <3>1. orders' \in MatchOrder(new, x)
      BY <1>7 DEF new, in
    <3>2. QED
      BY <2>1, <2>3, <2>4, <3>1, MatchInputsStay
  <2>6. InputsStay(orders, orders', LiveIn(orders) \ {a, b})
    <3>1. ASSUME NEW o \in LiveIn(orders) \ {a, b}
          PROVE  o \in LiveIn(new) /\ new[o].inputs = orders[o].inputs
      BY <1>4, <2>1, <2>3, <3>1 DEF LiveIn
    <3>2. QED
      BY <2>5, <3>1 DEF InputsStay
  <2>7. PICK extra, gone : extra = {in} /\ gone = {a, b}
    OBVIOUS
  <2>8. \A i \in 1..Len(s) : s[i].row.status = "Locked" => s[i].id \in extra
    BY <1>3, <2>7 DEF in
  <2>9. \A c \in extra : \E o \in LiveIn(orders') : c \in orders'[o].inputs
    BY <2>5, <2>7
  <2>10. /\ OnlyLocks(cash, cash', extra)
         /\ \A o \in gone : \A c \in orders[o].inputs :
              c \notin DOMAIN cash' \/ cash'[c].status # "Locked" \/ c \in extra
    BY <1>5, <2>7, <2>8
  <2>11. InputsStay(orders, orders', LiveIn(orders) \ gone)
    BY <2>6, <2>7
  <2>12. QED
    BY <2>9, <2>10, <2>11, StillNoOrphans
<1>8. QED
  BY <1>1, <1>2, <1>6, <1>7

\* Every step of the system.
LEMMA NextNoOrphans ==
  ASSUME FreshOutputs, TypeOK, NoOrphans(cash, orders), [Next]_vars
  PROVE  NoOrphans(cash, orders)'
<1>1. cash' = cash /\ InputsStay(orders, orders', LiveIn(orders)) => NoOrphans(cash', orders')
  BY DEF NoOrphans, InputsStay
<1>2. cash' = cash /\ orders' = orders => NoOrphans(cash', orders')
  BY DEF NoOrphans
<1>3. CASE LedgerStep
  BY <1>3, LedgerLocksNothing DEF LedgerStep, book, NoOrphans, OnlyLocks
<1>4. CASE PlaceOrder
  BY <1>4, PlaceNoOrphans
<1>5. CASE LegacySettle
  <2>1. PICK a \in DOMAIN orders, b \in DOMAIN orders :
          \/ CompareOrders(a, b)
          \/ \E leg \in WalletLegs(a, b) : \/ SettleOrdersStore(a, b, leg)
                                         \/ SettleOrders(a, b, leg)
                                         \/ SettleOrdersFails(a, b, leg)
    BY <1>5, Zenon DEF LegacySettle
  <2>2. \A leg : SettleOrdersStore(a, b, leg) => cash' = cash /\ orders' = orders
    BY DEF SettleOrdersStore, ledger
  <2>3. QED
    BY <1>1, <1>2, <2>1, <2>2, CompareInputsStay, SettleNoOrphans, SettleNeverFails
<1>6. CASE JointSettle
  BY <1>6, CoZkNoOrphans, CoZkNeverFails DEF JointSettle
<1>7. QED
  <2>1. NextBlock \/ UNCHANGED vars \/ (\E o \in DOMAIN orders : RegisterSettleAddr(o))
          => cash' = cash /\ orders' = orders
    BY DEF NextBlock, RegisterSettleAddr, ledger, book, vars
  <2>2. QED
    BY <1>2, <1>3, <1>4, <1>5, <1>6, <2>1 DEF Next

\* No cash is lost in a lock: UnlockCash has no caller, and none is needed, since a cash is
\* locked only together with the order that lists it, and spent when the order leaves the
\* book or is relisted over its remainder.
THEOREM LocksAreNeverOrphaned ==
  ASSUME FreshOutputs
  PROVE  Spec => []NoOrphanLock
<1>1. Init => TypeOK /\ NoOrphans(cash, orders)
  <2>1. Init => NoOrphans(cash, orders)
    BY DEF Init, LedgerInit, Seeded, ActiveRow, NoOrphans
  <2>2. QED
    BY <2>1, InitTyped
<1>2. TypeOK /\ NoOrphans(cash, orders) /\ [Next]_vars => (TypeOK /\ NoOrphans(cash, orders))'
  BY NextTyped, NextNoOrphans
<1>3. NoOrphans(cash, orders) => NoOrphanLock
  BY DEF NoOrphans, NoOrphanLock, LiveOrders, Live, LiveIn
<1>4. QED
  BY <1>1, <1>2, <1>3, PTL DEF Spec

-----------------------------------------------------------------------------
(***************************************************************************)
(* Collateral when wallets reuse commitments and handlers stop halfway.    *)
(***************************************************************************)
\* The collateral of ord is all locked for the order o, or all spent.
HeldFor(t, o, ord) == \A c \in ord.inputs : c \in DOMAIN t /\ t[c] = LockedRow(o)
Gone(t, ord) == \A c \in ord.inputs : c \in DOMAIN t /\ t[c].status = "Spent"

\* A live counterparty answers the match, and its collateral is held or gone with this one's.
Together(t, os, o) ==
  LET p == os[o].match IN
  p \in LiveIn(os) =>
    /\ p \in PairedIn(os) /\ os[p].match = o
    /\ \/ HeldFor(t, o, os[o]) /\ HeldFor(t, p, os[p])
       \/ Gone(t, os[o]) /\ Gone(t, os[p])

\* An order at rest names nobody and its collateral is held; no two live orders list one cash.
WholeBook(t, os) ==
  /\ \A o \in LiveIn(os) \ PairedIn(os) : HeldFor(t, o, os[o]) /\ os[o].match = NoOrder
  /\ \A o \in PairedIn(os) : /\ HeldFor(t, o, os[o]) \/ Gone(t, os[o])
                            /\ os[o].match \in DOMAIN os /\ Together(t, os, o)
  /\ \A o, p \in LiveIn(os) : o # p => os[o].inputs \cap os[p].inputs = {}

\* From the table t to the table u nothing happens to the collateral of the orders of keep.
Stands(t, u, os, keep) ==
  \A o \in keep : /\ HeldFor(t, o, os[o]) => HeldFor(u, o, os[o])
                  /\ Gone(t, os[o]) => Gone(u, os[o])

\* What a live order lists exists and is not Active.
LEMMA ListedIsTaken ==
  ASSUME NEW t, NEW os, WholeBook(t, os), NEW o \in LiveIn(os), NEW c \in os[o].inputs
  PROVE  c \in DOMAIN t /\ c \notin ActiveCash(t)
<1>1. HeldFor(t, o, os[o]) \/ Gone(t, os[o])
  BY DEF WholeBook
<1>2. c \in DOMAIN t /\ (t[c] = LockedRow(o) \/ t[c].status = "Spent")
  BY <1>1 DEF HeldFor, Gone
<1>3. QED
  BY <1>2 DEF LockedRow, ActiveCash

\* Tables that keep the locks and what is spent.
LEMMA KeptStands ==
  ASSUME NEW t, NEW u, NEW os, NEW keep, LocksKept(t, u, keep), Keeps(t, u)
  PROVE  Stands(t, u, os, keep)
  BY DEF Stands, HeldFor, Gone, LocksKept, Keeps

\* The orders as they were, their collateral as it was.
LEMMA WholeStands ==
  ASSUME NEW t, NEW u, NEW os, WholeBook(t, os), Stands(t, u, os, LiveIn(os))
  PROVE  WholeBook(u, os)
<1>1. PairedIn(os) \subseteq LiveIn(os)
  BY DEF PairedIn, LiveIn
<1>2. \A o \in PairedIn(os) : Together(u, os, o)
  BY <1>1 DEF WholeBook, Stands, Together
<1>3. QED
  BY <1>1, <1>2 DEF WholeBook, Stands

\* A match: the two it links were at rest, so their collateral is held and nobody names them.
LEMMA MatchWhole ==
  ASSUME NEW t, NEW os, NEW id \in DOMAIN os, NEW new \in MatchOrder(os, id), TypedOrders(os),
         os[id].status = "Pending", WholeBook(t, os)
  PROVE  WholeBook(t, new)
<1>1. CASE new = os
  BY <1>1
<1>2. ASSUME NEW d \in CompatibleOrders(os, os[id]), new = Linked(os, id, d)
      PROVE  WholeBook(t, new)
  <2>1. d \in DOMAIN os /\ d # id /\ os[d].status = "Pending"
    BY CandidatesRest
  <2>2. /\ DOMAIN new = DOMAIN os
        /\ \A o \in DOMAIN os : new[o].inputs = os[o].inputs
        /\ \A o \in DOMAIN os \ {id, d} : new[o] = os[o]
        /\ new[id].status = "Matched" /\ new[id].match = d
        /\ new[d].status = "Matched" /\ new[d].match = id
    BY <1>2, <2>1, LinkKeepsTerms DEF SameTerms
  <2>3. /\ LiveIn(new) = LiveIn(os)
        /\ PairedIn(new) = PairedIn(os) \cup {id, d}
        /\ {id, d} \subseteq LiveIn(os) \ PairedIn(os)
    BY <2>1, <2>2 DEF LiveIn, PairedIn
  <2>4. \A o \in DOMAIN os : /\ HeldFor(t, o, new[o]) <=> HeldFor(t, o, os[o])
                             /\ Gone(t, new[o]) <=> Gone(t, os[o])
    BY <2>2 DEF HeldFor, Gone
  <2>5. HeldFor(t, id, os[id]) /\ HeldFor(t, d, os[d])
    BY <2>3 DEF WholeBook
  <2>6. \A o \in {id, d} : HeldFor(t, o, new[o]) /\ Together(t, new, o)
    BY <2>1, <2>2, <2>3, <2>4, <2>5 DEF Together
  <2>7. ASSUME NEW o \in PairedIn(os)
        PROVE  Together(t, new, o)
    <3>1. o \in DOMAIN os \ {id, d} /\ Together(t, os, o)
      BY <2>3 DEF WholeBook, PairedIn
    <3>2. new[o] = os[o]
      BY <2>2, <3>1
    <3>3. SUFFICES ASSUME os[o].match \in LiveIn(os)
                   PROVE  /\ os[o].match \in PairedIn(new) /\ new[os[o].match].match = o
                          /\ \/ HeldFor(t, o, new[o]) /\ HeldFor(t, os[o].match, new[os[o].match])
                             \/ Gone(t, new[o]) /\ Gone(t, new[os[o].match])
      BY <2>3, <3>2 DEF Together
    <3>4. /\ os[o].match \in PairedIn(os) /\ os[os[o].match].match = o
          /\ \/ HeldFor(t, o, os[o]) /\ HeldFor(t, os[o].match, os[os[o].match])
             \/ Gone(t, os[o]) /\ Gone(t, os[os[o].match])
      BY <3>1, <3>3 DEF Together
    <3>5. os[o].match \in DOMAIN os \ {id, d}
      BY <2>3, <3>4 DEF PairedIn
    <3>6. QED
      BY <2>2, <2>3, <3>2, <3>4, <3>5
  <2>8. \A o \in LiveIn(new) \ PairedIn(new) : HeldFor(t, o, new[o]) /\ new[o].match = NoOrder
    <3>1. \A o \in LiveIn(new) \ PairedIn(new) :
            o \in LiveIn(os) \ PairedIn(os) /\ new[o] = os[o]
      BY <2>2, <2>3 DEF LiveIn
    <3>2. QED
      BY <3>1 DEF WholeBook
  <2>9. \A o \in PairedIn(new) : /\ HeldFor(t, o, new[o]) \/ Gone(t, new[o])
                               /\ new[o].match \in DOMAIN new
    <3>1. \A o \in PairedIn(os) : o \in DOMAIN os \ {id, d} /\ os[o].match \in DOMAIN os
      BY <2>3 DEF WholeBook, PairedIn
    <3>2. \A o \in PairedIn(os) : HeldFor(t, o, new[o]) \/ Gone(t, new[o])
      BY <2>4, <3>1 DEF WholeBook
    <3>3. QED
      BY <2>1, <2>2, <2>3, <2>6, <3>1, <3>2
  <2>10. \A o, p \in LiveIn(new) : o # p => new[o].inputs \cap new[p].inputs = {}
    BY <2>2, <2>3 DEF WholeBook, LiveIn
  <2>11. QED
    BY <2>3, <2>6, <2>7, <2>8, <2>9, <2>10 DEF WholeBook
<1>3. QED
  BY <1>1, <1>2, MatchOrderShape

\* An order x enters the book over cash no live order lists, held for it; the orders of keep
\* stay as they are, and they are all the others that are live.
LEMMA EntersWhole ==
  ASSUME NEW t, NEW u, NEW os, NEW mid, NEW x \in DOMAIN mid, NEW keep,
         WholeBook(t, os), keep \subseteq LiveIn(os), Stands(t, u, os, keep),
         DOMAIN os \subseteq DOMAIN mid, LiveIn(mid) \ {x} = keep, x \notin keep,
         \A o \in keep : mid[o] = os[o] /\ os[o].match # x,
         mid[x].status = "Pending", mid[x].match = NoOrder, HeldFor(u, x, mid[x]),
         \A o \in keep : mid[x].inputs \cap os[o].inputs = {}
  PROVE  WholeBook(u, mid)
<1>1. /\ PairedIn(mid) \subseteq keep /\ PairedIn(mid) \subseteq PairedIn(os)
      /\ \A o \in keep \ PairedIn(mid) : o \in LiveIn(os) \ PairedIn(os)
  BY DEF PairedIn, LiveIn
<1>2. ASSUME NEW o \in PairedIn(mid)
      PROVE  /\ HeldFor(u, o, mid[o]) \/ Gone(u, mid[o])
             /\ mid[o].match \in DOMAIN mid /\ Together(u, mid, o)
  <2>1. /\ o \in keep /\ o \in PairedIn(os) /\ mid[o] = os[o] /\ os[o].match # x
        /\ HeldFor(t, o, os[o]) \/ Gone(t, os[o])
        /\ os[o].match \in DOMAIN os /\ Together(t, os, o)
    BY <1>1 DEF WholeBook
  <2>2. HeldFor(u, o, mid[o]) \/ Gone(u, mid[o])
    BY <2>1 DEF Stands
  <2>3. ASSUME os[o].match \in LiveIn(mid)
        PROVE  /\ os[o].match \in PairedIn(mid) /\ mid[os[o].match].match = o
               /\ \/ HeldFor(u, o, mid[o]) /\ HeldFor(u, os[o].match, mid[os[o].match])
                  \/ Gone(u, mid[o]) /\ Gone(u, mid[os[o].match])
    <3>1. os[o].match \in keep /\ mid[os[o].match] = os[os[o].match]
      BY <2>1, <2>3
    <3>2. /\ os[o].match \in PairedIn(os) /\ os[os[o].match].match = o
          /\ \/ HeldFor(t, o, os[o]) /\ HeldFor(t, os[o].match, os[os[o].match])
             \/ Gone(t, os[o]) /\ Gone(t, os[os[o].match])
      BY <2>1, <3>1 DEF Together
    <3>3. os[o].match \in PairedIn(mid)
      BY <2>3, <3>1, <3>2 DEF PairedIn, LiveIn
    <3>4. QED
      BY <2>1, <3>1, <3>2, <3>3 DEF Stands
  <2>4. QED
    BY <2>1, <2>2, <2>3 DEF Together
<1>3. \A o \in LiveIn(mid) \ PairedIn(mid) : HeldFor(u, o, mid[o]) /\ mid[o].match = NoOrder
  BY <1>1 DEF WholeBook, Stands
<1>4. \A o, p \in LiveIn(mid) : o # p => mid[o].inputs \cap mid[p].inputs = {}
  <2>1. \A o \in keep : mid[o].inputs \cap mid[x].inputs = {}
    OBVIOUS
  <2>2. \A o, p \in keep : o # p => mid[o].inputs \cap mid[p].inputs = {}
    BY DEF WholeBook
  <2>3. QED
    BY <2>1, <2>2
<1>5. QED
  BY <1>2, <1>3, <1>4 DEF WholeBook

\* Orders leave the book, or stay on it with their collateral taken: those of keep and what
\* they list stand; the others that are still live are a pair, or one whose counterparty is
\* Done, and all they list is spent.
LEMMA LeavesWhole ==
  ASSUME NEW t, NEW u, NEW os, NEW new, NEW a, NEW b, NEW keep, WholeBook(t, os),
         a \in PairedIn(os), b \in PairedIn(os), os[a].match = b, os[b].match = a,
         keep = LiveIn(os) \ {a, b}, Stands(t, u, os, keep),
         DOMAIN new = DOMAIN os, LiveIn(new) \subseteq LiveIn(os),
         \A o \in keep \cup LiveIn(new) : new[o] = os[o],
         Gone(u, os[a]), Gone(u, os[b])
  PROVE  WholeBook(u, new)
<1>0. keep \subseteq LiveIn(new) /\ LiveIn(new) \subseteq keep \cup {a, b}
  BY DEF LiveIn
<1>1. /\ PairedIn(new) \subseteq PairedIn(os) /\ PairedIn(new) \subseteq LiveIn(new)
      /\ \A o \in LiveIn(new) \ PairedIn(new) : o \in keep /\ o \in LiveIn(os) \ PairedIn(os)
  BY <1>0 DEF PairedIn, LiveIn
<1>2. ASSUME NEW o \in PairedIn(new) \cap {a, b}
      PROVE  Gone(u, new[o]) /\ Together(u, new, o)
  <2>1. new[o] = os[o] /\ Gone(u, new[o]) /\ new[o].match \in {a, b} /\ os[new[o].match].match = o
    BY <1>1
  <2>2. ASSUME new[o].match \in LiveIn(new)
        PROVE  /\ new[o].match \in PairedIn(new) /\ new[new[o].match].match = o
               /\ Gone(u, new[new[o].match])
    <3>1. new[new[o].match] = os[new[o].match]
      BY <2>2
    <3>2. QED
      BY <2>1, <2>2, <3>1 DEF PairedIn, LiveIn
  <2>3. QED
    BY <2>1, <2>2 DEF Together
<1>3. ASSUME NEW o \in PairedIn(new) \ {a, b}
      PROVE  (HeldFor(u, o, new[o]) \/ Gone(u, new[o])) /\ Together(u, new, o)
  <2>1. /\ o \in keep /\ o \in PairedIn(os) /\ new[o] = os[o]
        /\ HeldFor(t, o, os[o]) \/ Gone(t, os[o])
        /\ Together(t, os, o)
    BY <1>0, <1>1 DEF WholeBook
  <2>2. ASSUME os[o].match \in LiveIn(new)
        PROVE  /\ os[o].match \in PairedIn(new) /\ new[os[o].match].match = o
               /\ \/ HeldFor(u, o, new[o]) /\ HeldFor(u, os[o].match, new[os[o].match])
                  \/ Gone(u, new[o]) /\ Gone(u, new[os[o].match])
    <3>1. new[os[o].match] = os[os[o].match] /\ os[o].match \in LiveIn(os)
      BY <2>2
    <3>2. /\ os[o].match \in PairedIn(os) /\ os[os[o].match].match = o
          /\ \/ HeldFor(t, o, os[o]) /\ HeldFor(t, os[o].match, os[os[o].match])
             \/ Gone(t, os[o]) /\ Gone(t, os[os[o].match])
      BY <2>1, <3>1 DEF Together
    <3>3. os[o].match \in keep
      BY <3>1, <3>2
    <3>4. os[o].match \in PairedIn(new)
      BY <2>2, <3>1, <3>2 DEF PairedIn, LiveIn
    <3>5. QED
      BY <2>1, <3>1, <3>2, <3>3, <3>4 DEF Stands
  <2>3. HeldFor(u, o, new[o]) \/ Gone(u, new[o])
    BY <2>1 DEF Stands
  <2>4. QED
    BY <2>1, <2>2, <2>3 DEF Together
<1>4. \A o \in PairedIn(new) : new[o].match \in DOMAIN new
  BY <1>1 DEF WholeBook
<1>5. \A o \in LiveIn(new) \ PairedIn(new) : HeldFor(u, o, new[o]) /\ new[o].match = NoOrder
  BY <1>1 DEF WholeBook, Stands
<1>6. \A o, p \in LiveIn(new) : o # p => new[o].inputs \cap new[p].inputs = {}
  BY DEF WholeBook
<1>7. QED
  BY <1>2, <1>3, <1>4, <1>5, <1>6 DEF WholeBook

\* Spending what a pair lists, and minting, whole or in part, leaves what others list alone.
LEMMA PairSpentStands ==
  ASSUME NEW a \in LiveIn(orders), NEW b \in LiveIn(orders), WholeBook(cash, orders),
         NEW outs, NEW k, NEW u, u = Minted(PairSpent(a, b), outs, k)
  PROVE  /\ Stands(cash, u, orders, LiveIn(orders) \ {a, b})
         /\ Gone(u, orders[a]) /\ Gone(u, orders[b])
         /\ \A c \in DOMAIN cash : c \in DOMAIN u
<1> DEFINE spent == PairSpent(a, b)
<1>1. /\ DOMAIN spent = DOMAIN cash
      /\ \A c \in DOMAIN cash : spent[c] = IF c \in orders[a].inputs \cup orders[b].inputs
                                          THEN SpentRow({a, b}) ELSE cash[c]
  BY DEF PairSpent, SpendCash
<1> HIDE DEF spent
<1>2. \A c \in DOMAIN cash : c \in DOMAIN u /\ u[c] = spent[c]
  BY <1>1, MintKeeps DEF Keeps, spent
<1>3. \A o \in LiveIn(orders) \ {a, b} : \A c \in orders[o].inputs :
        c \notin orders[a].inputs \cup orders[b].inputs
  BY DEF WholeBook
<1>4. Stands(cash, u, orders, LiveIn(orders) \ {a, b})
  BY <1>1, <1>2, <1>3 DEF Stands, HeldFor, Gone
<1>5. ASSUME NEW c \in orders[a].inputs \cup orders[b].inputs
      PROVE  c \in DOMAIN u /\ u[c].status = "Spent"
  <2>1. c \in DOMAIN cash /\ c \in orders[a].inputs \cup orders[b].inputs
    <3>1. CASE c \in orders[a].inputs
      BY <3>1, ListedIsTaken
    <3>2. CASE c \in orders[b].inputs
      BY <3>2, ListedIsTaken
    <3>3. QED
      BY <1>5, <3>1, <3>2
  <2>2. u[c] = spent[c] /\ c \in DOMAIN u
    BY <1>2, <2>1
  <2>3. spent[c] = SpentRow({a, b})
    BY <1>1, <2>1
  <2>4. QED
    BY <2>2, <2>3 DEF SpentRow
<1>6. QED
  BY <1>2, <1>4, <1>5 DEF Gone

-----------------------------------------------------------------------------
\* A new order lists cash that was Active, or new, and is now locked for it.
LEMMA InsertedWhole ==
  ASSUME NEW ins \in OrderId, NEW ord \in Order, TypedOrders(orders), WholeBook(cash, orders),
         Inserted(ins, ord), ord.status = "Pending", ord.match = NoOrder,
         LocksKept(cash, cash', LiveIn(orders)), Keeps(cash, cash'),
         \A c \in ord.inputs : /\ c \in DOMAIN cash' /\ cash'[c] = LockedRow(ins)
                               /\ c \in ActiveCash(cash) \/ c \notin DOMAIN cash
  PROVE  WholeBook(cash', orders')
<1> DEFINE mid == Put(orders, ins, ord)
           keep == LiveIn(orders)
<1>1. /\ TypedOrders(mid) /\ ins \in DOMAIN mid /\ mid[ins] = ord /\ ins \notin DOMAIN orders
      /\ \A o \in DOMAIN orders : o # ins /\ mid[o] = orders[o]
      /\ DOMAIN mid = DOMAIN orders \cup {ins}
  BY PutOrder DEF Inserted, Put
<1>2. orders' \in MatchOrder(mid, ins)
  BY DEF Inserted
<1> HIDE DEF mid
<1>3. LiveIn(mid) \ {ins} = keep /\ ins \notin keep
  BY <1>1 DEF LiveIn
<1>4. \A o \in keep : mid[o] = orders[o] /\ orders[o].match # ins
  <2>1. \A o \in keep : orders[o].match = NoOrder \/ orders[o].match \in DOMAIN orders
    BY DEF WholeBook
  <2>2. ins # NoOrder
    BY DEF OrderId, NoOrder
  <2>3. QED
    BY <1>1, <2>1, <2>2 DEF LiveIn
<1>5. Stands(cash, cash', orders, keep)
  BY KeptStands
<1>6. HeldFor(cash', ins, mid[ins])
  BY <1>1 DEF HeldFor
<1>7. \A o \in keep : mid[ins].inputs \cap orders[o].inputs = {}
  BY <1>1, ListedIsTaken
<1>8. WholeBook(cash', mid)
  BY <1>1, <1>3, <1>4, <1>5, <1>6, <1>7, EntersWhole
<1>9. QED
  BY <1>1, <1>2, <1>8, MatchWhole

\* A placement, with a split or without, complete or stopped at an output that exists.
LEMMA PlaceWhole ==
  ASSUME TypeOK, WholeBook(cash, orders), PlaceOrder, Keeps(cash, cash')
  PROVE  WholeBook(cash', orders')
<1>1. ASSUME NEW ins \in RequestInputs, NEW pair \in Pair, NEW side \in Side,
             NEW price \in Price, NEW fee \in Fee, NEW qty \in Quantity,
             SendOrder(OwnerOf(ins), pair, side, price, fee, qty, ins)
      PROVE  WholeBook(cash', orders')
  <2> DEFINE ord == NewOrder(OwnerOf(ins), pair, side, price, fee, qty, ins)
  <2>1. /\ ValidInputs(ins, OwnerOf(ins), LockToken(ord))
        /\ cash' = LockCash(cash, ins, ins)
        /\ Inserted(ins, ord)
    BY <1>1 DEF SendOrder
  <2>2. ins \in OrderId /\ OwnerOf(ins) \in Trader
    BY <2>1, InputsAreOrderId, TypeOKParts
  <2>3. ord \in Order /\ ord.status = "Pending" /\ ord.inputs = ins /\ ord.match = NoOrder
    BY <2>2, NewOrderTyped, TypeOKParts DEF NewOrder
  <2> HIDE DEF ord
  <2>4. ins \subseteq ActiveCash(cash)
    BY <2>1 DEF ValidInputs
  <2>5. LocksKept(cash, cash', LiveIn(orders))
    BY <2>1, <2>4, LockActive
  <2>6. \A c \in ins : c \in DOMAIN cash' /\ cash'[c] = LockedRow(ins) /\ c \in ActiveCash(cash)
    BY <2>1, <2>4 DEF LockCash, ActiveCash
  <2>7. QED
    BY <2>1, <2>2, <2>3, <2>5, <2>6, InsertedWhole, TypeOKParts
<1>2. ASSUME NEW ins \in RequestInputs, NEW pair \in Pair, NEW side \in Side,
             NEW price \in Price, NEW fee \in Fee, NEW qty \in Quantity,
             SendOrderSplit(OwnerOf(ins), pair, side, price, fee, qty, ins)
      PROVE  WholeBook(cash', orders')
  <2> DEFINE owner == OwnerOf(ins)
             locked == Pays(side, qty, price)
             change == Sum(ins) - locked
             token == IF side = "Buy" THEN pair[2] ELSE pair[1]
             spent == SpendCash(cash, ins, {ins})
             outs(rl, rc) == SplitOutputs(owner, token, ins, locked, change, rl, rc)
             new(in) == NewOrder(owner, pair, side, price, fee, qty, {in})
  <2>1. /\ ins \in OrderId /\ owner \in Trader /\ token \in Token
        /\ ins \subseteq ActiveCash(cash)
    BY <1>2, InputsAreOrderId, TypeOKParts DEF SendOrderSplit, ValidInputs
  <2>2. locked \in Nat \ {0} /\ change \in Nat \ {0}
    BY <1>2, Trades, NumbersAssumption DEF SendOrderSplit
  <2>3. PICK rl \in Blinding, rc \in Blinding :
          \/ /\ Mintable(spent, outs(rl, rc))
             /\ cash' = Mint(spent, outs(rl, rc))
             /\ Inserted(ins, new(outs(rl, rc)[1].id))
          \/ MintFails(spent, outs(rl, rc), cash') /\ UNCHANGED <<issued, height, book>>
    BY <1>2, Zenon DEF SendOrderSplit
  <2> DEFINE s == outs(rl, rc)
             in == s[1].id
  <2>4. Len(s) = 2 /\ {in} \in OrderId
    <3> HIDE DEF owner, locked, change, token
    <3>1. QED
      BY <2>1, <2>2, SplitOutputsTyped
  <2>5. s[1].row = LockedRow(ins)
    BY DEF SplitOutputs, Output
  <2>6. new(in) \in Order
    BY <2>1, <2>4, NewOrderTyped, TypeOKParts
  <2>7. new(in).status = "Pending" /\ new(in).inputs = {in} /\ new(in).match = NoOrder
    BY DEF NewOrder
  <2>8. LocksKept(cash, spent, LiveIn(orders)) /\ DOMAIN spent = DOMAIN cash
    BY <2>1, SpendActive DEF SpendCash
  <2>9. \/ /\ Mintable(spent, s)
           /\ cash' = Mint(spent, s)
           /\ Inserted(ins, new(in))
        \/ MintFails(spent, s, cash') /\ UNCHANGED <<issued, height, book>>
    BY <2>3
  <2> HIDE DEF s, new, spent, owner, token
  <2>10. CASE /\ Mintable(spent, s)
              /\ cash' = Mint(spent, s)
              /\ Inserted(ins, new(in))
    <3>1. Len(s) \in Nat /\ 1 \in 1..Len(s)
      BY <2>4
    <3>2. in \in DOMAIN cash' /\ cash'[in] = LockedRow(ins)
      BY <2>5, <2>10, <3>1, MintedRow
    <3>3. in \notin DOMAIN cash
      BY <2>8, <2>10, <3>1 DEF Mintable, MintsUpTo
    <3>4. LocksKept(cash, cash', LiveIn(orders))
      BY <2>8, <2>10, MintKeepsLocks DEF Mint
    <3> HIDE DEF in
    <3>5. QED
      BY <2>1, <2>6, <2>7, <2>10, <3>2, <3>3, <3>4, InsertedWhole, TypeOKParts
  <2>11. CASE MintFails(spent, s, cash') /\ UNCHANGED <<issued, height, book>>
    <3>1. LocksKept(cash, cash', LiveIn(orders)) /\ orders' = orders
      BY <2>8, <2>11, MintKeepsLocks DEF MintFails, book
    <3>2. QED
      BY <3>1, KeptStands, WholeStands
  <2>12. QED
    BY <2>9, <2>10, <2>11
<1>3. QED
  BY <1>1, <1>2 DEF PlaceOrder

\* A comparison.
LEMMA CompareWhole ==
  ASSUME NEW a, NEW b, TypeOK, WholeBook(cash, orders), CompareOrders(a, b)
  PROVE  WholeBook(cash', orders')
<1>1. /\ a \in DOMAIN orders /\ b \in DOMAIN orders /\ cash' = cash
      /\ orders[a] \in Order /\ orders[b] \in Order
      /\ orders[a].status = "Matched" /\ orders[b].status = "Matched"
  BY TypeOKParts DEF CompareOrders, MutuallyMatched, ledger, TypedOrders
<1>2. CASE orders' = orders
  BY <1>1, <1>2
<1>3. ASSUME NEW cmp, orders' = Compared(orders, a, b, cmp)
      PROVE  WholeBook(cash', orders')
  <2>1. /\ DOMAIN orders' = DOMAIN orders
        /\ \A o \in DOMAIN orders \ {a, b} : orders'[o] = orders[o]
        /\ \A o \in {a, b} : /\ orders'[o].inputs = orders[o].inputs
                             /\ orders'[o].match = orders[o].match
                             /\ orders'[o].status = "Settling"
    BY <1>1, <1>3 DEF Compared, Order
  <2>2. /\ LiveIn(orders') = LiveIn(orders) /\ PairedIn(orders') = PairedIn(orders)
        /\ \A o \in DOMAIN orders : /\ orders'[o].inputs = orders[o].inputs
                                    /\ orders'[o].match = orders[o].match
    BY <1>1, <2>1 DEF LiveIn, PairedIn
  <2>3. LiveIn(orders) \subseteq DOMAIN orders /\ PairedIn(orders) \subseteq DOMAIN orders
    BY DEF LiveIn, PairedIn
  <2>4. \A o \in DOMAIN orders : /\ HeldFor(cash, o, orders'[o]) <=> HeldFor(cash, o, orders[o])
                                 /\ Gone(cash, orders'[o]) <=> Gone(cash, orders[o])
    BY <2>2 DEF HeldFor, Gone
  <2>5. \A o \in PairedIn(orders) : Together(cash, orders, o) => Together(cash, orders', o)
    BY <2>2, <2>3, <2>4 DEF Together
  <2>6. QED
    BY <1>1, <2>1, <2>2, <2>3, <2>4, <2>5 DEF WholeBook
<1>4. QED
  BY <1>2, <1>3 DEF CompareOrders

\* A settlement on two legs, complete or stopped at an output.
LEMMA SettleWhole ==
  ASSUME NEW a \in DOMAIN orders, NEW b \in DOMAIN orders, NEW leg, TypeOK,
         WholeBook(cash, orders), SettleOrders(a, b, leg) \/ SettleOrdersFails(a, b, leg)
  PROVE  WholeBook(cash', orders')
<1>1. /\ SettleRequest(a, b, leg)
      /\ \/ /\ orders' = Closed(orders, {a, b})
            /\ cash' = Mint(PairSpent(a, b), SettledOutputs(a, b, leg))
         \/ /\ orders' = orders
            /\ MintFails(PairSpent(a, b), SettledOutputs(a, b, leg), cash')
  BY Zenon DEF SettleOrders, SettleOrdersFails, SettleVerified, book
<1>2. /\ a \in PairedIn(orders) /\ b \in PairedIn(orders)
      /\ orders[a].match = b /\ orders[b].match = a
      /\ a \in LiveIn(orders) /\ b \in LiveIn(orders)
  BY <1>1 DEF SettleRequest, MutuallyMatched, PairedIn, LiveIn
<1>3. PICK outs, k : cash' = Minted(PairSpent(a, b), outs, k)
  BY <1>1 DEF Mint, MintFails
<1>4. PICK keep : keep = LiveIn(orders) \ {a, b}
  OBVIOUS
<1>5. Stands(cash, cash', orders, keep) /\ Gone(cash', orders[a]) /\ Gone(cash', orders[b])
  BY <1>2, <1>3, <1>4, PairSpentStands
<1>6. /\ DOMAIN orders' = DOMAIN orders /\ LiveIn(orders') \subseteq LiveIn(orders)
      /\ \A o \in keep \cup LiveIn(orders') : orders'[o] = orders[o]
  <2>1. CASE orders' = orders
    BY <2>1
  <2>2. CASE orders' = Closed(orders, {a, b})
    BY <1>4, <2>2, ClosedLive, TypeOKParts DEF LiveIn
  <2>3. QED
    BY <1>1, <2>1, <2>2
<1>7. QED
  BY <1>2, <1>4, <1>5, <1>6, LeavesWhole

\* A joint settlement, complete or stopped before the remainder.
LEMMA JointWhole ==
  ASSUME NEW a \in DOMAIN orders, NEW b \in DOMAIN orders, TypeOK,
         WholeBook(cash, orders), SettleOrdersCoZk(a, b) \/ SettleOrdersCoZkFails(a, b)
  PROVE  WholeBook(cash', orders')
<1> DEFINE closed == Closed(orders, Filled(a, b))
           outs(ra, rb, rest) == RecvOutputs(a, b, ra, rb) \o RemainderOutputs(a, b, rest)
<1>1. MutuallyMatched(a, b, "Matched")
  BY Zenon DEF SettleOrdersCoZk, SettleOrdersCoZkFails, CoZkVerified, CoZkPair
<1>2. /\ a \in PairedIn(orders) /\ b \in PairedIn(orders)
      /\ orders[a].match = b /\ orders[b].match = a
      /\ a \in LiveIn(orders) /\ b \in LiveIn(orders)
  BY <1>1 DEF MutuallyMatched, PairedIn, LiveIn
<1>3. \/ orders' = closed /\ \E s : cash' = Mint(PairSpent(a, b), s)
      \/ \E ra, rb, rest \in Blinding :
           /\ Mintable(PairSpent(a, b), outs(ra, rb, rest))
           /\ cash' = Mint(PairSpent(a, b), outs(ra, rb, rest))
           /\ \E x \in Survivors(a, b) :
                orders' \in MatchOrder(Rest(a, b, x, outs(ra, rb, rest)[3].id), x)
  BY Zenon DEF SettleOrdersCoZk, SettleOrdersCoZkFails, Relistings, Rest
<1>4. PICK keep : keep = LiveIn(orders) \ {a, b}
  OBVIOUS
<1>5. ASSUME NEW s, cash' = Mint(PairSpent(a, b), s)
      PROVE  Stands(cash, cash', orders, keep) /\ Gone(cash', orders[a]) /\ Gone(cash', orders[b])
  BY <1>2, <1>4, <1>5, PairSpentStands DEF Mint
<1>6. /\ DOMAIN closed = DOMAIN orders
      /\ LiveIn(closed) = LiveIn(orders) \ Filled(a, b) /\ Filled(a, b) \subseteq {a, b}
      /\ \A o \in DOMAIN orders \ Filled(a, b) : closed[o] = orders[o]
  BY ClosedLive, TypeOKParts DEF Filled
<1> HIDE DEF closed
<1>7. CASE orders' = closed /\ \E s : cash' = Mint(PairSpent(a, b), s)
  <2>1. /\ DOMAIN orders' = DOMAIN orders /\ LiveIn(orders') \subseteq LiveIn(orders)
        /\ \A o \in keep \cup LiveIn(orders') : orders'[o] = orders[o]
    BY <1>4, <1>6, <1>7 DEF LiveIn
  <2>2. Stands(cash, cash', orders, keep) /\ Gone(cash', orders[a]) /\ Gone(cash', orders[b])
    BY <1>5, <1>7
  <2>3. QED
    BY <1>2, <1>4, <2>1, <2>2, LeavesWhole
<1>8. ASSUME NEW ra \in Blinding, NEW rb \in Blinding, NEW rest \in Blinding,
             NEW s, s = outs(ra, rb, rest),
             Mintable(PairSpent(a, b), s), cash' = Mint(PairSpent(a, b), s),
             NEW x \in Survivors(a, b), orders' \in MatchOrder(Rest(a, b, x, s[3].id), x)
      PROVE  WholeBook(cash', orders')
  <2>1. s \in Seq(Outputs) /\ Len(s) = 3
    <3>1. s \in Seq(Outputs) /\ (Survivors(a, b) # {} => Len(s) = 3)
      BY <1>8, CoZkOutputsTyped, TypeOKParts
    <3>2. QED
      BY <1>8, <3>1
  <2>2. Len(s) \in Nat /\ 3 \in 1..Len(s) /\ s[3].id \in CashId
    <3>1. Len(s) \in Nat /\ 3 \in 1..Len(s)
      BY <2>1
    <3>2. s[3] \in Outputs
      BY <2>1, <3>1, ElementOfSeq
    <3>3. QED
      BY <3>1, <3>2 DEF Outputs
  <2>3. s[3].row = LockedRow(x)
    <3>1. BacksRest(outs(ra, rb, rest)[3], a, b, x)
      BY ThirdOutput, TypeOKParts
    <3>2. QED
      BY <1>8, <3>1 DEF BacksRest
  <2> DEFINE in == s[3].id
             mid == Rest(a, b, x, in)
  <2>4. in \in DOMAIN cash' /\ cash'[in] = LockedRow(x) /\ in \notin DOMAIN cash
    <3>1. in \in DOMAIN cash' /\ cash'[in] = LockedRow(x)
      <4>1. Mintable(PairSpent(a, b), s) /\ cash' = Mint(PairSpent(a, b), s)
        BY <1>8
      <4>2. s[3].id \in DOMAIN cash' /\ cash'[s[3].id] = s[3].row
        BY <2>2, <4>1, MintedRow
      <4>3. QED
        BY <2>3, <4>2
    <3>2. DOMAIN PairSpent(a, b) = DOMAIN cash
      BY DEF PairSpent, SpendCash
    <3>3. QED
      BY <1>8, <2>2, <3>1, <3>2 DEF Mintable, MintsUpTo
  <2>5. /\ x \in DOMAIN orders /\ TypedOrders(closed) /\ TypedOrders(mid)
        /\ DOMAIN mid = DOMAIN orders
    BY <2>2, SurvivorOpen, TypeOKParts DEF closed
  <2>6. /\ mid[x] = Remainder(closed[x], CoZkFill(a, b), in)
        /\ \A o \in DOMAIN mid \ {x} : mid[o] = closed[o]
    BY <1>6, <2>5 DEF Rest, Relisted, closed
  <2>7. mid[x].status = "Pending" /\ mid[x].match = NoOrder /\ mid[x].inputs = {in}
    BY <1>6, <2>5, <2>6 DEF Remainder, TypedOrders, Order
  <2>8. orders' \in MatchOrder(mid, x)
    BY <1>8
  <2> HIDE DEF mid, in
  <2>9. x \in {a, b} /\ {a, b} \subseteq Filled(a, b) \cup {x}
    BY OneSurvivor, TypeOKParts
  <2>10. LiveIn(mid) \ {x} = keep /\ x \notin keep
    <3>1. LiveIn(mid) \ {x} = LiveIn(closed) \ {x}
      BY <1>6, <2>5, <2>6 DEF LiveIn
    <3>2. QED
      BY <1>4, <1>6, <2>9, <3>1
  <2>11. ASSUME NEW o \in keep
         PROVE  mid[o] = orders[o] /\ orders[o].match # x
    <3>1. o \in LiveIn(orders) \ {a, b} /\ o \in DOMAIN orders \ Filled(a, b) /\ o # x
      BY <1>4, <1>6, <2>9 DEF LiveIn
    <3>2. mid[o] = orders[o]
      BY <1>6, <2>5, <2>6, <3>1
    <3>3. CASE o \in PairedIn(orders)
      <4>1. Together(cash, orders, o)
        BY <3>3 DEF WholeBook
      <4>2. orders[o].match # x
        BY <1>2, <2>9, <3>1, <4>1 DEF Together
      <4>3. QED
        BY <3>2, <4>2
    <3>4. CASE o \notin PairedIn(orders)
      <4>1. orders[o].match = NoOrder
        BY <3>1, <3>4 DEF WholeBook
      <4>2. x # NoOrder
        BY <2>5, TypeOKParts DEF TypedOrders, OrderId, NoOrder
      <4>3. QED
        BY <3>2, <4>1, <4>2
    <3>5. QED
      BY <3>3, <3>4
  <2>12. HeldFor(cash', x, mid[x]) /\ \A o \in keep : mid[x].inputs \cap orders[o].inputs = {}
    <3>1. HeldFor(cash', x, mid[x])
      BY <2>4, <2>7 DEF HeldFor
    <3>2. \A o \in keep : \A c \in orders[o].inputs : c \in DOMAIN cash
      BY <1>4, ListedIsTaken
    <3>3. QED
      BY <2>4, <2>7, <3>1, <3>2
  <2>13. WholeBook(cash', mid)
    <3>1. keep \subseteq LiveIn(orders) /\ Stands(cash, cash', orders, keep)
      BY <1>4, <1>5, <1>8
    <3>2. x \in DOMAIN mid /\ DOMAIN orders \subseteq DOMAIN mid
      BY <2>5
    <3>3. QED
      BY <2>7, <2>10, <2>11, <2>12, <3>1, <3>2, EntersWhole
  <2>14. QED
    BY <2>5, <2>7, <2>8, <2>13, MatchWhole
<1>9. QED
  <2>1. ASSUME NEW ra \in Blinding, NEW rb \in Blinding, NEW rest \in Blinding,
               Mintable(PairSpent(a, b), outs(ra, rb, rest)),
               cash' = Mint(PairSpent(a, b), outs(ra, rb, rest)),
               NEW x \in Survivors(a, b),
               orders' \in MatchOrder(Rest(a, b, x, outs(ra, rb, rest)[3].id), x)
        PROVE  WholeBook(cash', orders')
    <3>1. PICK s : s = outs(ra, rb, rest)
      OBVIOUS
    <3> HIDE DEF outs
    <3>2. QED
      BY <1>8, <2>1, <3>1
  <2> HIDE DEF outs
  <2>2. QED
    BY <1>3, <1>7, <2>1

\* Every step of the system.
LEMMA NextWhole ==
  ASSUME TypeOK, WholeBook(cash, orders), [Next]_vars
  PROVE  WholeBook(cash', orders')
<1>1. Keeps(cash, cash') \/ UNCHANGED vars
  BY BookKeeps
<1>2. CASE UNCHANGED vars
  BY <1>2 DEF vars
<1>3. cash' = cash /\ orders' = orders => WholeBook(cash', orders')
  OBVIOUS
<1>4. CASE LedgerStep
  <2>1. orders' = orders /\ LocksKept(cash, cash', LiveIn(orders))
    BY <1>4, LedgerKeepsLocks DEF LedgerStep, book
  <2>2. CASE Keeps(cash, cash')
    BY <2>1, <2>2, KeptStands, WholeStands
  <2>3. QED
    BY <1>1, <1>2, <2>2
<1>5. CASE PlaceOrder
  BY <1>1, <1>2, <1>5, PlaceWhole
<1>6. CASE LegacySettle
  <2>1. PICK a \in DOMAIN orders, b \in DOMAIN orders :
          \/ CompareOrders(a, b)
          \/ \E leg \in WalletLegs(a, b) : \/ SettleOrdersStore(a, b, leg)
                                         \/ SettleOrders(a, b, leg)
                                         \/ SettleOrdersFails(a, b, leg)
    BY <1>6, Zenon DEF LegacySettle
  <2>2. \A leg : SettleOrdersStore(a, b, leg) => cash' = cash /\ orders' = orders
    BY DEF SettleOrdersStore, ledger
  <2>3. QED
    BY <1>3, <2>1, <2>2, CompareWhole, SettleWhole
<1>7. CASE JointSettle
  BY <1>7, JointWhole DEF JointSettle
<1>8. QED
  <2>1. NextBlock \/ (\E o \in DOMAIN orders : RegisterSettleAddr(o))
          => cash' = cash /\ orders' = orders
    BY DEF NextBlock, RegisterSettleAddr, ledger, book
  <2>2. QED
    BY <1>2, <1>3, <1>4, <1>5, <1>6, <1>7, <2>1 DEF Next

\* Whatever commitments wallets reuse and whichever handler stops halfway, the collateral of
\* a live order is all locked for it or all spent, no other live order lists any of it, and
\* a live counterparty's is spent together with it.
THEOREM CollateralStaysWhole == Spec => []CollateralWhole
<1>1. Init => TypeOK /\ WholeBook(cash, orders)
  <2>1. Init => WholeBook(cash, orders)
    BY DEF Init, WholeBook, LiveIn, PairedIn
  <2>2. QED
    BY <2>1, InitTyped
<1>2. TypeOK /\ WholeBook(cash, orders) /\ [Next]_vars => (TypeOK /\ WholeBook(cash, orders))'
  BY NextTyped, NextWhole
<1>3. TypeOK /\ WholeBook(cash, orders) => CollateralWhole
  <2> SUFFICES ASSUME TypeOK, WholeBook(cash, orders), NEW o \in LiveOrders
               PROVE  /\ \/ \A c \in orders[o].inputs : cash[c] = LockedRow(o)
                         \/ \A c \in orders[o].inputs : cash[c].status = "Spent"
                      /\ \A p \in LiveOrders \ {o} : orders[o].inputs \cap orders[p].inputs = {}
                      /\ \A p \in {orders[o].match} \cap LiveOrders :
                           orders[o].inputs \cap Unspent(cash) = {}
                             <=> orders[p].inputs \cap Unspent(cash) = {}
    BY DEF CollateralWhole
  <2>1. LiveOrders = LiveIn(orders) /\ TypedOrders(orders)
    BY TypeOKParts DEF LiveOrders, Live, LiveIn
  <2>2. HeldFor(cash, o, orders[o]) \/ Gone(cash, orders[o])
    BY <2>1 DEF WholeBook
  <2>3. \A p \in LiveOrders \ {o} : orders[o].inputs \cap orders[p].inputs = {}
    BY <2>1 DEF WholeBook
  <2>4. ASSUME NEW p \in LiveOrders
        PROVE  /\ HeldFor(cash, p, orders[p]) => orders[p].inputs \cap Unspent(cash) # {}
               /\ Gone(cash, orders[p]) => orders[p].inputs \cap Unspent(cash) = {}
    <3>1. orders[p].inputs # {}
      BY <2>1 DEF LiveIn, TypedOrders, Order, OrderId
    <3>2. QED
      BY <3>1 DEF HeldFor, Gone, Unspent, LockedRow
  <2>5. ASSUME orders[o].match \in LiveOrders
        PROVE  orders[o].inputs \cap Unspent(cash) = {}
                 <=> orders[orders[o].match].inputs \cap Unspent(cash) = {}
    <3>1. o \in PairedIn(orders)
      <4>1. orders[o].match # NoOrder
        BY <2>1, <2>5 DEF LiveIn, TypedOrders, OrderId, NoOrder
      <4>2. QED
        BY <2>1, <4>1 DEF WholeBook
    <3>2. \/ HeldFor(cash, o, orders[o]) /\ HeldFor(cash, orders[o].match, orders[orders[o].match])
          \/ Gone(cash, orders[o]) /\ Gone(cash, orders[orders[o].match])
      BY <2>1, <2>5, <3>1 DEF WholeBook, Together
    <3>3. QED
      BY <2>4, <2>5, <3>2
  <2>6. QED
    BY <2>2, <2>3, <2>5 DEF HeldFor, Gone
<1>4. QED
  BY <1>1, <1>2, <1>3, PTL DEF Spec
=============================================================================
