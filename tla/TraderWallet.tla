----------------------------- MODULE TraderWallet -----------------------------
(***************************************************************************)
(* One trader's wallet against the chain: the cash records in memory and    *)
(* in the cash file (lib/chain/src/cash_store.rs), the trade form that      *)
(* selects cash and stages the records before it sends                      *)
(* (app/ui/src/components/trade_form.rs), the node that takes a request     *)
(* now and executes or refuses it later, joint settlements with any         *)
(* counterparty, the booking of their outcome, and crashes.                 *)
(*                                                                         *)
(* SettleSession has the steps and the failures of a settlement; here it    *)
(* is one step, with the amounts.  Its witness file lasts until the         *)
(* outcome is booked, by the live attempt or by the recovery at startup.    *)
(***************************************************************************)
EXTENDS WalletProvers, FiniteSets, SequencesExt

CONSTANTS
  Me,             \* the trader's public key
  Token1, Token2,
  Genesis,        \* the cash file the trader imports, in its order: the cash the chain starts with
  Prices,         \* the limit prices the form is given
  Quantities,     \* the quantities the form is given
  MaxDraws,       \* bound: blindings drawn, those of Genesis included
  MaxRequests,    \* bound: requests the form sends
  MaxCrashes,     \* bound: crashes of the application
  FlushResults    \* what flush may return (the callers ignore it)

\* The form refuses a price or a quantity that is not a positive u64.  Bound: a quantity at a
\* price is one too; the form does not check, and the product would wrap (trade_form.rs:126).
ASSUME FormAssumption ==
  /\ Prices \subseteq 1 .. MaxAmount /\ Quantities \subseteq 1 .. MaxAmount
  /\ \A price \in Prices, qty \in Quantities : qty * price <= MaxAmount
ASSUME FlushAssumption == FlushResults \subseteq BOOLEAN

\* The cash file of genesis: one record for each cash, under the blindings drawn for them.
ASSUME WalletAssumption ==
  /\ Genesis \in Seq([owner: {Me}, token: {Token1, Token2}, amt: 1 .. MaxAmount,
                     r: 1 .. Len(Genesis)])
  /\ \A i, j \in DOMAIN Genesis : i # j => Genesis[i] # Genesis[j]
  /\ MaxDraws \in Nat /\ Len(Genesis) <= MaxDraws

VARIABLES
  cash,      \* the chain's table of the trader's cash
  orders,    \* the trader's orders on the chain
  pool,      \* requests the node has taken and not executed
  records,   \* the cash store in memory: a list of records
  saved,     \* the cash file
  form,      \* the request the form waits for, if any
  own,       \* own_order_ids
  witness,   \* the outcome of a settlement that landed and is not booked, if any
  draws,     \* blindings drawn so far
  requests,  \* every request sent: a history
  reported,  \* those of them the form reported as submitted: a history
  crashes

chain == <<cash, orders, pool>>
history == <<requests, reported, crashes>>
walletVars == <<chain, records, saved, form, own, witness, draws, history>>

Ledger == INSTANCE CashLedger WITH
  Trader <- {Me}, Token <- {Token1, Token2}, Blinding <- 1 .. MaxDraws,
  Genesis <- ToSet(Genesis),
  Bridged <- {}, MaxIssued <- 0, FreshOutputs <- TRUE, issued <- [t \in {} |-> 0]

NoOpening == << >>
Sides == {"Buy", "Sell"}

LockToken(side) == IF side = "Buy" THEN Token2 ELSE Token1
RecvToken(side) == IF side = "Buy" THEN Token1 ELSE Token2

\* An order ID is a hash of its inputs, a cash ID one of its fields: neither collides.
ComputeOrderId(ins) == ins
ComputeCashId(token, amt, r) == Ledger!Cash(Me, token, amt, r)

\* The commitment to an amount under a blinding drawn for it.
EncryptAmount(amount, r) == Commit(amount, r)

\* The members of S in the order R, a set of pairs; the elements of s at the positions I.
InOrder(S, R) ==
  [k \in 1 .. Cardinality(S) |->
     CHOOSE i \in S : Cardinality({j \in S : <<j, i>> \in R}) = k - 1]
At(s, I) ==
  LET kept == InOrder(I, {p \in I \X I : p[1] < p[2]}) IN [k \in DOMAIN kept |-> s[kept[k]]]

\* A CashRecord: a cash, its status, and the opening of the order commitment it carries, if any.
Record(c, status, order) == [cash |-> c, status |-> status, order |-> order]
CashOf(recs) == {recs[i].cash : i \in DOMAIN recs}
CashSeq(recs) == [i \in DOMAIN recs |-> recs[i].cash]
RecordOf(recs, c) == recs[CHOOSE i \in DOMAIN recs : recs[i].cash = c]
Marked(recs, cs, status) ==
  [i \in DOMAIN recs |-> IF recs[i].cash \in cs THEN [recs[i] EXCEPT !.status = status]
                         ELSE recs[i]]

\* A cash as a note (value, blinding), which is its commitment.
CashCommit(c) == Commit(c.amt, c.r)
Notes(cs) == [i \in DOMAIN cs |-> CashCommit(cs[i])]
Worth(cs) == Ledger!Sum(ToSet(cs))

\* The records of a cash file.
LoadFromFile(file) == [i \in DOMAIN file |-> Record(file[i], "Active", NoOpening)]

Init ==
  /\ cash = [c \in ToSet(Genesis) |-> Ledger!ActiveRow]
  /\ orders = [o \in {} |-> 0]
  /\ pool = {}
  /\ records = << >> /\ saved = << >>
  /\ form = {}
  /\ own = {}
  /\ witness = {}
  /\ draws = Len(Genesis)
  /\ requests = {} /\ reported = {} /\ crashes = 0

\* on_import, with the cash file: its records replace those of its tokens, and are saved.
\* A trader imports it into a store that has none.
Import ==
  /\ records = << >>
  /\ records' = LoadFromFile(Genesis)
  /\ saved' = records'
  /\ UNCHANGED <<chain, form, own, witness, draws, history>>

-----------------------------------------------------------------------------
(* The trade form. *)

\* Mut: Locked cash is taken as well.
MutUsable(recs, token) ==
  At(CashSeq(recs),
     {i \in DOMAIN recs : recs[i].cash.token = token /\ recs[i].status # "Spent"})
Usable(recs, token) ==
  At(CashSeq(recs),
     {i \in DOMAIN recs : recs[i].cash.token = token /\ recs[i].status = "Active"})

\* The greedy picks: the largest first, ties in store order, until they cover the total.
Ahead(cs, i) ==
  {j \in DOMAIN cs : cs[j].amt > cs[i].amt \/ (cs[j].amt = cs[i].amt /\ j < i)}
GreedyPicks(cs, total) ==
  LET picked == {i \in DOMAIN cs : Ledger!Sum({cs[j] : j \in Ahead(cs, i)}) < total}
      order == InOrder(picked, {p \in picked \X picked : p[1] \in Ahead(cs, p[2])})
  IN  [k \in DOMAIN order |-> cs[order[k]]]

\* select_cash: one cash of the total; else smaller ones combined; else the smallest larger
\* one.  Empty: insufficient.
SelectCash(recs, token, total) ==
  LET active == Usable(recs, token)
      exact == At(active, {i \in DOMAIN active : active[i].amt = total})
      smaller == At(active, {i \in DOMAIN active : active[i].amt < total})
      larger == At(active, {i \in DOMAIN active : active[i].amt > total})
      smallest == At(larger,
                     {i \in DOMAIN larger :
                        \A j \in DOMAIN larger : larger[i].amt <= larger[j].amt})
  IN  IF exact # << >> THEN <<exact[1]>>
      ELSE IF Worth(smaller) >= total THEN GreedyPicks(smaller, total)
      ELSE IF larger # << >> THEN <<smallest[1]>>
      ELSE << >>

\* The notes of the picks as the form collects them, in store order.
InputRecords(recs, ins) ==
  LET picked == At(recs, {i \in DOMAIN recs : recs[i].cash \in ToSet(ins)})
  IN  [i \in DOMAIN picked |-> CashCommit(picked[i].cash)]

\* generate_split_proof: none is needed without change.
SplitProofs(recs, ins, outs) ==
  IF outs = << >> THEN {NoOpening}
  ELSE ProveSplit(InputRecords(recs, ins), CashCommit(outs[1]), CashCommit(outs[2]))

\* A request: with change, outs is the locked cash and the change.
SendOrderParams(side, price, amount, ins, outs, proof) ==
  [id |-> ComputeOrderId(ins), side |-> side, price |-> price, amount |-> amount,
   ins |-> ins, outs |-> outs, proof |-> proof]

\* The requests for an order paid with ins: the order commitment is to the quantity, under a
\* blinding of its own; the locked cash of a sell that splits has the same commitment.
Requests(recs, side, price, qty, ins) ==
  LET token == LockToken(side)
      total == Scale(qty, price, side = "Buy")
      change == Worth(ins) - total
      rLocked == IF side = "Buy" THEN draws + 2 ELSE draws + 1
      outs == IF change = 0 THEN << >>
              ELSE <<ComputeCashId(token, total, rLocked), ComputeCashId(token, change, draws + 3)>>
  IN  {SendOrderParams(side, price, EncryptAmount(qty, draws + 1), ins, outs, p) :
         p \in SplitProofs(recs, ins, outs)}

\* The records as if the request had been executed.
\* Mut: a sell leaves out the opening of its order.
MutStaged(recs, q) ==
  LET opening == IF q.side = "Buy" THEN q.amount ELSE NoOpening IN
  IF q.outs = << >>
  THEN [i \in DOMAIN recs |-> IF recs[i].cash \in ToSet(q.ins)
                              THEN Record(recs[i].cash, "Locked", opening) ELSE recs[i]]
  ELSE Marked(recs, ToSet(q.ins), "Spent")
       \o <<Record(q.outs[1], "Locked", opening), Record(q.outs[2], "Active", NoOpening)>>
Staged(recs, q) ==
  IF q.outs = << >>
  THEN [i \in DOMAIN recs |-> IF recs[i].cash \in ToSet(q.ins)
                              THEN Record(recs[i].cash, "Locked", q.amount) ELSE recs[i]]
  ELSE Marked(recs, ToSet(q.ins), "Spent")
       \o <<Record(q.outs[1], "Locked", q.amount), Record(q.outs[2], "Active", NoOpening)>>

\* The inputs are Active again, what the split would mint is dropped.
RolledBack(recs, q) ==
  At(Marked(recs, ToSet(q.ins), "Active"),
     {i \in DOMAIN recs : recs[i].cash \notin ToSet(q.outs)})

Submit(side, price, qty) ==
  LET ins == SelectCash(records, LockToken(side), Scale(qty, price, side = "Buy")) IN
  /\ form = {}
  /\ Cardinality(requests) < MaxRequests /\ draws + 3 <= MaxDraws
  /\ Len(ins) \in 1 .. 2
  /\ \E q \in Requests(records, side, price, qty, ins) :
       /\ records' = Staged(records, q)
       /\ form' = {[sent |-> FALSE, req |-> q]}
       /\ requests' = requests \cup {q}
  /\ draws' = draws + 3
  /\ UNCHANGED <<chain, saved, own, witness, reported, crashes>>

\* The node takes the request: it checks its form, not what it would do.
Take(f) ==
  /\ ~f.sent
  /\ pool' = pool \cup {f.req}
  /\ form' = {[f EXCEPT !.sent = TRUE]}
  /\ UNCHANGED <<cash, orders, records, saved, own, witness, draws, history>>

\* flush may fail; nobody looks.
Flush == \E ok \in FlushResults : saved' = IF ok THEN records' ELSE saved

\* Ok: reported as submitted, and the records are saved.
ReplyOk(f) ==
  /\ f.sent
  /\ own' = own \cup {f.req.id}
  /\ reported' = reported \cup {f.req}
  /\ form' = {}
  /\ UNCHANGED records /\ Flush
  /\ UNCHANGED <<chain, witness, draws, requests, crashes>>

\* An error, of the node or of the connection: the request may have been taken.  The
\* records in memory are rolled back; the file is not touched.
ReplyErr(f) ==
  /\ records' = RolledBack(records, f.req)
  /\ form' = {}
  /\ UNCHANGED <<chain, saved, own, witness, draws, history>>

-----------------------------------------------------------------------------
(* The chain executes what the node took, in any order. *)

Executable(q) ==
  /\ q.id \notin DOMAIN orders
  /\ Ledger!Lockable(cash, ToSet(q.ins))
  /\ q.outs # << >> =>
       q.proof = SplitSignals(Notes(q.ins), CashCommit(q.outs[1]), CashCommit(q.outs[2]))

\* SendOrder: the inputs are locked, or spent for a locked cash and the change.
CashAfter(q) ==
  IF q.outs = << >>
  THEN Ledger!LockCash(cash, ToSet(q.ins), q.id)
  ELSE Ledger!Mint(Ledger!SpendCash(cash, ToSet(q.ins), {q.id}),
                   <<Ledger!Output(q.outs[1], Ledger!LockedRow(q.id)),
                     Ledger!Output(q.outs[2], Ledger!ActiveRow)>>)

\* The order of a request, with the cash it locks as its inputs.
LockedBy(q) == IF q.outs = << >> THEN q.ins ELSE <<q.outs[1]>>
Placed(q) ==
  [side |-> q.side, price |-> q.price, amount |-> q.amount, req |-> q, inputs |-> LockedBy(q),
   open |-> TRUE]

Execute(q) ==
  /\ q \in pool /\ Executable(q)
  /\ pool' = pool \ {q}
  /\ cash' = CashAfter(q)
  /\ orders' = [o \in DOMAIN orders \cup {q.id} |-> IF o = q.id THEN Placed(q) ELSE orders[o]]
  /\ UNCHANGED <<records, saved, form, own, witness, draws, history>>

\* The error reaches the application as a message only.
Refuse(q) ==
  /\ q \in pool /\ ~Executable(q)
  /\ pool' = pool \ {q}
  /\ UNCHANGED <<cash, orders, records, saved, form, own, witness, draws, history>>

-----------------------------------------------------------------------------
(* A joint settlement. *)

Seller(o) == orders[o].side = "Sell"
Inputs(o) == orders[o].inputs

\* The locked commitments the prover reads from the chain, padded.
LockedOnChain(o) ==
  [i \in 1 .. MaxLocked |-> IF i \in DOMAIN Inputs(o) THEN CashCommit(Inputs(o)[i])
                            ELSE ZeroCommit]

\* build_my_private: every input needs its record; the first carries the opening of the
\* order, or the order is worth its inputs under the blinding of the first.
BuildMyPrivate(o) ==
  LET first == Inputs(o)[1]
      carried == RecordOf(records, first).order
      opening == IF carried # NoOpening THEN carried ELSE Commit(Worth(Inputs(o)), first.r)
  IN  IF ToSet(Inputs(o)) \subseteq CashOf(records)
      THEN {SidePrivate(opening[1], opening[2], Notes(Inputs(o)), draws + 1, draws + 2,
                        draws + 3)}
      ELSE {}

Opens(o, s) == SanityCheckInput(s, orders[o].amount, LockedOnChain(o), orders[o].price, Seller(o))

\* The counterparties of o: orders of quantity m, paid with one cash of 64 bits.  Their
\* blindings are not this wallet's.
Counterquantities(o) ==
  {m \in 1 .. MaxAmount : Needed(m, orders[o].price, ~Seller(o)) <= MaxAmount}
Counterparty(o, m) ==
  LET collateral == Needed(m, orders[o].price, ~Seller(o))
  IN  SidePrivate(m, -1, <<Commit(collateral, -2)>>, -3, -4, -5)

\* The sides by role: the maker is A.
SideA(s, t, maker) == IF maker THEN s ELSE t
SideB(s, t, maker) == IF maker THEN t ELSE s
ASells(o, maker) == maker <=> Seller(o)

\* What the provers may arrive at, past the validity gate.
Settlements(o, s, t, maker) ==
  LET a == SideA(s, t, maker)
      b == SideB(s, t, maker)
  IN  {st \in SessionStatements(a, b, orders[o].price, ASells(o, maker)) :
         SettleRelation(st, a, b)}

\* My part of a statement, as the records to add: the receipt, then what stays on the book.
Received(o, st, i) ==
  Record(ComputeCashId(RecvToken(orders[o].side), st.recv[i][1], st.recv[i][2]), "Active",
         NoOpening)
Remainder(o, st, i) ==
  IF st.newOrder[i][1] = 0 THEN << >>
  ELSE <<Record(ComputeCashId(LockToken(orders[o].side), st.newLocked[i][1],
                              st.newLocked[i][2]), "Locked", st.newOrder[i])>>

\* What the settlement of o leaves to book.
SettleOutcome(o, recv, rest) ==
  [order |-> o, spent |-> ToSet(Inputs(o)), add |-> <<recv>> \o rest]

\* The application settles an order of its own; one settlement at a time.
Due(o) == orders[o].open /\ o \in own /\ witness = {}

\* The chain: the inputs are spent, the receipt minted, the survivor relisted.
Settle(o, m, maker) ==
  /\ Due(o)
  /\ draws + 3 <= MaxDraws
  /\ \E s \in BuildMyPrivate(o) :
       /\ Opens(o, s)
       /\ \E st \in Settlements(o, s, Counterparty(o, m), maker) :
            LET i == IF maker THEN 1 ELSE 2
                recv == Received(o, st, i)
                rest == Remainder(o, st, i)
                spent == Ledger!SpendCash(cash, ToSet(Inputs(o)), {o})
            IN  /\ cash' = Ledger!Mint(spent,
                     <<Ledger!Output(recv.cash, Ledger!ActiveRow)>>
                     \o [k \in DOMAIN rest |-> Ledger!Output(rest[k].cash, Ledger!LockedRow(o))])
                /\ orders' = IF rest = << >> THEN [orders EXCEPT ![o].open = FALSE]
                             ELSE [orders EXCEPT ![o].inputs = <<rest[1].cash>>,
                                                 ![o].amount = st.newOrder[i]]
                /\ witness' = {SettleOutcome(o, recv, rest)}
  /\ draws' = draws + 3
  /\ UNCHANGED <<pool, records, saved, form, own, history>>

\* The outcome in the records: the inputs spent, new cash added unless it is there.
Booked(recs, w) ==
  Marked(recs, w.spent, "Spent")
  \o At(w.add, {i \in DOMAIN w.add : w.add[i].cash \notin CashOf(recs)})

\* After the confirmation, or by the recovery of the next start.
\* Mut: the witness goes before the records are saved.
MutBook(w) ==
  /\ records' = Booked(records, w)
  /\ witness' = {}
  /\ UNCHANGED <<chain, saved, form, own, draws, history>>
Book(w) ==
  /\ records' = Booked(records, w)
  /\ Flush
  /\ witness' = {}
  /\ UNCHANGED <<chain, form, own, draws, history>>

\* The application stops and starts again: the records are those of the file.
Crash ==
  /\ crashes < MaxCrashes
  /\ crashes' = crashes + 1
  /\ records' = saved
  /\ form' = {}
  /\ own' = {}
  /\ UNCHANGED <<chain, saved, witness, draws, requests, reported>>

-----------------------------------------------------------------------------
Next ==
  \/ Import
  \/ \E side \in Sides, price \in Prices, qty \in Quantities : Submit(side, price, qty)
  \/ \E f \in form : Take(f) \/ ReplyOk(f) \/ ReplyErr(f)
  \/ \E q \in pool : Execute(q) \/ Refuse(q)
  \/ \E o \in DOMAIN orders : \E m \in Counterquantities(o), maker \in BOOLEAN :
       Settle(o, m, maker)
  \/ \E w \in witness : Book(w)
  \/ Crash

Spec == Init /\ [][Next]_walletVars

-----------------------------------------------------------------------------
(* Properties. *)

\* The form never pays with cash of a request it reported as submitted, neither with what
\* that request spends nor with what it locks, whatever failed or crashed since
\* (trade_form.rs: the records staged before the request is sent).
NoCashTwice ==
  \A f \in form, q \in reported :
    ToSet(f.req.ins) \cap (ToSet(q.ins) \cup {q.outs[i] : i \in DOMAIN q.outs \ {2}}) = {}

\* An open order whose placement was reported can be settled from the records: they open its
\* commitment and its collateral (settle.rs build_my_private, session.rs
\* sanity_check_input), unless the outcome of its last settlement is yet to book.
ReportedOrdersOpen ==
  \A o \in DOMAIN orders :
    orders[o].open /\ orders[o].req \in reported =>
      \/ \E w \in witness : w.order = o
      \/ \E s \in BuildMyPrivate(o) : Opens(o, s)

\* No cash of the trader is out of reach: its opening is in the cash file or in the witness
\* file, or it was minted for a request that was never reported as submitted.  Before the
\* import the cash file is the one the trader has.
CashIsAccounted ==
  \A c \in Ledger!Unspent(cash) :
    \/ c \in CashOf(saved)
    \/ saved = << >> /\ c \in ToSet(Genesis)
    \/ \E w \in witness : \E e \in ToSet(w.add) : e.cash = c
    \/ \E q \in requests \ reported : c \in ToSet(q.outs)

\* The provers of a settlement agree: from inputs that pass the checks, under every mask of
\* the comparison, a session ends with the statement compute_public has, which is the one
\* statement a single Groth16 prover makes, and the relation accepts it.
ProversAgree ==
  \A o \in DOMAIN orders : Due(o) => \A s \in BuildMyPrivate(o) : Opens(o, s) =>
    \A m \in Counterquantities(o), maker \in BOOLEAN :
      LET a == SideA(s, Counterparty(o, m), maker)
          b == SideB(s, Counterparty(o, m), maker)
          p == orders[o].price
          st == ComputePublic(a, b, p, ASells(o, maker))
      IN  /\ Cardinality(st) = 1
          /\ {} \notin CompareThreeWay(a.amount, b.amount)
          /\ SessionStatements(a, b, p, ASells(o, maker)) = st
          /\ ProveSettleCoZk(a, b, p, ASells(o, maker)) = st
          /\ \A x \in st : SettleRelation(x, a, b)

\* The cash a wallet may withdraw: one or two Active cash of one token.
Withdrawable ==
  UNION {LET cs == Usable(records, t) IN
         {<<cs[i]>> : i \in DOMAIN cs} \cup
         {<<cs[p[1]], cs[p[2]]>> : p \in {p \in (DOMAIN cs) \X (DOMAIN cs) : p[1] # p[2]}} :
         t \in {Token1, Token2}}

\* Every withdrawal the client makes of such cash, worth no more than 64 bits, carries a
\* proof for the very vector the chain rebuilds from the request, its change and its amount
\* are worth the cash it spends, and it reports the change that is worth anything; a deposit
\* of the same amount as well (chain.rs deposit and withdraw, account.go Deposit and
\* Withdraw).
WithdrawalsVerify ==
  \A cs \in {cs \in Withdrawable : Worth(cs) <= MaxAmount} : \A amount \in 1 .. Worth(cs) :
    LET reqs == ClientWithdraw(amount, Notes(cs), draws)
        deps == ClientDeposit(amount, draws)
    IN  /\ Cardinality(reqs) = 1 /\ Cardinality(deps) = 1
        /\ \A w \in reqs :
             LET q == w.params IN
             /\ q.proof = WithdrawSignals(q.bridge, Notes(cs), q.outputs)
             /\ q.bridge[1] + q.outputs[1][1] + q.outputs[2][1] = Worth(cs)
             /\ w.reported = {out \in ToSet(q.outputs) : out[1] # 0}
        /\ \A q \in deps : q.proof = DepositSignals(q.bridge, q.output)

\* The legs of a legacy settlement of an open order, against every counterparty: the side with
\* more proves the fill, its change and the ratio of the two legs for the vector the chain
\* rebuilds, the side with less that its inputs are the fill (wallet.rs prove_settle_larger
\* and prove_settle_smaller, orderbook.go buildSettleLargerPublicSignals).
LegsVerify ==
  \A o \in DOMAIN orders : Due(o) => \A s \in BuildMyPrivate(o) : Opens(o, s) =>
    \A m \in Counterquantities(o) :
      LET price == orders[o].price
          fill == Smaller(s.amount, m)
          mine == Needed(fill, price, Seller(o))
          other == Needed(fill, price, ~Seller(o))
          change == Commit(Worth(Inputs(o)) - mine, draws + 1)
          recv == Commit(mine, -1)
      IN  IF fill < s.amount
          THEN ProveSettleLarger(draws + 2, other, -2, price, ~Seller(o), s.locked, change, recv)
               = {SettleLargerSignals(Commit(mine, draws + 2), Commit(other, -2), price,
                                      ~Seller(o), Hashes(s.locked), change, recv)}
          ELSE ProveSettleSmaller(draws + 2, s.locked, recv)
               = {<<Commit(mine, draws + 2)>> \o InputSignals(Hashes(s.locked)) \o <<recv>>}

\* A comment of the split prover (wallet.rs:285-288) says its commitments are in the order of
\* the request's inputs, so that the chain can match each one to a row: the proof of every
\* request with change verifies against the vector the chain rebuilds from its inputs.
SplitVerifies ==
  \A q \in pool : q.outs # << >> =>
    q.proof = SplitSignals(Notes(q.ins), CashCommit(q.outs[1]), CashCommit(q.outs[2]))
=============================================================================
