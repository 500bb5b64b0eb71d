------------------------------ MODULE CashLedger ------------------------------
(***************************************************************************)
(* The account tripod (chain/core/account.go, cash.go, cash_scheme.go): the *)
(* table of cash, unspent and spent, and the two writings that change it    *)
(* without an order, Deposit and Withdraw.                                  *)
(*                                                                         *)
(* A commitment Poseidon(amount, blinding) is the pair (amt, r), which is   *)
(* what it binds; the ID of a cash is a hash of its owner, token and        *)
(* commitment, so the ID is the record of the four.  A proof that verifies  *)
(* is a request that satisfies the relation of the circuit.                 *)
(***************************************************************************)
EXTENDS Integers, Sequences, FiniteSets, FiniteSetsExt

CONSTANTS
  Trader,        \* public keys
  Token,         \* token names
  Blinding,      \* the randomness a wallet may draw for a commitment
  Genesis,       \* the cash core.toml seeds
  Bridged,       \* bound: the tokens deposits and withdrawals move
  MaxIssued,     \* bound: no deposit puts more than this of a token in circulation
  FreshOutputs   \* TRUE: wallets never use a commitment twice

CashId == [owner: Trader, token: Token, amt: Nat \ {0}, r: Blinding]

\* An order ID hashes the list of the cash it spends: it is that set of cash.
OrderId == (SUBSET CashId) \ {{}}

ASSUME GenesisAssumption ==
  Genesis \subseteq CashId /\ IsFiniteSet(Genesis) /\ Bridged \subseteq Token
ASSUME FreshAssumption == FreshOutputs \in BOOLEAN

VARIABLES
  cash,     \* the cash table: ID -> [status, by]
  issued    \* per token, what genesis and deposits put in less what withdrawals took out

ledger == <<cash, issued>>

CashStatus == {"Active", "Locked", "Spent"}

\* Cash.By holds the orders a row names: the order it is locked for, the orders it was spent for.
CashRow == [status: CashStatus, by: SUBSET OrderId]

ActiveRow == [status |-> "Active", by |-> {}]
LockedRow(o) == [status |-> "Locked", by |-> {o}]
SpentRow(os) == [status |-> "Spent", by |-> os]

Cash(owner, token, amt, r) == [owner |-> owner, token |-> token, amt |-> amt, r |-> r]

AmountOf(c) == c.amt
Sum(cs) == MapThenSumSet(AmountOf, cs)

Unspent(t) == {c \in DOMAIN t : t[c].status # "Spent"}
ActiveCash(t) == {c \in DOMAIN t : t[c].status = "Active"}

\* SpendCash refuses a list with a missing or a Spent cash and otherwise spends every one;
\* it takes Active and Locked cash alike and does not look at By.
\* Mut: Active cash is passed over.
Spendable(t, cs) == cs \subseteq Unspent(t)
MutSpendCash(t, cs, os) ==
  [c \in DOMAIN t |-> IF c \in cs /\ t[c].status = "Locked" THEN SpentRow(os) ELSE t[c]]
SpendCash(t, cs, os) == [c \in DOMAIN t |-> IF c \in cs THEN SpentRow(os) ELSE t[c]]

\* LockCash refuses a list with a cash that is missing or not Active.  Mut: the test inverted.
Lockable(t, cs) == cs \subseteq ActiveCash(t)
MutLockCash(t, cs, o) ==
  [c \in DOMAIN t |-> IF c \in cs /\ t[c].status = "Locked" THEN LockedRow(o) ELSE t[c]]
LockCash(t, cs, o) == [c \in DOMAIN t |-> IF c \in cs THEN LockedRow(o) ELSE t[c]]

\* CreateCash on outs[1], outs[2], ... in turn: the primary key refuses an ID that exists.
\* The first k inserts go through when those k IDs are new and differ.
MintsUpTo(t, outs, k) ==
  \A i \in 1..k : /\ outs[i].id \notin DOMAIN t
                  /\ \A j \in 1..(i - 1) : outs[j].id # outs[i].id
Mintable(t, outs) == MintsUpTo(t, outs, Len(outs))
Minted(t, outs, k) ==
  [c \in DOMAIN t \cup {outs[i].id : i \in 1..k} |->
     IF c \in DOMAIN t THEN t[c] ELSE outs[CHOOSE i \in 1..k : outs[i].id = c].row]
Mint(t, outs) == Minted(t, outs, Len(outs))
Output(id, row) == [id |-> id, row |-> row]

\* The inserts before the one that fails stay: no transaction spans the writes of a handler.
MintFails(t, outs, after) ==
  \E k \in 0..(Len(outs) - 1) :
    /\ MintsUpTo(t, outs, k)
    /\ ~MintsUpTo(t, outs, k + 1)
    /\ after = Minted(t, outs, k)

\* What the outputs of a request may be: with FreshOutputs, a wallet draws new blindings.
WalletMayName(outs) == FreshOutputs => Mintable(cash, outs)

\* The checks SendOrder and Withdraw make on every cash a request lists.
ValidInputs(cs, owner, token) ==
  /\ cs \subseteq ActiveCash(cash)
  /\ \A c \in cs : c.owner = owner /\ c.token = token

\* A request lists one or two cash of its sender in one token (the circuits have two input
\* slots), as a wallet knows them: not always Active any more.
RequestInputs ==
  {cs \in {{c, d} : c, d \in DOMAIN cash} :
     \A c, d \in cs : c.owner = d.owner /\ c.token = d.token}
OwnerOf(cs) == (CHOOSE c \in cs : TRUE).owner
TokenOf(cs) == (CHOOSE c \in cs : TRUE).token

-----------------------------------------------------------------------------
\* InitChain: seed the genesis cash the table does not have; a restart runs it again.
\* Mut: it does not look whether the cash exists.
MutSeeded(t) == [c \in DOMAIN t \cup Genesis |-> IF c \in Genesis THEN ActiveRow ELSE t[c]]
Seeded(t) == [c \in DOMAIN t \cup Genesis |-> IF c \in DOMAIN t THEN t[c] ELSE ActiveRow]

IssuedAtGenesis == [t \in Token |-> Sum({c \in Genesis : c.token = t})]

LedgerInit ==
  /\ cash = Seeded([c \in {} |-> ActiveRow])
  /\ issued = IssuedAtGenesis

Restart ==
  /\ cash' = Seeded(cash)
  /\ UNCHANGED issued

\* Deposit: the proof binds the new commitment to the bridged amount, whose own
\* inclusion proof is not verified (account.go:139): any amount may arrive.
Deposit(owner, token, amt, r) ==
  LET outs == <<Output(Cash(owner, token, amt, r), ActiveRow)>> IN
  /\ issued[token] + amt <= MaxIssued
  /\ Mintable(cash, outs)
  /\ cash' = Mint(cash, outs)
  /\ issued' = [issued EXCEPT ![token] = @ + amt]

\* withdraw.circom: the inputs open to what leaves plus the change, both in range.
WithdrawRelation(cs, out, change) == {out, change} \subseteq Nat /\ Sum(cs) = out + change

\* Change is minted to ChangePubkey unless its commitment is the zero pad.
\* Mut: the zero pad is minted like any other.
MutWithdrawOutputs(to, token, change, r) ==
  <<Output(Cash(to, token, change, r), ActiveRow)>>
WithdrawOutputs(to, token, change, r) ==
  IF change = 0 THEN << >> ELSE <<Output(Cash(to, token, change, r), ActiveRow)>>

WithdrawAccepted(cs, out, change, outs) ==
  /\ ValidInputs(cs, OwnerOf(cs), TokenOf(cs))
  /\ WithdrawRelation(cs, out, change)
  /\ Spendable(cash, cs)
  /\ WalletMayName(outs)

Withdraw(cs, out, to, r) ==
  LET change == Sum(cs) - out
      outs == WithdrawOutputs(to, TokenOf(cs), change, r)
      spent == SpendCash(cash, cs, {})
  IN /\ WithdrawAccepted(cs, out, change, outs)
     /\ Mintable(spent, outs)
     /\ cash' = Mint(spent, outs)
     /\ issued' = [issued EXCEPT ![TokenOf(cs)] = @ - out]

\* The change ID exists already: the inputs are spent, nothing is released.
WithdrawFails(cs, out, to, r) ==
  LET change == Sum(cs) - out
      outs == WithdrawOutputs(to, TokenOf(cs), change, r)
  IN /\ WithdrawAccepted(cs, out, change, outs)
     /\ MintFails(SpendCash(cash, cs, {}), outs, cash')
     /\ UNCHANGED issued

LedgerNext ==
  \/ Restart
  \/ \E owner \in Trader, token \in Bridged, amt \in 1..MaxIssued, r \in Blinding :
       Deposit(owner, token, amt, r)
  \/ \E cs \in RequestInputs : \E out \in 0..Sum(cs), to \in Trader, r \in Blinding :
       /\ TokenOf(cs) \in Bridged
       /\ Withdraw(cs, out, to, r) \/ WithdrawFails(cs, out, to, r)

LedgerSpec == LedgerInit /\ [][LedgerNext]_ledger

-----------------------------------------------------------------------------
\* The rows of the table are cash rows.
LedgerTypeOK ==
  /\ cash \in [DOMAIN cash -> CashRow]
  /\ DOMAIN cash \subseteq CashId
  /\ issued \in [Token -> Int]

InCirculation(token) == Sum({c \in Unspent(cash) : c.token = token})

\* No sequence of deposits, withdrawals, splits and settlements, failed ones included,
\* leaves more of a token unspent than genesis and the bridge put in.
NoInflation == \A t \in Token : InCirculation(t) <= issued[t]

\* Nothing is lost either: what is unspent is exactly what is in circulation.
ValueConserved == \A t \in Token : InCirculation(t) = issued[t]

\* A row is never deleted, and Spent is final: not even InitChain at a restart
\* brings a genesis cash that was spent back.
SpentIsFinal ==
  [][\A c \in DOMAIN cash :
       /\ c \in DOMAIN cash'
       /\ cash[c].status = "Spent" => cash'[c] = cash[c]]_ledger
=============================================================================
