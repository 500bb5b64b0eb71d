------------------------------ MODULE JointFill ------------------------------
(***************************************************************************)
(* What the two traders of a matched pair compute in a joint settlement:    *)
(* the checks of the inputs, the fill, the outputs of each side             *)
(* (cozk2p/src/session.rs), the relation they prove                         *)
(* (cozk2p/src/relation.rs), and its mirror in the clear (compute_public).  *)
(* A commitment is the pair it binds, (value, blinding); a proof that       *)
(* verifies is a statement of the relation.  A computation that may abort   *)
(* is the set of its results, empty when it aborts.  Side A is the maker.   *)
(***************************************************************************)
EXTENDS MaskedCompare, Sequences

MaxLocked == 2

Commit(value, r) == <<value, r>>
ZeroCommit == Commit(0, 0)

\* One trader's private inputs: the amount and blinding of its order, its locked cash as
\* (amount, blinding), and the blindings it draws for the three outputs.
SidePrivate(amount, rOrder, locked, rOrderNew, rLockedNew, rRecv) ==
  [amount |-> amount, rOrder |-> rOrder, locked |-> locked,
   rOrderNew |-> rOrderNew, rLockedNew |-> rLockedNew, rRecv |-> rRecv]

\* Locked cash by slot; a missing one is the zero cash.
Slot(s, i) == IF i \in DOMAIN s.locked THEN s.locked[i] ELSE ZeroCommit
LockedHashes(s) == [i \in 1 .. MaxLocked |-> Slot(s, i)]
LockedSum(s) == Slot(s, 1)[1] + Slot(s, 2)[1]

\* A seller's legs are in token1, a buyer's in token2.
Scale(amount, price, byPrice) == IF byPrice THEN amount * price ELSE amount
Needed(amount, price, seller) == Scale(amount, price, ~seller)

\* What a prover checks of its own input before it connects.
SanityCheckInput(s, order, locked, price, seller) ==
  /\ Len(s.locked) \in 1 .. MaxLocked
  /\ Commit(s.amount, s.rOrder) = order
  /\ LockedHashes(s) = locked
  /\ LockedSum(s) = Needed(s.amount, price, seller)

\* The amounts of a side's outputs.
OutputAmounts(amount, fill, price, seller) ==
  [order |-> amount - fill,
   locked |-> Scale(amount - fill, price, ~seller),
   recv |-> Scale(fill, price, seller)]

Spendable64(out) == out.locked <= MaxAmount /\ out.recv <= MaxAmount

\* compute_my_outputs, from the trader's own secrets and the fill.
ComputeMyOutputs(s, fill, price, seller) ==
  LET out == OutputAmounts(s.amount, fill, price, seller)
  IN  IF fill > s.amount \/ ~Spendable64(out) THEN {}
      ELSE {[order |-> Commit(out.order, s.rOrderNew),
             locked |-> Commit(out.locked, s.rLockedNew),
             recv |-> Commit(out.recv, s.rRecv)]}

\* The public statement of the chain and of the circuit.
SettlePublic(cmp, outA, outB, a, b, price, aSeller) ==
  [cmp |-> cmp,
   newOrder |-> <<outA.order, outB.order>>,
   newLocked |-> <<outA.locked, outB.locked>>,
   recv |-> <<outA.recv, outB.recv>>,
   order |-> <<Commit(a.amount, a.rOrder), Commit(b.amount, b.rOrder)>>,
   price |-> price, aSeller |-> aSeller,
   locked |-> <<LockedHashes(a), LockedHashes(b)>>]

\* The smaller side reveals its amount; a reveal of another amount aborts.
Fill(a, b, cmp) == IF cmp = 1 THEN b.amount ELSE a.amount

Statements(cmp, fill, a, b, price, aSeller) ==
  {SettlePublic(cmp, outA, outB, a, b, price, aSeller) :
     outA \in ComputeMyOutputs(a, fill, price, aSeller),
     outB \in ComputeMyOutputs(b, fill, price, ~aSeller)}

\* What a session of both traders may arrive at, whatever masks its comparisons draw.
SessionStatements(a, b, price, aSeller) ==
  UNION {Statements(cmp, Fill(a, b, cmp), a, b, price, aSeller) :
           cmp \in UNION CompareThreeWay(a.amount, b.amount)}

Sign(a, b) == IF a < b THEN -1 ELSE IF a = b THEN 0 ELSE 1
Smaller(a, b) == IF a < b THEN a ELSE b

\* compute_public, from both sides in the clear.
ComputePublic(a, b, price, aSeller) ==
  IF /\ Len(a.locked) <= MaxLocked /\ Len(b.locked) <= MaxLocked
     /\ LockedSum(a) = Needed(a.amount, price, aSeller)
     /\ LockedSum(b) = Needed(b.amount, price, ~aSeller)
  THEN Statements(Sign(a.amount, b.amount), Smaller(a.amount, b.amount), a, b, price, aSeller)
  ELSE {}

-----------------------------------------------------------------------------
(* The relation of the circuit. *)

\* cmp_from_bits: from the top bit down, the first difference decides.
LessFromBits(x, y) ==
  \E i \in 0 .. AmountBits - 1 :
    /\ ExtractBit(x, i) < ExtractBit(y, i)
    /\ \A j \in i + 1 .. AmountBits - 1 : ExtractBit(x, j) = ExtractBit(y, j)
EqualFromBits(x, y) == \A i \in 0 .. AmountBits - 1 : ExtractBit(x, i) = ExtractBit(y, i)

\* The inputs of one side: in range, opened, and backing its order at the price.
SideOpens(st, i, s, seller) ==
  /\ s.amount \in 0 .. MaxAmount
  /\ \A k \in 1 .. MaxLocked : Slot(s, k)[1] \in 0 .. MaxAmount
  /\ st.order[i] = Commit(s.amount, s.rOrder)
  /\ st.locked[i] = LockedHashes(s)
  /\ LockedSum(s) = IF seller THEN s.amount ELSE s.amount * st.price

\* The outputs of one side.
SidePays(st, i, s, fill, seller) ==
  LET rest == s.amount - fill IN
  /\ st.newOrder[i] = Commit(rest, s.rOrderNew)
  /\ st.newLocked[i] = Commit(IF seller THEN rest ELSE rest * st.price, s.rLockedNew)
  /\ st.recv[i] = Commit(IF seller THEN fill * st.price ELSE fill, s.rRecv)

SettleRelation(st, a, b) ==
  LET lt == IF LessFromBits(a.amount, b.amount) THEN 1 ELSE 0
      eq == IF EqualFromBits(a.amount, b.amount) THEN 1 ELSE 0
      fill == b.amount + lt * (a.amount - b.amount)
  IN  /\ SideOpens(st, 1, a, st.aSeller)
      /\ SideOpens(st, 2, b, ~st.aSeller)
      /\ st.cmp = (1 - lt - eq) - lt
      /\ SidePays(st, 1, a, fill, st.aSeller)
      /\ SidePays(st, 2, b, fill, ~st.aSeller)

=============================================================================
