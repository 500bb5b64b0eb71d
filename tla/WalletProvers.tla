---------------------------- MODULE WalletProvers ----------------------------
(***************************************************************************)
(* The Groth16 provers of the wallet (lib/zk/src/wallet.rs), the requests   *)
(* the client makes from them (lib/chain/src/chain.rs), and the vectors of  *)
(* public signals the chain rebuilds to verify them.  A proof is the vector *)
(* it was made for, so it verifies against that vector only; a prover       *)
(* returns the set of its proofs, empty when it refuses or when the circuit *)
(* is not satisfied.  A note is the opening (value, blinding) of a cash.    *)
(***************************************************************************)
EXTENDS JointFill

Slots == 2
Width == Pow2[AmountBits]

\* Mut: the padding comes first.
MutPadTo(xs, filler) ==
  [i \in 1 .. Slots |-> IF i > Slots - Len(xs) THEN xs[i - Slots + Len(xs)] ELSE filler]
PadTo(xs, filler) == [i \in 1 .. Slots |-> IF i \in DOMAIN xs THEN xs[i] ELSE filler]

Amounts(notes) == [i \in DOMAIN notes |-> notes[i][1]]
Blindings(notes) == [i \in DOMAIN notes |-> notes[i][2]]
Hashes(notes) == [i \in DOMAIN notes |-> Commit(notes[i][1], notes[i][2])]
Total(amounts) == amounts[1] + amounts[2]
Sum64(notes) == Total(PadTo(Amounts(notes), 0)) % Width
Fits(notes) == Len(notes) \in 1 .. Slots

\* Two slots of a witness, padded with the zero cash, and what VerifyAmounts asks of them.
WitnessSlots(notes) ==
  [amounts |-> PadTo(Amounts(notes), 0), blindings |-> PadTo(Blindings(notes), 0),
   hashes |-> PadTo(Hashes(notes), ZeroCommit)]
VerifyAmounts(w) ==
  \A i \in 1 .. Slots :
    w.amounts[i] \in 0 .. MaxAmount /\ w.hashes[i] = Commit(w.amounts[i], w.blindings[i])

-----------------------------------------------------------------------------
(* Deposit, withdrawal, split. *)

ProveDeposit(amount, rBridge, out) ==
  LET outs == WitnessSlots(<<out>>)
  IN  IF amount \in 0 .. MaxAmount /\ VerifyAmounts(outs) /\ Total(outs.amounts) = amount
      THEN {<<Commit(amount, rBridge)>> \o outs.hashes} ELSE {}

ProveWithdraw(amount, rBridge, notes, change) ==
  LET ins == WitnessSlots(notes)
      outs == WitnessSlots(<<change>>)
  IN  IF /\ Fits(notes)
         /\ amount \in 0 .. MaxAmount /\ VerifyAmounts(ins) /\ VerifyAmounts(outs)
         /\ Total(ins.amounts) = amount + Total(outs.amounts)
      THEN {<<Commit(amount, rBridge)>> \o ins.hashes \o outs.hashes} ELSE {}

ProveSplit(notes, locked, change) ==
  LET ins == WitnessSlots(notes)
      outs == WitnessSlots(<<locked, change>>)
  IN  IF /\ Fits(notes)
         /\ VerifyAmounts(ins) /\ VerifyAmounts(outs)
         /\ Total(ins.amounts) = Total(outs.amounts)
      THEN {ins.hashes \o outs.hashes} ELSE {}

\* The chain rebuilds each vector from the request and the commitments of its inputs, a
\* missing one the zero commitment.
InputSignals(inputs) ==
  [i \in 1 .. Slots |-> IF i > Len(inputs) THEN ZeroCommit ELSE inputs[i]]
DepositSignals(bridge, output) == <<bridge, output, ZeroCommit>>
WithdrawSignals(bridge, inputs, outputs) == <<bridge>> \o InputSignals(inputs) \o outputs
SplitSignals(inputs, locked, change) == InputSignals(inputs) \o <<locked, change>>

\* The requests.
DepositParams(bridge, output, proof) ==
  [bridge |-> bridge, output |-> output, proof |-> proof]
WithdrawParams(bridge, outputs, proof) ==
  [bridge |-> bridge, outputs |-> outputs, proof |-> proof]

\* ChainClient::deposit, under the blindings r + 1 and r + 2.
ClientDeposit(amount, r) ==
  LET out == Commit(amount, r + 1)
  IN  {DepositParams(Commit(amount, r + 2), out, p) : p \in ProveDeposit(amount, r + 2, out)}

\* ChainClient::withdraw: the request, and the change it reports to its caller.
ClientWithdraw(amount, notes, r) ==
  LET rest == Sum64(notes) - amount
      change == Commit(rest, r + 2)
  IN  IF ~Fits(notes) \/ Sum64(notes) < amount THEN {}
      ELSE {[params |-> WithdrawParams(Commit(amount, r + 1), <<change, ZeroCommit>>, p),
             reported |-> IF rest = 0 THEN {} ELSE {change}] :
              p \in ProveWithdraw(amount, r + 1, notes, change)}

-----------------------------------------------------------------------------
(* The legs of the legacy settlement. *)

\* Mut: the two fills are swapped.
MutFills(mine, other, isToken2) == IF isToken2 THEN <<mine, other>> ELSE <<other, mine>>
Fills(mine, other, isToken2) == IF isToken2 THEN <<other, mine>> ELSE <<mine, other>>

\* The larger side: it pays what its inputs hold beyond the change.  recv is the
\* counterparty's new cash, which the circuit does not open.
ProveSettleLarger(rMy, other, rOther, price, isToken2, notes, change, recv) ==
  LET ins == WitnessSlots(notes)
      mine == Sum64(notes) - change[1]
      fill == Fills(mine, other, isToken2)
  IN  IF /\ Fits(notes) /\ Sum64(notes) >= change[1]
         /\ fill[2] = fill[1] * price /\ fill[2] <= MaxAmount
         /\ VerifyAmounts(ins) /\ {change[1], other} \subseteq 0 .. MaxAmount
         /\ Total(ins.amounts) - change[1] = mine
      THEN {<<Commit(mine, rMy), Commit(other, rOther), price, isToken2>> \o ins.hashes
            \o <<change, recv>>}
      ELSE {}

SettleLargerSignals(myMatch, otherMatch, price, isToken2, inputs, change, recv) ==
  <<myMatch, otherMatch, price, isToken2>> \o InputSignals(inputs) \o <<change, recv>>

\* The smaller side pays all its inputs.
ProveSettleSmaller(rMatch, notes, recv) ==
  LET ins == WitnessSlots(notes)
  IN  IF Fits(notes) /\ VerifyAmounts(ins) /\ Total(ins.amounts) = Sum64(notes)
      THEN {<<Commit(Sum64(notes), rMatch)>> \o ins.hashes \o <<recv>>} ELSE {}

-----------------------------------------------------------------------------
(* The joint settlement by a single prover: amounts in 64 bits. *)

CheckedMul(x, y) == IF x * y <= MaxAmount THEN {x * y} ELSE {}
LockedNeeded(amount, price, seller) == IF seller THEN {amount} ELSE CheckedMul(amount, price)

CoZkSideOk(s, price, seller) ==
  Fits(s.locked) /\ Sum64(s.locked) \in LockedNeeded(s.amount, price, seller)

CoZkAmounts(amount, fill, fillT2, price, seller) ==
  {[order |-> amount - fill, locked |-> rest, recv |-> IF seller THEN fillT2 ELSE fill] :
     rest \in LockedNeeded(amount - fill, price, seller)}

SettleCoZkOutcome(a, b, price, aSeller) ==
  LET fill == Smaller(a.amount, b.amount) IN
  IF CoZkSideOk(a, price, aSeller) /\ CoZkSideOk(b, price, ~aSeller)
  THEN UNION {{[cmp |-> Sign(a.amount, b.amount), out |-> <<outA, outB>>] :
                 outA \in CoZkAmounts(a.amount, fill, fillT2, price, aSeller),
                 outB \in CoZkAmounts(b.amount, fill, fillT2, price, ~aSeller)} :
                 fillT2 \in CheckedMul(fill, price)}
  ELSE {}

CoZkLockedHashes(s) == PadTo(Hashes(s.locked), ZeroCommit)

\* The two maps of the circuit's input: one side's secrets, the public part.
CoZkSideJson(s) ==
  IF Fits(s.locked) THEN {[s EXCEPT !.locked = PadTo(s.locked, ZeroCommit)]} ELSE {}
CoZkPublicJson(orderA, orderB, price, aSeller, lockedA, lockedB) ==
  [order |-> <<orderA, orderB>>, price |-> price, aSeller |-> aSeller,
   locked |-> <<lockedA, lockedB>>]
CoZkInputJson(a, b, price, aSeller) ==
  {[public |-> CoZkPublicJson(Commit(a.amount, a.rOrder), Commit(b.amount, b.rOrder), price,
                              aSeller, CoZkLockedHashes(a), CoZkLockedHashes(b)),
    side |-> <<x, y>>] : x \in CoZkSideJson(a), y \in CoZkSideJson(b)}

\* The outcome under the blindings of its side.
CoZkOutputs(out, s) ==
  [order |-> Commit(out.order, s.rOrderNew), locked |-> Commit(out.locked, s.rLockedNew),
   recv |-> Commit(out.recv, s.rRecv)]

\* The circuit's outputs are those of the outcome.
ProveSettleCoZk(a, b, price, aSeller) ==
  UNION {{st \in {SettlePublic(w.cmp, CoZkOutputs(w.out[1], a), CoZkOutputs(w.out[2], b),
                               in.side[1], in.side[2], in.public.price, in.public.aSeller)} :
            /\ st.order = in.public.order /\ st.locked = in.public.locked
            /\ SettleRelation(st, in.side[1], in.side[2])} :
           w \in SettleCoZkOutcome(a, b, price, aSeller), in \in CoZkInputJson(a, b, price, aSeller)}
=============================================================================
