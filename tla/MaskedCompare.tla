---------------------------- MODULE MaskedCompare ----------------------------
(***************************************************************************)
(* The comparison of two hidden amounts: their difference is opened under   *)
(* a random mask, and the bit that tells the sign is recovered from the     *)
(* opened value and the shared bits of the mask (cozk2p/src/mpc_compare.rs, *)
(* lib/mpc/src/compare.rs).  Shares are left out: an operation on shares is *)
(* the operation on the values.  Nothing wraps: a mask has far fewer bits   *)
(* than the field.                                                          *)
(***************************************************************************)
EXTENDS Integers

CONSTANTS
  AmountBits,  \* width of an amount: 64 in the code
  Kappa        \* bits of a mask beyond those of the comparison: 40 in the code

ASSUME WidthAssumption == AmountBits \in Nat \ {0} /\ Kappa \in Nat

\* The weight of each bit, doubled from one to the next.
Pow2[n \in Nat] == IF n = 0 THEN 1 ELSE 2 * Pow2[n - 1]

MaxAmount == Pow2[AmountBits] - 1
CmpBits == AmountBits + 1
Masks == 0 .. Pow2[CmpBits + Kappa] - 1

\* Bit i of an opened value or of a mask.
ExtractBit(x, i) == (x \div Pow2[i]) % 2

XorBits(a, b) == a + b - 2 * a * b

\* The value opened: above zero by an offset of one bit more than an amount has.
Opened(v1, v2, r) == v1 - v2 + Pow2[AmountBits] + r

\* The borrow of c - r into bit n.
BorrowInto(c, r, n) ==
  LET borrow[i \in 0 .. n] ==
        IF i = 0 THEN 0
        ELSE LET ri == ExtractBit(r, i - 1) IN
             IF ExtractBit(c, i - 1) = 1
             THEN ri * borrow[i - 1]
             ELSE ri + borrow[i - 1] - ri * borrow[i - 1]
  IN  borrow[n]

\* The top bit of the comparison from the borrow of the first n bits.
TopBit(c, r, n) ==
  LET x == XorBits(ExtractBit(r, CmpBits - 1), BorrowInto(c, r, n))
  IN  IF ExtractBit(c, CmpBits - 1) = 1 THEN 1 - x ELSE x

\* compare_geq of lib/mpc: its borrow runs through the top bit as well.
LegacyCompareGeq(v1, v2, r) == TopBit(Opened(v1, v2, r), r, CmpBits)

\* 1 iff v1 >= v2.
CompareGeq(v1, v2, r) == TopBit(Opened(v1, v2, r), r, CmpBits - 1)

\* The bits a comparison of v[1] and v[2] may open, over every mask.
CompareBits ==
  [v \in (0 .. MaxAmount) \X (0 .. MaxAmount) |-> {CompareGeq(v[1], v[2], r) : r \in Masks}]

\* The sign of a - b, opened to both.  The pair (0, 0) is impossible and aborts.
ThreeWay(ab, ba) == IF ab + ba = 0 THEN {} ELSE {ab - ba}
CompareThreeWay(a, b) ==
  {ThreeWay(ab, ba) : ab \in CompareBits[a, b], ba \in CompareBits[b, a]}
=============================================================================
