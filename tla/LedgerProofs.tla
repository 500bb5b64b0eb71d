---------------------------- MODULE LedgerProofs ----------------------------
(***************************************************************************)
(* What holds of the cash table for every set of traders and tokens, and    *)
(* any number of deposits, withdrawals and restarts.                        *)
(***************************************************************************)
EXTENDS CashLedger, TLAPS, FiniteSetTheorems, WellFoundedInduction, SequenceTheorems

-----------------------------------------------------------------------------
(***************************************************************************)
(* What cash is worth together: Sum of CashLedger over finite sets of cash. *)
(* Sum is a recursive function over the subsets of its argument, which      *)
(* takes one element at a time in the order of a CHOOSE.  That it is        *)
(* defined, and does not depend on that order, needs induction over finite  *)
(* sets: a set of counterexamples has a minimal one.                        *)
(***************************************************************************)
\* Induction over the subsets of a finite set.
LEMMA SubsetInduction ==
  ASSUME NEW S, IsFiniteSet(S), NEW Good,
         \A T \in SUBSET S : (\A U \in (SUBSET T) \ {T} : U \in Good) => T \in Good
  PROVE  SUBSET S \subseteq Good
<1> DEFINE Bad == (SUBSET S) \ Good
           R == StrictSubsetOrdering(S)
<1>1. SUFFICES ASSUME Bad # {} PROVE FALSE
  OBVIOUS
<1>2. IsWellFoundedOn(R, FiniteSubsetsOf(S))
  BY FS_StrictSubsetOrderingWellFounded
<1>3. Bad \subseteq FiniteSubsetsOf(S)
  BY FS_Subset DEF FiniteSubsetsOf
<1>4. \E T \in Bad : \A U \in Bad : <<U, T>> \notin R
  <2> HIDE DEF Bad, R
  <2>1. QED
    BY <1>1, <1>2, <1>3, WFMin, Zenon
<1>5. PICK T \in Bad : \A U \in Bad : <<U, T>> \notin R
  BY <1>4
<1>6. \A U \in (SUBSET T) \ {T} : U \in Good
  BY <1>5 DEF StrictSubsetOrdering
<1>7. QED
  BY <1>5, <1>6

-----------------------------------------------------------------------------
(* The recursion is defined. *)

Pick(s) == CHOOSE x \in s : TRUE

\* One unfolding of the sum, as a function on the subsets of S, from the function g.
Unfold(S, g) ==
  [s \in SUBSET S |-> IF s = {} THEN 0 ELSE AmountOf(Pick(s)) + g[s \ {Pick(s)}]]
SumsOf(S) == CHOOSE g : g = Unfold(S, g)

\* The sum over S is the value at S of a function that unfolds to itself.
LEMMA SumIsUnfolded ==
  ASSUME NEW S
  PROVE  Sum(S) = SumsOf(S)[S]
  BY DEF Sum, MapThenSumSet, MapThenFoldSet, SumsOf, Unfold, Pick

\* What Pick takes from a set is in it.
LEMMA PickIn ==
  ASSUME NEW s, s # {}
  PROVE  Pick(s) \in s
  BY DEF Pick

\* The values of g are those of such a function, for the subsets of S.
Unfolds(S, g) ==
  \A s \in SUBSET S : g[s] = IF s = {} THEN 0 ELSE AmountOf(Pick(s)) + g[s \ {Pick(s)}]

\* Two such functions agree.
LEMMA UnfoldUnique ==
  ASSUME NEW S, IsFiniteSet(S), NEW g, NEW h, Unfolds(S, g), Unfolds(S, h)
  PROVE  \A T \in SUBSET S : g[T] = h[T]
<1> DEFINE Good == {T \in SUBSET S : g[T] = h[T]}
<1>1. ASSUME NEW T \in SUBSET S, \A U \in (SUBSET T) \ {T} : U \in Good
      PROVE  T \in Good
  <2>1. CASE T = {}
    BY <2>1 DEF Unfolds
  <2>2. CASE T # {}
    <3>1. Pick(T) \in T /\ T \ {Pick(T)} \in (SUBSET T) \ {T}
      BY <2>2, PickIn
    <3>2. g[T \ {Pick(T)}] = h[T \ {Pick(T)}]
      BY <1>1, <3>1
    <3>3. /\ g[T] = AmountOf(Pick(T)) + g[T \ {Pick(T)}]
          /\ h[T] = AmountOf(Pick(T)) + h[T \ {Pick(T)}]
      BY <2>2 DEF Unfolds
    <3>4. QED
      BY <3>2, <3>3
  <2>3. QED
    BY <2>1, <2>2
<1> HIDE DEF Good
<1>2. SUBSET S \subseteq Good
  BY <1>1, SubsetInduction
<1>3. QED
  BY <1>2 DEF Good

\* There is one.
LEMMA UnfoldExists ==
  ASSUME NEW S, IsFiniteSet(S)
  PROVE  \A T \in SUBSET S : SumsOf(T) = Unfold(T, SumsOf(T))
<1> DEFINE Good == {T \in SUBSET S : SumsOf(T) = Unfold(T, SumsOf(T))}
           Value(U) == SumsOf(U)[U]
<1>1. ASSUME NEW T \in SUBSET S, \A U \in (SUBSET T) \ {T} : U \in Good
      PROVE  T \in Good
  <2> DEFINE g == [s \in SUBSET T |->
                     IF s # T THEN Value(s)
                     ELSE IF T = {} THEN 0 ELSE AmountOf(Pick(T)) + Value(T \ {Pick(T)})]
  <2>1. ASSUME NEW s \in SUBSET T
        PROVE  g[s] = Unfold(T, g)[s]
    <3>1. CASE s = {}
      <4>1. s # T => SumsOf(s) = Unfold(s, SumsOf(s))
        BY <1>1
      <4>2. s # T => Value(s) = 0
        BY <3>1, <4>1 DEF Unfold
      <4>3. QED
        BY <3>1, <4>2 DEF Unfold
    <3>2. CASE s # {}
      <4> DEFINE r == s \ {Pick(s)}
      <4>1. Pick(s) \in s /\ r \in (SUBSET s) \ {s} /\ r \in (SUBSET T) \ {T}
        BY <3>2, PickIn
      <4>2. g[r] = Value(r)
        BY <4>1
      <4>3. CASE s = T
        BY <3>2, <4>2, <4>3 DEF Unfold
      <4>4. CASE s # T
        <5>1. SumsOf(s) = Unfold(s, SumsOf(s)) /\ SumsOf(r) = Unfold(r, SumsOf(r))
          BY <1>1, <4>1, <4>4
        <5>2. Unfolds(s, SumsOf(s)) /\ Unfolds(r, SumsOf(r))
          BY <5>1 DEF Unfold, Unfolds
        <5>3. Unfolds(r, SumsOf(s))
          BY <4>1, <5>2 DEF Unfolds
        <5>4. IsFiniteSet(r)
          BY <4>1, FS_Subset
        <5>5. SumsOf(s)[r] = Value(r)
          BY <5>2, <5>3, <5>4, UnfoldUnique
        <5>6. SumsOf(s)[s] = AmountOf(Pick(s)) + SumsOf(s)[r]
          BY <3>2, <5>2 DEF Unfolds
        <5>7. QED
          BY <3>2, <4>2, <4>4, <5>5, <5>6 DEF Unfold
      <4>5. QED
        BY <4>3, <4>4
    <3>3. QED
      BY <3>1, <3>2
  <2>2. g = Unfold(T, g)
    BY <2>1 DEF Unfold
  <2> HIDE DEF g
  <2>3. QED
    BY <2>2 DEF SumsOf
<1> HIDE DEF Good
<1>2. SUBSET S \subseteq Good
  BY <1>1, SubsetInduction
<1>3. QED
  BY <1>2 DEF Good

\* The function of a finite set has the sums of all its subsets.
LEMMA SumsUnfold ==
  ASSUME NEW S, IsFiniteSet(S)
  PROVE  Unfolds(S, SumsOf(S)) /\ \A T \in SUBSET S : SumsOf(S)[T] = Sum(T)
<1>1. \A T \in SUBSET S : Unfolds(T, SumsOf(T))
  BY UnfoldExists DEF Unfold, Unfolds
<1>2. Unfolds(S, SumsOf(S))
  BY <1>1
<1>3. ASSUME NEW T \in SUBSET S
      PROVE  SumsOf(S)[T] = Sum(T)
  <2>1. Unfolds(T, SumsOf(S)) /\ Unfolds(T, SumsOf(T))
    BY <1>1, <1>2 DEF Unfolds
  <2>2. IsFiniteSet(T)
    BY FS_Subset
  <2>3. SumsOf(S)[T] = SumsOf(T)[T]
    BY <2>1, <2>2, UnfoldUnique
  <2>4. QED
    BY <2>3, SumIsUnfolded
<1>4. QED
  BY <1>2, <1>3

-----------------------------------------------------------------------------
(* The laws of Sum. *)

\* Nothing is worth nothing.
LEMMA SumOfNone == Sum({}) = 0
  BY FS_EmptySet, SumsUnfold DEF Unfolds

\* The recursion, one element at a time.
LEMMA SumPicks ==
  ASSUME NEW S, IsFiniteSet(S), S # {}
  PROVE  Sum(S) = AmountOf(Pick(S)) + Sum(S \ {Pick(S)})
  BY SumsUnfold DEF Unfolds

\* Cash is worth a natural number.
LEMMA SumIsNat ==
  ASSUME NEW S, IsFiniteSet(S), S \subseteq CashId
  PROVE  Sum(S) \in Nat
<1> DEFINE Good == {T \in SUBSET S : Sum(T) \in Nat}
<1>1. ASSUME NEW T \in SUBSET S, \A U \in (SUBSET T) \ {T} : U \in Good
      PROVE  T \in Good
  <2>1. CASE T = {}
    BY <2>1, SumOfNone
  <2>2. CASE T # {}
    <3>1. Pick(T) \in T /\ T \ {Pick(T)} \in (SUBSET T) \ {T}
      BY <2>2, PickIn
    <3>2. AmountOf(Pick(T)) \in Nat
      BY <3>1 DEF AmountOf, CashId
    <3>3. IsFiniteSet(T)
      BY FS_Subset
    <3>4. Sum(T) = AmountOf(Pick(T)) + Sum(T \ {Pick(T)})
      BY <2>2, <3>3, SumPicks
    <3>5. QED
      BY <1>1, <3>1, <3>2, <3>4
  <2>3. QED
    BY <2>1, <2>2
<1> HIDE DEF Good
<1>2. SUBSET S \subseteq Good
  BY <1>1, SubsetInduction
<1>3. QED
  BY <1>2 DEF Good

\* One more cash is worth its amount more, in whatever order the sum takes them.
LEMMA SumAdds ==
  ASSUME NEW S, IsFiniteSet(S), S \subseteq CashId, NEW c \in CashId, c \notin S
  PROVE  Sum(S \cup {c}) = Sum(S) + c.amt
<1> DEFINE All == S \cup {c}
           Good == {T \in SUBSET All : \A x \in T : Sum(T) = Sum(T \ {x}) + x.amt}
<1>0. IsFiniteSet(All) /\ All \subseteq CashId
  BY FS_AddElement
<1>1. ASSUME NEW T \in SUBSET All, \A U \in (SUBSET T) \ {T} : U \in Good
      PROVE  T \in Good
  <2> SUFFICES ASSUME NEW x \in T PROVE Sum(T) = Sum(T \ {x}) + x.amt
    OBVIOUS
  <2> DEFINE p == Pick(T)
  <2>1. p \in T
    BY PickIn
  <2>2. \A U \in SUBSET T : IsFiniteSet(U) /\ Sum(U) \in Nat
    <3>1. \A U \in SUBSET T : IsFiniteSet(U) /\ U \subseteq CashId
      BY <1>0, FS_Subset
    <3>2. QED
      BY <3>1, SumIsNat
  <2>3. x.amt \in Nat /\ p.amt \in Nat
    BY <1>0, <2>1 DEF CashId
  <2>4. Sum(T) = p.amt + Sum(T \ {p})
    BY <2>1, <2>2, SumPicks DEF AmountOf
  <2> HIDE DEF p
  <2>5. CASE x = p
    BY <2>2, <2>3, <2>4, <2>5
  <2>6. CASE x # p
    <3>1. T \ {p} \in (SUBSET T) \ {T} /\ T \ {x} \in (SUBSET T) \ {T}
      BY <2>1
    <3>2. x \in T \ {p} /\ p \in T \ {x} /\ (T \ {p}) \ {x} = (T \ {x}) \ {p}
      BY <2>1, <2>6
    <3>3. Sum(T \ {p}) = Sum((T \ {p}) \ {x}) + x.amt
      BY <1>1, <3>1, <3>2
    <3>4. Sum(T \ {x}) = Sum((T \ {p}) \ {x}) + p.amt
      BY <1>1, <3>1, <3>2
    <3>5. Sum((T \ {p}) \ {x}) \in Nat
      BY <2>2
    <3>6. QED
      BY <2>3, <2>4, <3>3, <3>4, <3>5
  <2>7. QED
    BY <2>5, <2>6
<1>2. SUBSET All \subseteq Good
  <2> HIDE DEF Good, All
  <2>1. QED
    BY <1>0, <1>1, SubsetInduction
<1>3. Sum(All) = Sum(All \ {c}) + c.amt
  BY <1>2
<1>4. All \ {c} = S
  OBVIOUS
<1>5. QED
  BY <1>3, <1>4

\* One cash is worth its amount.
LEMMA SumOfOne ==
  ASSUME NEW c \in CashId
  PROVE  Sum({c}) = c.amt
<1>1. Sum({} \cup {c}) = Sum({}) + c.amt
  BY FS_EmptySet, SumAdds
<1>2. c.amt \in Nat /\ {} \cup {c} = {c}
  BY DEF CashId
<1>3. QED
  BY <1>1, <1>2, SumOfNone

\* Disjoint sets of cash are worth the sum of what each is worth.
LEMMA SumOfUnion ==
  ASSUME NEW A, NEW B, IsFiniteSet(A), IsFiniteSet(B), A \subseteq CashId, B \subseteq CashId,
         A \cap B = {}
  PROVE  Sum(A \cup B) = Sum(A) + Sum(B)
<1> DEFINE Good == {T \in SUBSET B : Sum(A \cup T) = Sum(A) + Sum(T)}
<1>1. ASSUME NEW T \in SUBSET B, \A U \in (SUBSET T) \ {T} : U \in Good
      PROVE  T \in Good
  <2>1. CASE T = {}
    <3>1. A \cup T = A /\ Sum(A) \in Nat
      BY <2>1, SumIsNat
    <3>2. QED
      BY <2>1, <3>1, SumOfNone
  <2>2. CASE T # {}
    <3>1. PICK x \in T : TRUE
      BY <2>2
    <3> DEFINE U == T \ {x}
               AU == A \cup U
    <3>2. /\ U \in (SUBSET T) \ {T} /\ IsFiniteSet(U) /\ U \subseteq CashId
          /\ x \in CashId /\ x.amt \in Nat /\ x \notin U /\ x \notin AU
          /\ U \cup {x} = T /\ AU \cup {x} = A \cup T
      BY <3>1, FS_Subset DEF CashId
    <3>3. IsFiniteSet(AU) /\ AU \subseteq CashId
      BY <3>2, FS_Union
    <3>4. Sum(AU) = Sum(A) + Sum(U)
      BY <1>1, <3>2
    <3>5. Sum(A) \in Nat /\ Sum(U) \in Nat
      BY <3>2, SumIsNat
    <3> HIDE DEF U, AU
    <3>6. Sum(U \cup {x}) = Sum(U) + x.amt /\ Sum(AU \cup {x}) = Sum(AU) + x.amt
      BY <3>2, <3>3, SumAdds
    <3>7. Sum(A \cup T) = Sum(A) + Sum(T)
      <4>1. x.amt \in Nat /\ Sum(T) = Sum(U) + x.amt /\ Sum(A \cup T) = Sum(AU) + x.amt
        BY <3>2, <3>6
      <4>2. Sum(A) \in Nat
        BY SumIsNat
      <4>3. QED
        BY <3>4, <3>5, <4>1, <4>2
    <3>8. QED
      BY <3>7
  <2>3. QED
    BY <2>1, <2>2
<1> HIDE DEF Good
<1>2. SUBSET B \subseteq Good
  BY <1>1, SubsetInduction
<1>3. QED
  BY <1>2 DEF Good

-----------------------------------------------------------------------------
(***************************************************************************)
(* The table: its types, and the rows its operations keep.                  *)
(***************************************************************************)
Outputs == [id: CashId, row: CashRow]

\* A later cash table keeps every row of an earlier one, the Spent ones as they are, and
\* no row is Active again.
Keeps(t, u) ==
  \A c \in DOMAIN t : /\ c \in DOMAIN u
                      /\ t[c].status = "Spent" => u[c] = t[c]
                      /\ t[c].status # "Active" => u[c].status # "Active"

\* SpendCash deletes no row and changes no Spent one.
LEMMA SpendKeeps ==
  ASSUME NEW t, NEW cs, NEW os, Spendable(t, cs)
  PROVE  Keeps(t, SpendCash(t, cs, os)) /\ DOMAIN SpendCash(t, cs, os) = DOMAIN t
  BY DEF Spendable, Unspent, SpendCash, SpentRow, Keeps

\* Nor does LockCash.
LEMMA LockKeeps ==
  ASSUME NEW t, NEW cs, NEW o, Lockable(t, cs)
  PROVE  Keeps(t, LockCash(t, cs, o))
  BY DEF Lockable, ActiveCash, LockCash, LockedRow, Keeps

\* Nor does any number of inserts.
LEMMA MintKeeps ==
  ASSUME NEW t, NEW outs, NEW k
  PROVE  Keeps(t, Minted(t, outs, k)) /\ \A c \in DOMAIN t : Minted(t, outs, k)[c] = t[c]
  BY DEF Minted, Keeps

\* Nor the two in a row, as in every settlement.
LEMMA SpendAndMintKeeps ==
  ASSUME NEW t, NEW cs, NEW os, NEW outs, NEW k, Spendable(t, cs)
  PROVE  Keeps(t, Minted(SpendCash(t, cs, os), outs, k))
  BY SpendKeeps, MintKeeps DEF Keeps

\* Nor do Deposit, Withdraw and InitChain.
LEMMA LedgerKeeps == LedgerNext => Keeps(cash, cash')
<1> SUFFICES ASSUME LedgerNext PROVE Keeps(cash, cash')
  OBVIOUS
<1>1. CASE Restart
  BY <1>1 DEF Restart, Seeded, Keeps
<1>2. ASSUME NEW owner, NEW token, NEW amt, NEW r, Deposit(owner, token, amt, r)
      PROVE  Keeps(cash, cash')
  BY <1>2, MintKeeps DEF Deposit, Mint
<1>3. ASSUME NEW cs, NEW out, NEW to, NEW r, Withdraw(cs, out, to, r)
      PROVE  Keeps(cash, cash')
  BY <1>3, SpendAndMintKeeps DEF Withdraw, WithdrawAccepted, Mint
<1>4. ASSUME NEW cs, NEW out, NEW to, NEW r, WithdrawFails(cs, out, to, r)
      PROVE  Keeps(cash, cash')
  BY <1>4, SpendAndMintKeeps DEF WithdrawFails, WithdrawAccepted, MintFails
<1>5. QED
  BY <1>1, <1>2, <1>3, <1>4 DEF LedgerNext

-----------------------------------------------------------------------------
Typed(t) == DOMAIN t \subseteq CashId /\ t \in [DOMAIN t -> CashRow]

\* SpendCash leaves cash rows.
LEMMA SpendTyped ==
  ASSUME NEW t, NEW cs, NEW os \in SUBSET OrderId, Typed(t)
  PROVE  Typed(SpendCash(t, cs, os))
<1>1. SpentRow(os) \in CashRow
  BY DEF SpentRow, CashRow, CashStatus
<1>2. QED
  BY <1>1 DEF Typed, SpendCash

\* LockCash leaves cash rows.
LEMMA LockTyped ==
  ASSUME NEW t, NEW cs, NEW o \in OrderId, Typed(t)
  PROVE  Typed(LockCash(t, cs, o))
<1>1. LockedRow(o) \in CashRow
  BY DEF LockedRow, CashRow, CashStatus
<1>2. QED
  BY <1>1 DEF Typed, LockCash

\* Inserting well-formed outputs leaves cash rows.
LEMMA MintTyped ==
  ASSUME NEW t, NEW outs \in Seq(Outputs), NEW k \in 0..Len(outs), Typed(t)
  PROVE  Typed(Minted(t, outs, k))
<1> DEFINE ids == {outs[i].id : i \in 1..k}
<1>1. \A i \in 1..k : outs[i] \in Outputs
  OBVIOUS
<1>2. \A i \in 1..k : outs[i].id \in CashId /\ outs[i].row \in CashRow
  BY <1>1 DEF Outputs
<1>3. ids \subseteq CashId
  BY <1>2
<1>4. ASSUME NEW c \in ids
      PROVE  outs[CHOOSE i \in 1..k : outs[i].id = c].row \in CashRow
  BY <1>2, <1>4
<1>5. QED
  BY <1>3, <1>4 DEF Typed, Minted

\* Seeding the genesis cash leaves cash rows.
LEMMA SeededTyped ==
  ASSUME NEW t, Typed(t)
  PROVE  Typed(Seeded(t))
<1>1. ActiveRow \in CashRow
  BY DEF ActiveRow, CashRow, CashStatus
<1>2. QED
  BY <1>1, GenesisAssumption DEF Typed, Seeded

\* An output that is not locked needs an owner, a token, an amount above zero, a blinding.
LEMMA ActiveOutput ==
  ASSUME NEW owner \in Trader, NEW token \in Token, NEW amt \in Nat \ {0}, NEW r \in Blinding
  PROVE  Output(Cash(owner, token, amt, r), ActiveRow) \in Outputs
  BY DEF Output, Outputs, Cash, CashId, ActiveRow, CashRow, CashStatus

\* A locked output of a positive amount is well formed.
LEMMA LockedOutput ==
  ASSUME NEW owner \in Trader, NEW token \in Token, NEW amt \in Nat \ {0}, NEW r \in Blinding,
         NEW o \in OrderId
  PROVE  Output(Cash(owner, token, amt, r), LockedRow(o)) \in Outputs
  BY DEF Output, Outputs, Cash, CashId, LockedRow, CashRow, CashStatus

\* An order ID is the set of cash it was computed from.
LEMMA InputsAreOrderId ==
  ASSUME NEW cs, NEW owner, NEW token, Typed(cash), cs \in RequestInputs,
         ValidInputs(cs, owner, token)
  PROVE  /\ cs \in OrderId
         /\ OwnerOf(cs) \in Trader /\ TokenOf(cs) \in Token
         /\ OwnerOf(cs) = owner /\ TokenOf(cs) = token
<1>1. cs # {} /\ cs \subseteq CashId
  BY DEF RequestInputs, Typed
<1>2. PICK d : d = (CHOOSE c \in cs : TRUE)
  OBVIOUS
<1>3. d \in cs
  BY <1>1, <1>2
<1>4. OwnerOf(cs) = d.owner /\ TokenOf(cs) = d.token
  BY <1>2 DEF OwnerOf, TokenOf
<1>5. d.owner \in Trader /\ d.token \in Token
  BY <1>1, <1>3 DEF CashId
<1>6. d.owner = owner /\ d.token = token
  BY <1>3 DEF ValidInputs
<1>7. cs \in OrderId
  BY <1>1 DEF OrderId
<1>8. QED
  BY <1>4, <1>5, <1>6, <1>7

\* What genesis issues of each token is a sum of amounts.
LEMMA GenesisIssued == IssuedAtGenesis \in [Token -> Int]
<1>1. SUFFICES ASSUME NEW t \in Token PROVE Sum({c \in Genesis : c.token = t}) \in Int
  BY DEF IssuedAtGenesis
<1>2. {c \in Genesis : c.token = t} \in SUBSET Genesis
  OBVIOUS
<1>3. IsFiniteSet({c \in Genesis : c.token = t}) /\ {c \in Genesis : c.token = t} \subseteq CashId
  BY <1>2, GenesisAssumption, FS_Subset
<1>4. QED
  BY <1>3, SumIsNat

\* Deposit, Withdraw and InitChain keep the type of the ledger.
LEMMA LedgerStepTyped == LedgerTypeOK /\ LedgerNext => LedgerTypeOK'
<1> SUFFICES ASSUME LedgerTypeOK, LedgerNext PROVE LedgerTypeOK'
  OBVIOUS
<1>0. Typed(cash) /\ issued \in [Token -> Int]
  BY DEF LedgerTypeOK, Typed
<1>1. SUFFICES Typed(cash') /\ issued' \in [Token -> Int]
  BY DEF LedgerTypeOK, Typed
<1>2. CASE Restart
  BY <1>0, <1>2, SeededTyped DEF Restart
<1>3. ASSUME NEW owner \in Trader, NEW token \in Bridged, NEW amt \in 1..MaxIssued,
             NEW r \in Blinding, Deposit(owner, token, amt, r)
      PROVE  Typed(cash') /\ issued' \in [Token -> Int]
  <2> DEFINE outs == <<Output(Cash(owner, token, amt, r), ActiveRow)>>
  <2>1. token \in Token /\ amt \in Nat \ {0}
    BY GenesisAssumption
  <2>2. outs \in Seq(Outputs) /\ Len(outs) \in 0..Len(outs)
    BY <2>1, ActiveOutput
  <2>3. Typed(Minted(cash, outs, Len(outs)))
    BY <1>0, <2>2, MintTyped
  <2>4. QED
    BY <1>0, <1>3, <2>1, <2>3 DEF Deposit, Mint
<1>4. ASSUME NEW cs \in RequestInputs, NEW out, NEW to \in Trader, NEW r \in Blinding,
             NEW change, NEW outs,
             change = Sum(cs) - out,
             outs = WithdrawOutputs(to, TokenOf(cs), change, r),
             WithdrawAccepted(cs, out, change, outs)
      PROVE  /\ out \in Nat /\ TokenOf(cs) \in Token
             /\ outs \in Seq(Outputs)
             /\ \A k \in 0..Len(outs) : Typed(Minted(SpendCash(cash, cs, {}), outs, k))
  <2>1. TokenOf(cs) \in Token
    BY <1>0, <1>4, InputsAreOrderId DEF WithdrawAccepted
  <2>2. out \in Nat /\ change \in Nat
    BY <1>4 DEF WithdrawAccepted, WithdrawRelation
  <2>3. outs \in Seq(Outputs)
    <3>1. CASE change = 0
      BY <1>4, <3>1 DEF WithdrawOutputs
    <3>2. CASE change # 0
      BY <1>4, <2>1, <2>2, <3>2, ActiveOutput DEF WithdrawOutputs
    <3>3. QED
      BY <3>1, <3>2
  <2>4. Typed(SpendCash(cash, cs, {}))
    BY <1>0, SpendTyped
  <2>5. QED
    BY <2>1, <2>2, <2>3, <2>4, MintTyped
<1>5. ASSUME NEW cs \in RequestInputs, NEW out, NEW to \in Trader, NEW r \in Blinding,
             Withdraw(cs, out, to, r)
      PROVE  Typed(cash') /\ issued' \in [Token -> Int]
  <2> DEFINE change == Sum(cs) - out
             outs == WithdrawOutputs(to, TokenOf(cs), change, r)
  <2>1. /\ WithdrawAccepted(cs, out, change, outs)
        /\ cash' = Minted(SpendCash(cash, cs, {}), outs, Len(outs))
        /\ issued' = [issued EXCEPT ![TokenOf(cs)] = @ - out]
    BY <1>5 DEF Withdraw, Mint
  <2> HIDE DEF change, outs
  <2>2. /\ out \in Nat /\ TokenOf(cs) \in Token /\ outs \in Seq(Outputs)
        /\ \A k \in 0..Len(outs) : Typed(Minted(SpendCash(cash, cs, {}), outs, k))
    BY <1>4, <2>1 DEF change, outs
  <2>3. Len(outs) \in 0..Len(outs)
    BY <2>2, LenProperties
  <2>4. QED
    BY <1>0, <2>1, <2>2, <2>3
<1>6. ASSUME NEW cs \in RequestInputs, NEW out, NEW to \in Trader, NEW r \in Blinding,
             WithdrawFails(cs, out, to, r)
      PROVE  Typed(cash') /\ issued' \in [Token -> Int]
  <2> DEFINE change == Sum(cs) - out
             outs == WithdrawOutputs(to, TokenOf(cs), change, r)
  <2>1. /\ WithdrawAccepted(cs, out, change, outs)
        /\ \E k \in 0..(Len(outs) - 1) : cash' = Minted(SpendCash(cash, cs, {}), outs, k)
        /\ issued' = issued
    BY <1>6, Zenon DEF WithdrawFails, MintFails
  <2> HIDE DEF change, outs
  <2>2. /\ outs \in Seq(Outputs)
        /\ \A k \in 0..Len(outs) : Typed(Minted(SpendCash(cash, cs, {}), outs, k))
    BY <1>4, <2>1 DEF change, outs
  <2>3. 0..(Len(outs) - 1) \subseteq 0..Len(outs)
    BY <2>2, LenProperties
  <2>4. QED
    BY <1>0, <2>1, <2>2, <2>3
<1>7. QED
  BY <1>2, <1>3, <1>5, <1>6 DEF LedgerNext

-----------------------------------------------------------------------------
\* A wallet that names new commitments is never refused one.
LEMMA FreshNeverFails ==
  ASSUME FreshOutputs, NEW t, NEW outs, DOMAIN t = DOMAIN cash, WalletMayName(outs),
         Len(outs) \in Nat
  PROVE  Mintable(t, outs) /\ \A after : ~MintFails(t, outs, after)
<1>1. MintsUpTo(cash, outs, Len(outs))
  BY DEF WalletMayName, Mintable
<1>2. \A k \in 0..Len(outs) : MintsUpTo(t, outs, k)
  BY <1>1 DEF MintsUpTo
<1>3. \A k \in 0..(Len(outs) - 1) : k + 1 \in 0..Len(outs)
  OBVIOUS
<1>4. QED
  BY <1>2, <1>3 DEF Mintable, MintFails

\* Each cash a list of new, different outputs mints gets its own row.
LEMMA MintedRow ==
  ASSUME NEW t, NEW outs, Len(outs) \in Nat, Mintable(t, outs), NEW i \in 1..Len(outs)
  PROVE  outs[i].id \in DOMAIN Mint(t, outs) /\ Mint(t, outs)[outs[i].id] = outs[i].row
<1> DEFINE n == Len(outs)
<1>1. \A j \in 1..n : outs[j].id = outs[i].id => j = i
  <2>1. SUFFICES ASSUME NEW j \in 1..n, outs[j].id = outs[i].id, j # i PROVE FALSE
    OBVIOUS
  <2>2. j \in 1..(i - 1) \/ i \in 1..(j - 1)
    BY <2>1
  <2>3. QED
    BY <2>1, <2>2 DEF Mintable, MintsUpTo
<1>2. (CHOOSE j \in 1..n : outs[j].id = outs[i].id) = i
  BY <1>1
<1>3. outs[i].id \notin DOMAIN t
  BY DEF Mintable, MintsUpTo
<1>4. QED
  BY <1>2, <1>3 DEF Mint, Minted

-----------------------------------------------------------------------------
(***************************************************************************)
(* Value.  The table is finite, so a set of its cash has a worth.           *)
(***************************************************************************)
FiniteTable(t) == IsFiniteSet(DOMAIN t) /\ DOMAIN t \subseteq CashId

OfToken(S, token) == {c \in S : c.token = token}
Worth(t, token) == Sum(OfToken(Unspent(t), token))

\* The cash a list of outputs names.
Ids(outs) == {outs[i].id : i \in 1..Len(outs)}

\* Any set of cash of a finite table is worth a natural number.
LEMMA TableSum ==
  ASSUME NEW t, FiniteTable(t), NEW S \in SUBSET (DOMAIN t)
  PROVE  IsFiniteSet(S) /\ S \subseteq CashId /\ Sum(S) \in Nat
  BY FS_Subset, SumIsNat DEF FiniteTable

\* Spending takes from circulation what the spent cash is worth.
LEMMA SpendWorth ==
  ASSUME NEW t, FiniteTable(t), NEW cs, cs \subseteq Unspent(t), NEW os, NEW token
  PROVE  Worth(SpendCash(t, cs, os), token) = Worth(t, token) - Sum(OfToken(cs, token))
<1> DEFINE A == OfToken(Unspent(SpendCash(t, cs, os)), token)
           B == OfToken(cs, token)
           C == OfToken(Unspent(t), token)
<1>1. Unspent(SpendCash(t, cs, os)) = Unspent(t) \ cs
  BY DEF Unspent, SpendCash, SpentRow
<1>2. C = A \cup B /\ A \cap B = {} /\ A \in SUBSET (DOMAIN t) /\ B \in SUBSET (DOMAIN t)
  BY <1>1 DEF OfToken, Unspent
<1> HIDE DEF A, B, C
<1>3. /\ IsFiniteSet(A) /\ A \subseteq CashId /\ Sum(A) \in Nat
      /\ IsFiniteSet(B) /\ B \subseteq CashId /\ Sum(B) \in Nat
  BY <1>2, TableSum
<1>4. Sum(C) = Sum(A) + Sum(B)
  BY <1>2, <1>3, SumOfUnion
<1>5. QED
  BY <1>3, <1>4 DEF Worth, A, B, C

\* A mint that is not refused puts the cash its outputs name in circulation, all of it new.
LEMMA MintAdds ==
  ASSUME NEW t, FiniteTable(t), NEW outs \in Seq(Outputs), Mintable(t, outs),
         \A i \in 1..Len(outs) : outs[i].row.status # "Spent"
  PROVE  /\ FiniteTable(Mint(t, outs))
         /\ IsFiniteSet(Ids(outs)) /\ Ids(outs) \subseteq CashId /\ Ids(outs) \cap DOMAIN t = {}
         /\ Unspent(Mint(t, outs)) = Unspent(t) \cup Ids(outs)
<1> DEFINE u == Mint(t, outs)
<1>1. Len(outs) \in Nat
  BY LenProperties
<1>2. \A i \in 1..Len(outs) : outs[i].id \in CashId /\ outs[i].id \notin DOMAIN t
  <2>1. TAKE i \in 1..Len(outs)
  <2>2. outs[i] \in Outputs
    BY <1>1, ElementOfSeq
  <2>3. QED
    BY <2>2 DEF Mintable, MintsUpTo, Outputs
<1>3. IsFiniteSet(Ids(outs)) /\ Ids(outs) \subseteq CashId /\ Ids(outs) \cap DOMAIN t = {}
  <2>1. PICK f : f = [i \in 1..Len(outs) |-> outs[i].id]
    OBVIOUS
  <2>2. IsFiniteSet(Ids(outs))
    <3>1. f \in Surjection(1..Len(outs), Ids(outs))
      BY <2>1 DEF Surjection, Ids
    <3>2. QED
      BY <1>1, <3>1, FS_NatSurjection DEF ExistsSurjection
  <2>3. QED
    BY <1>2, <2>2 DEF Ids
<1>4. DOMAIN u = DOMAIN t \cup Ids(outs)
  BY DEF Mint, Minted, Ids
<1>5. FiniteTable(u)
  BY <1>3, <1>4, FS_Union DEF FiniteTable
<1>6. \A c \in DOMAIN t : u[c] = t[c]
  BY MintKeeps DEF Mint
<1>7. \A c \in Ids(outs) : c \in DOMAIN u /\ u[c].status # "Spent"
  BY <1>1, MintedRow DEF Ids
<1> HIDE DEF u
<1>8. Unspent(u) = Unspent(t) \cup Ids(outs)
  BY <1>4, <1>6, <1>7 DEF Unspent
<1>9. QED
  BY <1>3, <1>5, <1>8 DEF u

\* It adds what its outputs are worth.
LEMMA MintWorth ==
  ASSUME NEW t, FiniteTable(t), NEW outs \in Seq(Outputs), Mintable(t, outs),
         \A i \in 1..Len(outs) : outs[i].row.status # "Spent", NEW token
  PROVE  /\ FiniteTable(Mint(t, outs))
         /\ Worth(Mint(t, outs), token) = Worth(t, token) + Sum(OfToken(Ids(outs), token))
<1> DEFINE A == OfToken(Unspent(t), token)
           B == OfToken(Ids(outs), token)
           C == OfToken(Unspent(Mint(t, outs)), token)
<1>1. /\ FiniteTable(Mint(t, outs))
      /\ IsFiniteSet(Ids(outs)) /\ Ids(outs) \subseteq CashId /\ Ids(outs) \cap DOMAIN t = {}
      /\ Unspent(Mint(t, outs)) = Unspent(t) \cup Ids(outs)
  BY MintAdds
<1>2. C = A \cup B /\ A \cap B = {} /\ A \in SUBSET (DOMAIN t) /\ B \in SUBSET Ids(outs)
  BY <1>1 DEF OfToken, Unspent
<1> HIDE DEF A, B, C
<1>3. IsFiniteSet(A) /\ A \subseteq CashId
  BY <1>2, TableSum
<1>4. IsFiniteSet(B) /\ B \subseteq CashId
  BY <1>1, <1>2, FS_Subset
<1>5. Sum(C) = Sum(A) + Sum(B)
  BY <1>2, <1>3, <1>4, SumOfUnion
<1>6. QED
  BY <1>1, <1>5 DEF Worth, A, B, C

\* The one cash a list of one output names, by token.
LEMMA OneId ==
  ASSUME NEW c \in CashId, NEW row, NEW token
  PROVE  /\ Ids(<<Output(c, row)>>) = {c}
         /\ Sum(OfToken({c}, token)) = IF c.token = token THEN c.amt ELSE 0
<1>1. Ids(<<Output(c, row)>>) = {c}
  BY DEF Ids, Output
<1>2. CASE c.token = token
  <2>1. OfToken({c}, token) = {c}
    BY <1>2 DEF OfToken
  <2>2. QED
    BY <1>1, <1>2, <2>1, SumOfOne
<1>3. CASE c.token # token
  <2>1. OfToken({c}, token) = {}
    BY <1>3 DEF OfToken
  <2>2. QED
    BY <1>1, <1>3, <2>1, SumOfNone
<1>4. QED
  BY <1>2, <1>3

\* The table is well typed and finite, and holds what genesis seeded.
LedgerSound ==
  /\ LedgerTypeOK
  /\ IsFiniteSet(DOMAIN cash)
  /\ Genesis \subseteq DOMAIN cash

\* What a step puts in circulation is what it adds to the count of what was issued.
Balanced ==
  \A token \in Token : Worth(cash', token) + issued[token] = Worth(cash, token) + issued'[token]

\* A deposit adds its amount.
LEMMA DepositBalanced ==
  ASSUME NEW owner \in Trader, NEW token \in Bridged, NEW amt \in 1..MaxIssued,
         NEW r \in Blinding, LedgerSound, Deposit(owner, token, amt, r)
  PROVE  FiniteTable(cash') /\ Balanced
<1> DEFINE c == Cash(owner, token, amt, r)
           outs == <<Output(c, ActiveRow)>>
<1>1. token \in Token /\ amt \in Nat \ {0}
  BY GenesisAssumption
<1>2. c \in CashId /\ c.token = token /\ c.amt = amt
  BY <1>1 DEF Cash, CashId
<1>3. outs \in Seq(Outputs) /\ \A i \in 1..Len(outs) : outs[i].row.status # "Spent"
  <2>1. outs \in Seq(Outputs)
    BY <1>1, ActiveOutput
  <2>2. QED
    BY <2>1 DEF Output, ActiveRow
<1>4. /\ Mintable(cash, outs) /\ cash' = Mint(cash, outs)
      /\ issued' = [issued EXCEPT ![token] = @ + amt]
  BY DEF Deposit
<1> HIDE DEF c
<1>5. /\ Ids(outs) = {c}
      /\ \A tk : Sum(OfToken({c}, tk)) = IF tk = token THEN amt ELSE 0
  BY <1>2, OneId
<1> HIDE DEF outs
<1>6. FiniteTable(cash) /\ issued \in [Token -> Int]
  BY DEF LedgerSound, LedgerTypeOK, FiniteTable
<1>7. /\ FiniteTable(cash')
      /\ \A tk : Worth(cash', tk) = Worth(cash, tk) + Sum(OfToken(Ids(outs), tk))
  BY <1>3, <1>4, <1>6, MintWorth
<1>8. \A tk : Worth(cash, tk) \in Nat
  BY <1>6, TableSum DEF Worth, OfToken, Unspent
<1>9. ASSUME NEW tk \in Token
      PROVE  Worth(cash', tk) + issued[tk] = Worth(cash, tk) + issued'[tk]
  <2>1. Worth(cash, tk) \in Nat /\ issued[tk] \in Int
    BY <1>6, <1>8
  <2>2. Worth(cash', tk) = Worth(cash, tk) + (IF tk = token THEN amt ELSE 0)
    BY <1>5, <1>7
  <2>3. issued'[tk] = issued[tk] + (IF tk = token THEN amt ELSE 0)
    BY <1>1, <1>4, <1>6, <2>1
  <2>4. QED
    BY <1>1, <2>1, <2>2, <2>3
<1>10. QED
  BY <1>7, <1>9 DEF Balanced

\* A withdrawal takes out what its inputs are worth beyond the change it mints.
LEMMA WithdrawBalanced ==
  ASSUME NEW cs \in RequestInputs, NEW out, NEW to \in Trader, NEW r \in Blinding,
         FreshOutputs, LedgerSound, Withdraw(cs, out, to, r)
  PROVE  FiniteTable(cash') /\ Balanced
<1> DEFINE change == Sum(cs) - out
           token == TokenOf(cs)
           outs == WithdrawOutputs(to, token, change, r)
           spent == SpendCash(cash, cs, {})
<1>1. /\ WithdrawAccepted(cs, out, change, outs)
      /\ Mintable(spent, outs) /\ cash' = Mint(spent, outs)
      /\ issued' = [issued EXCEPT ![token] = @ - out]
  BY DEF Withdraw
<1>2. FiniteTable(cash) /\ Typed(cash) /\ issued \in [Token -> Int]
  BY DEF LedgerSound, LedgerTypeOK, FiniteTable, Typed
<1>3. token \in Token /\ \A c \in cs : c.token = token
  BY <1>1, <1>2, InputsAreOrderId DEF WithdrawAccepted, ValidInputs
<1>4. cs \subseteq Unspent(cash) /\ out \in Nat /\ change \in Nat /\ Sum(cs) = out + change
  BY <1>1 DEF WithdrawAccepted, WithdrawRelation, Spendable
<1>5. /\ FiniteTable(spent)
      /\ \A tk : Worth(spent, tk) = Worth(cash, tk) - Sum(OfToken(cs, tk))
  BY <1>2, <1>4, SpendWorth, SpendKeeps DEF FiniteTable, Spendable
<1>6. \A tk : Sum(OfToken(cs, tk)) = IF tk = token THEN Sum(cs) ELSE 0
  <2>1. TAKE tk
  <2>2. OfToken(cs, tk) = IF tk = token THEN cs ELSE {}
    BY <1>3 DEF OfToken
  <2> HIDE DEF token
  <2>3. QED
    BY <2>2, SumOfNone
<1>7. /\ outs \in Seq(Outputs) /\ \A i \in 1..Len(outs) : outs[i].row.status # "Spent"
      /\ \A tk : Sum(OfToken(Ids(outs), tk)) = IF tk = token THEN change ELSE 0
  <2>1. CASE change = 0
    <3>1. outs = << >> /\ Ids(outs) = {}
      BY <2>1 DEF WithdrawOutputs, Ids
    <3>2. \A tk : OfToken(Ids(outs), tk) = {}
      BY <3>1 DEF OfToken
    <3> HIDE DEF outs, change
    <3>3. QED
      BY <2>1, <3>1, <3>2, SumOfNone
  <2>2. CASE change # 0
    <3> DEFINE c == Cash(to, token, change, r)
    <3>1. outs = <<Output(c, ActiveRow)>>
      BY <2>2 DEF WithdrawOutputs
    <3>2. c \in CashId /\ c.token = token /\ c.amt = change
      BY <1>3, <1>4, <2>2 DEF Cash, CashId
    <3>3. /\ <<Output(c, ActiveRow)>> \in Seq(Outputs)
          /\ \A i \in 1..1 : <<Output(c, ActiveRow)>>[i].row.status # "Spent"
      <4>1. Output(c, ActiveRow) \in Outputs
        BY <1>3, <1>4, <2>2, ActiveOutput
      <4>2. QED
        BY <4>1 DEF Output, ActiveRow
    <3> HIDE DEF c, outs, change, token
    <3>4. Ids(outs) = {c} /\ \A tk : Sum(OfToken({c}, tk)) = IF tk = token THEN change ELSE 0
      BY <3>1, <3>2, OneId
    <3>5. QED
      BY <3>1, <3>3, <3>4
  <2>3. QED
    BY <2>1, <2>2
<1> HIDE DEF outs, spent, change, token
<1>8. /\ FiniteTable(cash')
      /\ \A tk : Worth(cash', tk) = Worth(spent, tk) + Sum(OfToken(Ids(outs), tk))
  BY <1>1, <1>5, <1>7, MintWorth
<1>9. \A tk : Worth(cash, tk) \in Nat
  BY <1>2, TableSum DEF Worth, OfToken, Unspent
<1>10. ASSUME NEW tk \in Token
       PROVE  Worth(cash', tk) + issued[tk] = Worth(cash, tk) + issued'[tk]
  <2>1. Worth(cash, tk) \in Nat /\ issued[tk] \in Int
    BY <1>2, <1>9
  <2>2. CASE tk = token
    <3>1. Worth(cash', tk) = Worth(cash, tk) - Sum(cs) + change
      BY <1>5, <1>6, <1>7, <1>8, <2>2
    <3>2. issued'[tk] = issued[tk] - out
      BY <1>1, <1>2, <1>3, <2>2
    <3>3. QED
      BY <1>4, <2>1, <3>1, <3>2
  <2>3. CASE tk # token
    <3>1. Worth(cash', tk) = Worth(cash, tk) - 0 + 0
      BY <1>5, <1>6, <1>7, <1>8, <2>3
    <3>2. issued'[tk] = issued[tk]
      BY <1>1, <1>2, <2>3
    <3>3. QED
      BY <2>1, <3>1, <3>2
  <2>4. QED
    BY <2>2, <2>3
<1>11. QED
  BY <1>8, <1>10 DEF Balanced

\* Every writing of the account tripod keeps the table sound and is balanced.
LEMMA LedgerStepBalanced ==
  ASSUME FreshOutputs, LedgerSound, LedgerNext
  PROVE  LedgerSound' /\ Balanced
<1>1. LedgerTypeOK' /\ Genesis \subseteq DOMAIN cash'
  BY LedgerStepTyped, LedgerKeeps DEF LedgerSound, Keeps
<1>2. SUFFICES FiniteTable(cash') /\ Balanced
  BY <1>1 DEF LedgerSound, FiniteTable
<1>3. CASE Restart
  <2>1. cash' = cash /\ issued' = issued
    BY <1>3 DEF Restart, Seeded, LedgerSound, LedgerTypeOK
  <2>2. FiniteTable(cash) /\ issued \in [Token -> Int]
    BY DEF LedgerSound, LedgerTypeOK, FiniteTable
  <2>3. QED
    BY <2>1, <2>2 DEF Balanced
<1>4. ASSUME NEW cs \in RequestInputs, NEW out, NEW to \in Trader, NEW r \in Blinding
      PROVE  ~WithdrawFails(cs, out, to, r)
  <2> DEFINE outs == WithdrawOutputs(to, TokenOf(cs), Sum(cs) - out, r)
  <2>1. SUFFICES ASSUME WithdrawFails(cs, out, to, r) PROVE FALSE
    OBVIOUS
  <2>2. WalletMayName(outs) /\ MintFails(SpendCash(cash, cs, {}), outs, cash')
    BY <2>1, Zenon DEF WithdrawFails, WithdrawAccepted
  <2>3. Len(outs) \in Nat
    BY DEF WithdrawOutputs
  <2>4. DOMAIN SpendCash(cash, cs, {}) = DOMAIN cash
    BY DEF SpendCash
  <2> HIDE DEF outs
  <2>5. QED
    BY <2>2, <2>3, <2>4, FreshNeverFails, Zenon
<1>5. QED
  BY <1>3, <1>4, DepositBalanced, WithdrawBalanced DEF LedgerNext

\* Genesis puts in circulation what it is counted to issue.
LEMMA LedgerInitSound == LedgerInit => LedgerSound /\ ValueConserved
<1> SUFFICES ASSUME LedgerInit PROVE LedgerSound /\ ValueConserved
  OBVIOUS
<1>1. Typed(cash) /\ issued \in [Token -> Int]
  BY SeededTyped, GenesisIssued DEF LedgerInit, Typed
<1>2. DOMAIN cash = Genesis /\ Unspent(cash) = Genesis
  BY DEF LedgerInit, Seeded, Unspent, ActiveRow
<1>3. QED
  BY <1>1, <1>2, GenesisAssumption
  DEF LedgerSound, LedgerTypeOK, Typed, ValueConserved, InCirculation, LedgerInit, IssuedAtGenesis

\* However many deposits, withdrawals and restarts: every row of the cash table is a cash of a
\* known owner and token with an amount above zero.
THEOREM LedgerTypeCorrect == LedgerSpec => []LedgerTypeOK
<1>1. LedgerInit => LedgerTypeOK
  BY LedgerInitSound DEF LedgerSound
<1>2. LedgerTypeOK /\ [LedgerNext]_ledger => LedgerTypeOK'
  <2>1. LedgerTypeOK /\ UNCHANGED ledger => LedgerTypeOK'
    BY DEF ledger, LedgerTypeOK
  <2>2. QED
    BY <2>1, LedgerStepTyped
<1>3. QED
  BY <1>1, <1>2, PTL DEF LedgerSpec

\* The account tripod conserves value: what is unspent of a token is, after any deposits,
\* withdrawals and restarts, exactly what genesis and the bridge put in.
THEOREM LedgerConserves ==
  ASSUME FreshOutputs
  PROVE  LedgerSpec => []ValueConserved
<1>1. LedgerInit => LedgerSound /\ ValueConserved
  BY LedgerInitSound
<1>2. ValueConserved <=> \A token \in Token : Worth(cash, token) = issued[token]
  BY DEF ValueConserved, InCirculation, Worth, OfToken
<1>3. LedgerSound /\ ValueConserved /\ [LedgerNext]_ledger => (LedgerSound /\ ValueConserved)'
  <2>1. SUFFICES ASSUME LedgerSound, ValueConserved, [LedgerNext]_ledger
                 PROVE  (LedgerSound /\ ValueConserved)'
    OBVIOUS
  <2>2. CASE UNCHANGED ledger
    BY <2>1, <2>2 DEF ledger, LedgerSound, LedgerTypeOK, ValueConserved, InCirculation
  <2>3. CASE LedgerNext
    <3>1. LedgerSound' /\ Balanced
      BY <2>1, <2>3, LedgerStepBalanced
    <3>2. ASSUME NEW token \in Token
          PROVE  Worth(cash', token) = issued'[token]
      <4>1. /\ Worth(cash', token) + issued[token] = Worth(cash, token) + issued'[token]
            /\ Worth(cash, token) = issued[token]
        BY <1>2, <2>1, <3>1 DEF Balanced
      <4>2. issued[token] \in Int /\ issued'[token] \in Int /\ Worth(cash', token) \in Nat
        <5>1. FiniteTable(cash') /\ issued \in [Token -> Int] /\ issued' \in [Token -> Int]
          BY <2>1, <3>1 DEF LedgerSound, LedgerTypeOK, FiniteTable
        <5>2. OfToken(Unspent(cash'), token) \in SUBSET (DOMAIN cash')
          BY DEF OfToken, Unspent
        <5>3. Worth(cash', token) \in Nat
          BY <5>1, <5>2, TableSum DEF Worth
        <5>4. issued[token] \in Int /\ issued'[token] \in Int
          BY <5>1
        <5>5. QED
          BY <5>3, <5>4
      <4>3. PICK w, i, j : w = Worth(cash', token) /\ i = issued[token] /\ j = issued'[token]
        OBVIOUS
      <4>4. w \in Nat /\ i \in Int /\ j \in Int /\ w + i = i + j
        BY <4>1, <4>2, <4>3
      <4>5. w = j
        BY <4>4
      <4>6. QED
        BY <4>3, <4>5
    <3>3. ValueConserved'
      BY <3>2 DEF ValueConserved, InCirculation, Worth, OfToken
    <3>4. QED
      BY <3>1, <3>3
  <2>4. QED
    BY <2>1, <2>2, <2>3
<1>4. QED
  BY <1>1, <1>3, PTL DEF LedgerSpec
=============================================================================
