--------------------------- MODULE MatchScanProofs ---------------------------
(***************************************************************************)
(* The loop of matchOrder finds a best match, for every table of resting    *)
(* orders, every order of its rows and every set of prices.                 *)
(***************************************************************************)
EXTENDS MatchScan, TLAPS

Resting == Terms(Other(order.side), "Pending")

ScanTyped ==
  /\ order \in Terms("Buy", "Pending") \cup Terms("Sell", "Pending")
  /\ rows \in Seq(Resting)
  /\ ScanTypeOK

ScanInv == ScanTyped /\ ScanBest

\* The numbers the loop compares are numbers.
LEMMA RestingNumbers ==
  ASSUME ScanTyped
  PROVE  /\ order.price \in Nat /\ order.side \in {"Buy", "Sell"}
         /\ \A x \in Resting : x.price \in Nat /\ x.height \in Nat /\ x.fee \in Nat
         /\ \A x \in Resting : /\ x.status = "Pending"
                               /\ x.side # order.side
                               /\ x.pair = order.pair
<1>1. order.price \in Nat /\ order.side \in {"Buy", "Sell"} /\ order.pair = "pair"
  BY ScanNumbers DEF ScanTyped, Terms
<1>2. \A x \in Resting : x.price \in Nat /\ x.height \in Nat /\ x.fee \in Nat
  BY ScanNumbers DEF Resting, Terms
<1>3. \A x \in Resting : x.status = "Pending" /\ x.side # order.side /\ x.pair = "pair"
  BY <1>1 DEF Resting, Terms, Other
<1>4. QED
  BY <1>1, <1>2, <1>3

\* What the loop tests is what Matching orders by.
LEMMA TakesIsBeats ==
  ASSUME ScanTyped, NEW x \in Resting, NEW y \in Resting
  PROVE  /\ Takes(x, y) <=> Beats(order, x, y)
         /\ ~Skipped(x) <=> Compatible(order, x)
  BY RestingNumbers DEF Takes, Skipped, Beats, BetterPrice, Compatible

\* Beats is a strict weak order: what does not beat the loser does not beat the winner.
LEMMA BeatsNegativelyTransitive ==
  ASSUME ScanTyped, NEW x \in Resting, NEW y \in Resting, NEW z \in Resting,
         Beats(order, x, y), ~Beats(order, z, y)
  PROVE  ~Beats(order, z, x) /\ ~Beats(order, x, x)
  BY RestingNumbers DEF Beats, BetterPrice

\* Every row of a list of resting orders is a candidate.
LEMMA AllCandidates ==
  ASSUME ScanTyped, NEW n \in 0..Len(rows)
  PROVE  LET s == [i \in 1..n |-> rows[i]] IN
         CompatibleOrders(s, order) = {i \in 1..n : Compatible(order, rows[i])}
<1>1. \A i \in 1..n : rows[i] \in Resting
  BY DEF ScanTyped
<1>2. \A i \in 1..n : /\ rows[i].status = "Pending"
                      /\ rows[i].side # order.side
                      /\ rows[i].pair = order.pair
  BY <1>1, RestingNumbers
<1>3. QED
  BY <1>2 DEF CompatibleOrders, Candidates


\* ScanBest, spelled out.
BestOf(n, b) ==
  IF b = 0 THEN \A i \in 1..n : ~Compatible(order, rows[i])
  ELSE /\ b \in 1..n /\ Compatible(order, rows[b])
       /\ \A i \in 1..n : Compatible(order, rows[i]) => ~Beats(order, rows[i], rows[b])

\* BestOf says of the first n rows what the loop invariant says with BestMatches.
LEMMA BestOfMeaning ==
  ASSUME ScanTyped, NEW n \in 0..Len(rows), NEW b \in Nat
  PROVE  LET s == [i \in 1..n |-> rows[i]] IN
         BestOf(n, b) <=>
           IF b = 0 THEN CompatibleOrders(s, order) = {} ELSE b \in BestMatches(s, order)
<1> DEFINE s == [i \in 1..n |-> rows[i]]
           C == {i \in 1..n : Compatible(order, rows[i])}
<1>1. CompatibleOrders(s, order) = C
  BY AllCandidates
<1>2. \A c \in C : s[c] = rows[c]
  OBVIOUS
<1>3. BestMatches(s, order) = {c \in C : \A d \in C : ~Beats(order, rows[d], rows[c])}
  <2> HIDE DEF C
  <2>1. \A c \in C, d \in C : Beats(order, s[d], s[c]) <=> Beats(order, rows[d], rows[c])
    BY <1>2
  <2>2. QED
    BY <1>1, <2>1 DEF BestMatches
<1>4. CASE b = 0
  BY <1>1, <1>4 DEF BestOf
<1>5. CASE b # 0
  BY <1>1, <1>3, <1>5 DEF BestOf
<1>6. QED
  BY <1>4, <1>5

\* One turn of the loop keeps a best match of the rows before it a best match of one more.
LEMMA TurnKeepsBest ==
  ASSUME ScanTyped, BestOf(next - 1, best), next <= Len(rows)
  PROVE  BestOf(next, IF ~Skipped(rows[next]) /\ (best = 0 \/ Takes(rows[next], rows[best]))
                      THEN next ELSE best)
<1> DEFINE new == ~Skipped(rows[next]) /\ (best = 0 \/ Takes(rows[next], rows[best]))
<1>1. /\ next \in Nat \ {0} /\ best \in 0..(next - 1) /\ Len(rows) \in Nat
      /\ \A i \in 1..next : rows[i] \in Resting
      /\ 1..next = 1..(next - 1) \cup {next}
  BY DEF ScanTyped, ScanTypeOK
<1>2. ~Skipped(rows[next]) <=> Compatible(order, rows[next])
  BY <1>1, TakesIsBeats
<1>3. best # 0 => (Takes(rows[next], rows[best]) <=> Beats(order, rows[next], rows[best]))
  BY <1>1, TakesIsBeats
<1>4. CASE Skipped(rows[next])
  BY <1>1, <1>2, <1>4 DEF BestOf
<1>5. CASE ~Skipped(rows[next]) /\ best = 0
  <2>1. ~Beats(order, rows[next], rows[next])
    BY <1>1, RestingNumbers DEF Beats, BetterPrice
  <2>2. QED
    BY <1>1, <1>2, <1>5, <2>1 DEF BestOf
<1>6. CASE ~Skipped(rows[next]) /\ best # 0
  <2>1. CASE Beats(order, rows[next], rows[best])
    <3>1. \A i \in 1..(next - 1) :
            Compatible(order, rows[i]) => ~Beats(order, rows[i], rows[next])
      BY <1>1, <1>6, <2>1, BeatsNegativelyTransitive DEF BestOf
    <3>2. ~Beats(order, rows[next], rows[next])
      BY <1>1, RestingNumbers DEF Beats, BetterPrice
    <3>3. QED
      BY <1>1, <1>2, <1>3, <1>6, <2>1, <3>1, <3>2 DEF BestOf
  <2>2. CASE ~Beats(order, rows[next], rows[best])
    BY <1>1, <1>2, <1>3, <1>6, <2>2 DEF BestOf
  <2>3. QED
    BY <2>1, <2>2
<1>7. QED
  BY <1>4, <1>5, <1>6

-----------------------------------------------------------------------------
\* The first turn starts with no row looked at and no best match.
THEOREM InitScan == ScanInit => ScanInv
<1> SUFFICES ASSUME ScanInit PROVE ScanInv
  OBVIOUS
<1>1. PICK side \in Side : /\ order \in Terms(side, "Pending")
                           /\ \E n \in 0..MaxRows :
                                rows \in [1..n -> Terms(Other(side), "Pending")]
  BY DEF ScanInit
<1>2. PICK n \in 0..MaxRows : rows \in [1..n -> Terms(Other(side), "Pending")]
  BY <1>1
<1>3. order.side = side /\ order \in Terms("Buy", "Pending") \cup Terms("Sell", "Pending")
  BY <1>1 DEF Terms, Side
<1>4. rows \in Seq(Resting) /\ Len(rows) = n
  BY <1>2, <1>3, ScanNumbers DEF Resting
<1>5. ScanTyped
  BY <1>3, <1>4, ScanNumbers DEF ScanTyped, ScanTypeOK, ScanInit
<1>6. BestOf(0, 0)
  BY DEF BestOf
<1>7. ScanBest
  <2>1. Seen = [i \in 1..0 |-> rows[i]] /\ best = 0
    BY DEF Seen, ScanInit
  <2>2. 0 \in 0..Len(rows)
    BY <1>4, ScanNumbers
  <2>3. CompatibleOrders([i \in 1..0 |-> rows[i]], order) = {}
    BY <1>5, <1>6, <2>2, BestOfMeaning
  <2>4. QED
    BY <2>1, <2>3 DEF ScanBest
<1>8. QED
  BY <1>5, <1>7 DEF ScanInv

\* And every turn, or a stutter, keeps the loop invariant.
THEOREM NextScan == ScanInv /\ [Look]_scan => ScanInv'
<1> SUFFICES ASSUME ScanInv, [Look]_scan PROVE ScanInv'
  OBVIOUS
<1>1. CASE Look
  <2>1. /\ next \in Nat \ {0} /\ best \in Nat /\ Len(rows) \in Nat /\ next <= Len(rows)
        /\ next - 1 \in 0..Len(rows) /\ best \in 0..(next - 1)
    BY <1>1 DEF ScanInv, ScanTyped, ScanTypeOK, Look
  <2>2. BestOf(next - 1, best)
    BY <2>1, BestOfMeaning DEF ScanInv, ScanBest, Seen
  <2>3. BestOf(next, best')
    BY <1>1, <2>1, <2>2, TurnKeepsBest DEF Look, ScanInv
  <2>4. ScanTyped'
    BY <1>1, <2>1 DEF Look, ScanInv, ScanTyped, ScanTypeOK, Resting, Other, Terms
  <2>5. best' \in Nat /\ next' - 1 = next
    BY <1>1, <2>1 DEF Look
  <2>6. ScanBest'
    <3>1. LET s == [i \in 1..next |-> rows[i]] IN
          IF best' = 0 THEN CompatibleOrders(s, order) = {} ELSE best' \in BestMatches(s, order)
      BY <2>1, <2>3, <2>5, BestOfMeaning DEF ScanInv
    <3>2. Seen' = [i \in 1..next |-> rows[i]] /\ order' = order
      BY <1>1, <2>5 DEF Look, Seen
    <3>3. QED
      BY <3>1, <3>2 DEF ScanBest
  <2>7. QED
    BY <2>4, <2>6 DEF ScanInv
<1>2. CASE UNCHANGED scan
  <2>1. Seen' = Seen /\ order' = order /\ best' = best
    BY <1>2 DEF scan, Seen
  <2>2. ScanBest'
    BY <2>1 DEF ScanInv, ScanBest
  <2>3. ScanTyped'
    BY <1>2 DEF scan, ScanInv, ScanTyped, ScanTypeOK, Resting, Other, Terms
  <2>4. QED
    BY <2>2, <2>3 DEF ScanInv
<1>3. QED
  BY <1>1, <1>2

\* When the loop ends, the invariant is about all the rows.
LEMMA EndOfScan == ScanInv => ScanFindsBest
<1> SUFFICES ASSUME ScanInv, next > Len(rows)
             PROVE  IF best = 0 THEN CompatibleOrders(rows, order) = {}
                    ELSE best \in BestMatches(rows, order)
  BY DEF ScanFindsBest
<1>1. next - 1 = Len(rows)
  BY DEF ScanInv, ScanTyped, ScanTypeOK
<1>2. rows = [i \in 1..Len(rows) |-> rows[i]]
  BY DEF ScanInv, ScanTyped
<1>3. QED
  BY <1>1, <1>2 DEF ScanInv, ScanBest, Seen

\* For any number of resting orders: throughout the loop of matchOrder, bestMatch is a best
\* match of the rows looked at.
THEOREM LoopInvariant == ScanSpec => []ScanBest
<1>1. ScanInv => ScanBest
  BY DEF ScanInv
<1>2. QED
  BY <1>1, InitScan, NextScan, PTL DEF ScanSpec

\* And once the loop ends it is a best match of all of them.
THEOREM ScanIsCorrect == ScanSpec => []ScanFindsBest
  BY InitScan, NextScan, EndOfScan, PTL DEF ScanSpec
=============================================================================
