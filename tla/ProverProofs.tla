----------------------------- MODULE ProverProofs -----------------------------
(***************************************************************************)
(* What the comparison, the provers and the chain compute, for every width  *)
(* of an amount and of a mask.                                              *)
(***************************************************************************)
EXTENDS WalletProvers, TLAPS, SequenceTheorems, NaturalsInduction, WellFoundedInduction

-----------------------------------------------------------------------------
(* Recursion on the naturals. *)

\* A nonempty set of naturals has a least one.
LEMMA LeastNatural ==
  ASSUME NEW S \in SUBSET Nat, S # {}
  PROVE  \E m \in S : \A k \in S : m <= k
<1>1. \E R : IsWellFoundedOn(R, Nat) /\ \A j, k \in Nat : <<j, k>> \in R <=> j < k
  <2> DEFINE Q == OpToRel(<, Nat)
  <2>1. IsWellFoundedOn(Q, Nat)
    BY NatLessThanWellFounded
  <2>2. \A j, k \in Nat : <<j, k>> \in Q <=> j < k
    BY DEF OpToRel
  <2> HIDE DEF Q
  <2>3. QED
    BY <2>1, <2>2, Zenon
<1>2. PICK R : IsWellFoundedOn(R, Nat) /\ \A j, k \in Nat : <<j, k>> \in R <=> j < k
  BY <1>1
<1>3. IsWellFoundedOn(R, Nat) /\ S \subseteq Nat
  BY <1>2
<1>4. PICK m \in S : \A k \in S : ~ (<<k, m>> \in R)
  BY <1>3, WFMin, Zenon
<1>5. m \in Nat /\ \A k \in S : k \in Nat /\ ~ (k < m)
  BY <1>2, <1>4
<1>6. QED
  BY <1>5

\* A set of naturals that has zero and the successor of each of its members has them all.
LEMMA AllNaturals ==
  ASSUME NEW S, 0 \in S, \A n \in Nat : n \in S => n + 1 \in S
  PROVE  Nat \subseteq S
<1> DEFINE C == Nat \ S
<1>1. SUFFICES ASSUME C # {} PROVE FALSE
  OBVIOUS
<1>2. PICK m \in C : \A k \in C : m <= k
  BY <1>1, LeastNatural
<1>3. m # 0 /\ m - 1 \in Nat
  BY <1>2
<1>4. m - 1 \in S
  BY <1>2, <1>3
<1>5. QED
  BY <1>2, <1>3, <1>4

\* f follows the recursion up to n: it starts at base, and next gives its value at i from the
\* one before.
Follows(f, base, next, T, n) ==
  /\ f \in [0 .. n -> T] /\ f[0] = base
  /\ \A i \in 1 .. n : f[i] = next[<<i, f[i - 1]>>]

\* A recursion defines a function up to each number.
LEMMA RecursionUpTo ==
  ASSUME NEW T, NEW base \in T, NEW next \in [Nat \X T -> T], NEW n \in Nat
  PROVE  \E f : Follows(f, base, next, T, n)
<1> DEFINE S == {m \in Nat : \E f \in [0 .. m -> T] :
                   f[0] = base /\ \A i \in 1 .. m : f[i] = next[<<i, f[i - 1]>>]}
<1>1. 0 \in S
  <2> DEFINE f == [i \in 0 .. 0 |-> base]
  <2>1. f \in [0 .. 0 -> T] /\ f[0] = base /\ \A i \in 1 .. 0 : f[i] = next[<<i, f[i - 1]>>]
    OBVIOUS
  <2> HIDE DEF f
  <2>2. QED
    BY <2>1
<1>2. ASSUME NEW m \in Nat, m \in S
      PROVE  m + 1 \in S
  <2>1. PICK f \in [0 .. m -> T] :
          f[0] = base /\ \A i \in 1 .. m : f[i] = next[<<i, f[i - 1]>>]
    BY <1>2
  <2> DEFINE v == next[<<m + 1, f[m]>>]
             g == [i \in 0 .. m + 1 |-> IF i = m + 1 THEN v ELSE f[i]]
  <2>2. f[m] \in T /\ <<m + 1, f[m]>> \in Nat \X T
    BY <1>2
  <2>3. v \in T
    BY <2>2
  <2>4. /\ g \in [0 .. m + 1 -> T] /\ g[m + 1] = v
        /\ \A i \in 0 .. m : g[i] = f[i]
    <3> HIDE DEF v
    <3>1. QED
      BY <1>2, <2>3
  <2> HIDE DEF g
  <2>5. g[0] = base
    BY <2>1, <2>4
  <2>6. \A i \in 1 .. m + 1 : g[i] = next[<<i, g[i - 1]>>]
    <3> SUFFICES ASSUME NEW i \in 1 .. m + 1 PROVE g[i] = next[<<i, g[i - 1]>>]
      OBVIOUS
    <3>1. i - 1 \in 0 .. m /\ g[i - 1] = f[i - 1]
      BY <2>4
    <3>2. CASE i = m + 1
      BY <2>4, <3>1, <3>2
    <3>3. CASE i # m + 1
      BY <2>1, <2>4, <3>1, <3>3
    <3>4. QED
      BY <3>2, <3>3
  <2>7. QED
    BY <2>4, <2>5, <2>6
<1> HIDE DEF S
<1>3. n \in S
  BY <1>1, <1>2, AllNaturals
<1>4. QED
  BY <1>3 DEF S, Follows

\* g follows it on all of them.
Recurs(g, base, next, T) ==
  /\ g \in [Nat -> T] /\ g[0] = base
  /\ \A n \in Nat : g[n + 1] = next[<<n + 1, g[n]>>]

\* It defines a function on all of them.
LEMMA NaturalRecursion ==
  ASSUME NEW T, NEW base \in T, NEW next \in [Nat \X T -> T]
  PROVE  \E g : Recurs(g, base, next, T)
<1> DEFINE up == [n \in Nat |-> CHOOSE f : Follows(f, base, next, T, n)]
           g == [n \in Nat |-> up[n][n]]
<1>1. ASSUME NEW n \in Nat PROVE Follows(up[n], base, next, T, n)
  <2>1. \E f : Follows(f, base, next, T, n)
    BY RecursionUpTo
  <2>2. QED
    BY <2>1, Zenon
<1> HIDE DEF up
<1>2. ASSUME NEW n \in Nat
      PROVE  /\ up[n] \in [0 .. n -> T] /\ up[n][0] = base
             /\ \A i \in 1 .. n : up[n][i] = next[<<i, up[n][i - 1]>>]
  BY <1>1 DEF Follows
<1>3. ASSUME NEW n \in Nat
      PROVE  \A i \in Nat : i <= n => up[n + 1][i] = up[n][i]
  <2> DEFINE S == {i \in Nat : i <= n => up[n + 1][i] = up[n][i]}
  <2>1. 0 \in S
    BY <1>2
  <2>2. ASSUME NEW i \in Nat, i \in S
        PROVE  i + 1 \in S
    <3> SUFFICES ASSUME i + 1 <= n PROVE up[n + 1][i + 1] = up[n][i + 1]
      OBVIOUS
    <3>1. /\ up[n + 1][i] = up[n][i] /\ i + 1 \in 1 .. n /\ i + 1 \in 1 .. n + 1
          /\ (i + 1) - 1 = i
      BY <2>2
    <3>2. up[n][i + 1] = next[<<i + 1, up[n][i]>>]
      BY <1>2, <3>1
    <3>3. up[n + 1][i + 1] = next[<<i + 1, up[n + 1][i]>>]
      BY <1>2, <3>1
    <3>4. QED
      BY <3>1, <3>2, <3>3
  <2> HIDE DEF S
  <2>3. Nat \subseteq S
    BY <2>1, <2>2, AllNaturals
  <2>4. QED
    BY <2>3 DEF S
<1>4. g \in [Nat -> T] /\ g[0] = base
  BY <1>2
<1>5. ASSUME NEW n \in Nat
      PROVE  g[n + 1] = next[<<n + 1, g[n]>>]
  <2>1. n + 1 \in Nat /\ n + 1 \in 1 .. n + 1 /\ (n + 1) - 1 = n /\ n <= n
    OBVIOUS
  <2>2. up[n + 1][n + 1] = next[<<n + 1, up[n + 1][n]>>]
    BY <1>2, <2>1
  <2>3. up[n + 1][n] = up[n][n]
    BY <1>3, <2>1
  <2>4. QED
    BY <2>1, <2>2, <2>3
<1> HIDE DEF g
<1>6. Recurs(g, base, next, T)
  BY <1>4, <1>5 DEF Recurs
<1>7. QED
  BY <1>6

\* The powers of two.
LEMMA Powers ==
  /\ Pow2 \in [Nat -> Nat \ {0}] /\ Pow2[0] = 1
  /\ \A n \in Nat : Pow2[n + 1] = 2 * Pow2[n]
<1> DEFINE T == Nat \ {0}
           next == [p \in Nat \X T |-> 2 * p[2]]
<1>1. 1 \in T /\ next \in [Nat \X T -> T] /\ \A n \in Nat, x \in T : next[<<n, x>>] = 2 * x
  OBVIOUS
<1>2. PICK g : Recurs(g, 1, next, T)
  <2> HIDE DEF T, next
  <2>1. QED
    BY <1>1, NaturalRecursion
<1> HIDE DEF next
<1>3. /\ g \in [Nat -> T] /\ g[0] = 1
      /\ \A n \in Nat : g[n + 1] = 2 * g[n]
  <2>1. g \in [Nat -> T] /\ g[0] = 1 /\ \A n \in Nat : g[n + 1] = next[<<n + 1, g[n]>>]
    BY <1>2 DEF Recurs
  <2>2. ASSUME NEW n \in Nat PROVE g[n + 1] = 2 * g[n]
    <3>1. n + 1 \in Nat /\ g[n] \in T
      BY <2>1
    <3>2. QED
      BY <1>1, <2>1, <3>1
  <2>3. QED
    BY <2>1, <2>2
<1>4. g = [n \in Nat |-> IF n = 0 THEN 1 ELSE 2 * g[n - 1]]
  <2>1. ASSUME NEW n \in Nat PROVE g[n] = IF n = 0 THEN 1 ELSE 2 * g[n - 1]
    <3>1. CASE n = 0
      BY <1>3, <3>1
    <3>2. CASE n # 0
      <4>1. n - 1 \in Nat /\ (n - 1) + 1 = n
        BY <3>2
      <4>2. g[(n - 1) + 1] = 2 * g[n - 1]
        BY <1>3, <4>1
      <4>3. QED
        BY <3>2, <4>1, <4>2
    <3>3. QED
      BY <3>1, <3>2
  <2>2. g = [n \in Nat |-> g[n]]
    BY <1>3
  <2>3. QED
    BY <2>1, <2>2
<1> DEFINE h == Pow2
<1>5. h = [n \in Nat |-> IF n = 0 THEN 1 ELSE 2 * h[n - 1]]
  BY <1>4 DEF Pow2
<1> HIDE DEF h
<1>6. /\ h = [n \in Nat |-> h[n]] /\ h[0] = 1
      /\ \A n \in Nat : h[n + 1] = 2 * h[n]
  <2>1. \A n \in Nat : h[n] = IF n = 0 THEN 1 ELSE 2 * h[n - 1]
    BY <1>5, Zenon
  <2>2. h = [n \in Nat |-> h[n]]
    BY <1>5, Zenon
  <2>3. h[0] = 1
    BY <2>1
  <2>4. ASSUME NEW n \in Nat PROVE h[n + 1] = 2 * h[n]
    <3>1. n + 1 \in Nat /\ n + 1 # 0 /\ (n + 1) - 1 = n
      OBVIOUS
    <3>2. h[n + 1] = 2 * h[(n + 1) - 1]
      BY <2>1, <3>1
    <3>3. QED
      BY <3>1, <3>2
  <2>5. QED
    BY <2>2, <2>3, <2>4
<1> DEFINE S == {n \in Nat : h[n] \in T}
<1>7. 0 \in S /\ \A n \in Nat : n \in S => n + 1 \in S
  <2>1. ASSUME NEW n \in Nat, h[n] \in T PROVE h[n + 1] \in T
    <3>1. h[n + 1] = 2 * h[n]
      BY <1>6
    <3>2. QED
      BY <2>1, <3>1
  <2>2. QED
    BY <1>6, <2>1
<1> HIDE DEF S
<1>8. Nat \subseteq S
  BY <1>7, AllNaturals
<1>9. h \in [Nat -> T]
  BY <1>6, <1>8 DEF S
<1>10. QED
  BY <1>6, <1>9 DEF h

-----------------------------------------------------------------------------
(* Bits. *)

\* A division by P.
LEMMA Division ==
  ASSUME NEW x \in Nat, NEW P \in Nat \ {0}
  PROVE  /\ x \div P \in Nat /\ x % P \in Nat /\ (x % P) < P
         /\ x = P * (x \div P) + (x % P)
  OBVIOUS

\* One bit more of a number.
LEMMA LowBits ==
  ASSUME NEW x \in Nat, NEW i \in Nat
  PROVE  /\ ExtractBit(x, i) \in {0, 1}
         /\ x % Pow2[i] \in Nat /\ (x % Pow2[i]) < Pow2[i]
         /\ x % Pow2[i + 1] = (x % Pow2[i]) + Pow2[i] * ExtractBit(x, i)
<1> DEFINE P == Pow2[i]
           q == x \div P
           m == x % P
           b == ExtractBit(x, i)
<1>1. P \in Nat \ {0} /\ Pow2[i + 1] = 2 * P
  BY Powers
<1>2. b = q % 2
  BY DEF ExtractBit
<1> HIDE DEF P, b
<1>3. q \in Nat /\ m \in Nat /\ m < P /\ x = P * q + m
  BY <1>1, Division
<1> HIDE DEF q, m
<1>4. b \in {0, 1} /\ q \div 2 \in Nat /\ q = 2 * (q \div 2) + b
  BY <1>2, <1>3
<1>5. PICK h \in Nat : q = 2 * h + b
  BY <1>4
<1>6. P * b \in {0, P}
  BY <1>1, <1>4
<1>7. P * q = (2 * P) * h + P * b
  BY <1>1, <1>4, <1>5
<1>8. /\ P * b + m \in Nat /\ P * b + m < 2 * P
      /\ x = (2 * P) * h + (P * b + m)
  BY <1>1, <1>3, <1>6, <1>7
<1>9. x % (2 * P) = P * b + m
  <2> DEFINE D == 2 * P
             e == P * b + m
  <2>1. D \in Nat \ {0} /\ e \in Nat /\ e < D /\ x = D * h + e
    BY <1>1, <1>8
  <2> HIDE DEF D, e
  <2>2. x % D = e
    BY <2>1
  <2>3. QED
    BY <2>2 DEF D, e
<1>10. m + P * b = P * b + m
  BY <1>1, <1>3, <1>6
<1>11. x % P = m
  BY DEF m
<1>12. QED
  BY <1>1, <1>3, <1>4, <1>9, <1>10, <1>11 DEF P, b

\* The borrow into bit i + 1, from the bits i and the borrow into bit i.
BorrowOver(ci, ri, borrow) == IF ci = 1 THEN ri * borrow ELSE ri + borrow - ri * borrow

\* BorrowInto is the last of a function that borrows over one bit after another.
LEMMA Borrowing ==
  ASSUME NEW c \in Nat, NEW r \in Nat, NEW n \in Nat
  PROVE  \E f \in [0 .. n -> {0, 1}] :
           /\ BorrowInto(c, r, n) = f[n] /\ f[0] = 0
           /\ \A i \in 1 .. n :
                f[i] = BorrowOver(ExtractBit(c, i - 1), ExtractBit(r, i - 1), f[i - 1])
<1> DEFINE T == {0, 1}
           C(i) == ExtractBit(c, i - 1)
           R(i) == ExtractBit(r, i - 1)
           next == [p \in Nat \X T |-> IF p[1] = 0 THEN 0 ELSE BorrowOver(C(p[1]), R(p[1]), p[2])]
<1>1. ASSUME NEW ci \in T, NEW ri \in T, NEW x \in T
      PROVE  BorrowOver(ci, ri, x) \in T
  BY DEF BorrowOver
<1>2. ASSUME NEW i \in Nat, i # 0
      PROVE  C(i) \in T /\ R(i) \in T
  <2>1. i - 1 \in Nat
    BY <1>2
  <2>2. QED
    BY <2>1, LowBits
<1> HIDE DEF C, R
<1>3. next \in [Nat \X T -> T]
  <2>1. ASSUME NEW p \in Nat \X T
        PROVE  (IF p[1] = 0 THEN 0 ELSE BorrowOver(C(p[1]), R(p[1]), p[2])) \in T
    BY <1>1, <1>2
  <2>2. QED
    BY <2>1
<1>4. \A i \in Nat, x \in T : i # 0 => next[<<i, x>>] = BorrowOver(C(i), R(i), x)
  OBVIOUS
<1>5. PICK f : Follows(f, 0, next, T, n)
  <2> HIDE DEF next
  <2>0. 0 \in T
    OBVIOUS
  <2> HIDE DEF T
  <2>1. QED
    BY <1>3, <2>0, RecursionUpTo
<1> HIDE DEF next
<1>6. f \in [0 .. n -> T] /\ f[0] = 0 /\ \A i \in 1 .. n : f[i] = next[<<i, f[i - 1]>>]
  BY <1>5 DEF Follows
<1>7. ASSUME NEW i \in 1 .. n
      PROVE  f[i] = BorrowOver(C(i), R(i), f[i - 1])
  <2>1. i \in Nat /\ i # 0 /\ i - 1 \in 0 .. n
    OBVIOUS
  <2>2. f[i - 1] \in T
    BY <1>6, <2>1
  <2>3. QED
    BY <1>4, <1>6, <2>1, <2>2
<1>8. f = [i \in 0 .. n |-> IF i = 0 THEN 0 ELSE BorrowOver(C(i), R(i), f[i - 1])]
  <2>1. f = [i \in 0 .. n |-> f[i]]
    BY <1>6
  <2>2. \A i \in 0 .. n : f[i] = IF i = 0 THEN 0 ELSE BorrowOver(C(i), R(i), f[i - 1])
    BY <1>6, <1>7
  <2>3. QED
    BY <2>1, <2>2
<1> DEFINE b == CHOOSE b : b = [i \in 0 .. n |-> IF i = 0 THEN 0 ELSE
                                BorrowOver(C(i), R(i), b[i - 1])]
<1>9. b = [i \in 0 .. n |-> IF i = 0 THEN 0 ELSE BorrowOver(C(i), R(i), b[i - 1])]
  BY <1>8, Zenon
<1>10. BorrowInto(c, r, n) = b[n]
  BY DEF BorrowInto, BorrowOver, C, R, b
<1> HIDE DEF b
<1>11. b[0] = 0 /\ \A i \in 1 .. n : b[i] = BorrowOver(C(i), R(i), b[i - 1])
  BY <1>9
<1> DEFINE S == {i \in Nat : i <= n => b[i] \in T}
<1>12. 0 \in S /\ \A i \in Nat : i \in S => i + 1 \in S
  <2>1. ASSUME NEW i \in Nat, i + 1 <= n, b[i] \in T
        PROVE  b[i + 1] \in T
    <3>1. i + 1 \in 1 .. n /\ (i + 1) - 1 = i /\ i + 1 \in Nat /\ i + 1 # 0
      BY <2>1
    <3>2. b[i + 1] = BorrowOver(C(i + 1), R(i + 1), b[i])
      BY <1>11, <3>1
    <3>3. C(i + 1) \in T /\ R(i + 1) \in T
      BY <1>2, <3>1
    <3>4. QED
      BY <1>1, <2>1, <3>2, <3>3
  <2>2. QED
    BY <1>11, <2>1
<1> HIDE DEF S
<1>13. Nat \subseteq S
  BY <1>12, AllNaturals
<1>14. b \in [0 .. n -> T]
  <2>1. \A i \in 0 .. n : b[i] \in T
    BY <1>13 DEF S
  <2>2. b = [i \in 0 .. n |-> b[i]]
    BY <1>9, Zenon
  <2>3. QED
    BY <2>1, <2>2
<1>15. QED
  BY <1>10, <1>11, <1>14 DEF C, R

\* One bit of a subtraction: with low parts cl and rl below P and bits ci and ri above them.
LEMMA OneBit ==
  ASSUME NEW P \in Nat \ {0}, NEW cl \in Nat, NEW rl \in Nat, cl < P, rl < P,
         NEW ci \in {0, 1}, NEW ri \in {0, 1}
  PROVE  BorrowOver(ci, ri, IF cl < rl THEN 1 ELSE 0)
           = IF cl + P * ci < rl + P * ri THEN 1 ELSE 0
<1>1. CASE ci = 0 /\ ri = 0
  BY <1>1 DEF BorrowOver
<1>2. CASE ci = 0 /\ ri = 1
  BY <1>2 DEF BorrowOver
<1>3. CASE ci = 1 /\ ri = 0
  BY <1>3 DEF BorrowOver
<1>4. CASE ci = 1 /\ ri = 1
  BY <1>4 DEF BorrowOver
<1>5. QED
  BY <1>1, <1>2, <1>3, <1>4

\* The borrow is that of the subtraction of the bits below.
LEMMA BorrowIsOfLowBits ==
  ASSUME NEW c \in Nat, NEW r \in Nat, NEW n \in Nat
  PROVE  BorrowInto(c, r, n) = IF (c % Pow2[n]) < (r % Pow2[n]) THEN 1 ELSE 0
<1> DEFINE Low(x, i) == x % Pow2[i]
           B(i) == IF Low(c, i) < Low(r, i) THEN 1 ELSE 0
<1>1. PICK f \in [0 .. n -> {0, 1}] :
        /\ BorrowInto(c, r, n) = f[n] /\ f[0] = 0
        /\ \A i \in 1 .. n :
             f[i] = BorrowOver(ExtractBit(c, i - 1), ExtractBit(r, i - 1), f[i - 1])
  BY Borrowing
<1> DEFINE S == {i \in Nat : i <= n => f[i] = B(i)}
<1>2. 0 \in S
  <2>1. Pow2[0] = 1
    BY Powers
  <2>2. Low(c, 0) = 0 /\ Low(r, 0) = 0
    BY <2>1
  <2>3. QED
    BY <1>1, <2>2
<1>3. ASSUME NEW i \in Nat, i \in S PROVE i + 1 \in S
  <2> SUFFICES ASSUME i + 1 <= n PROVE f[i + 1] = B(i + 1)
    OBVIOUS
  <2>1. f[i] = B(i) /\ i + 1 \in 1 .. n /\ (i + 1) - 1 = i
    BY <1>3
  <2> DEFINE ci == ExtractBit(c, i)
             ri == ExtractBit(r, i)
             cl == Low(c, i)
             rl == Low(r, i)
             P == Pow2[i]
  <2>2. f[i + 1] = BorrowOver(ci, ri, f[i])
    BY <1>1, <2>1
  <2>3. /\ ci \in {0, 1} /\ cl \in Nat /\ cl < P /\ Low(c, i + 1) = cl + P * ci
        /\ ri \in {0, 1} /\ rl \in Nat /\ rl < P /\ Low(r, i + 1) = rl + P * ri
    BY LowBits
  <2>4. P \in Nat \ {0}
    BY Powers
  <2>5. f[i] = IF cl < rl THEN 1 ELSE 0
    BY <2>1
  <2>6. B(i + 1) = IF cl + P * ci < rl + P * ri THEN 1 ELSE 0
    BY <2>3
  <2> HIDE DEF ci, ri, cl, rl, P
  <2>7. BorrowOver(ci, ri, IF cl < rl THEN 1 ELSE 0)
          = IF cl + P * ci < rl + P * ri THEN 1 ELSE 0
    BY <2>3, <2>4, OneBit
  <2>8. QED
    BY <2>2, <2>5, <2>6, <2>7
<1> HIDE DEF S
<1>4. Nat \subseteq S
  BY <1>2, <1>3, AllNaturals
<1>5. f[n] = B(n)
  BY <1>4 DEF S
<1>6. QED
  BY <1>1, <1>5

-----------------------------------------------------------------------------
(* The comparison. *)

\* The width of an amount.
LEMMA WidthIsInt ==
  Pow2[AmountBits] \in Nat \ {0} /\ MaxAmount = Pow2[AmountBits] - 1 /\ MaxAmount \in Nat
<1>1. Pow2[AmountBits] \in Nat \ {0}
  BY Powers, WidthAssumption
<1>2. QED
  BY <1>1 DEF MaxAmount

\* The top bit of a difference, from the top bits of its operands and the borrow into them.
TopFrom(ci, ri, borrow) ==
  LET x == XorBits(ri, borrow) IN IF ci = 1 THEN 1 - x ELSE x

\* t is the difference, modulo 2 * P, of operands with low parts cl and rl and top bits ci and ri.
IsDifference(t, P, cl, rl, ci, ri) ==
  /\ P \in Nat \ {0} /\ t \in 1 .. 2 * P - 1
  /\ cl \in Nat /\ rl \in Nat /\ cl < P /\ rl < P
  /\ ci \in {0, 1} /\ ri \in {0, 1}
  /\ \E k \in Int : t = (cl + P * ci) - (rl + P * ri) + (2 * P) * k

\* Its top bit is the one found with the borrow of the low parts.
LEMMA TopOfDifference ==
  ASSUME NEW t, NEW P, NEW cl, NEW rl, NEW ci, NEW ri, IsDifference(t, P, cl, rl, ci, ri)
  PROVE  TopFrom(ci, ri, IF cl < rl THEN 1 ELSE 0) = IF t >= P THEN 1 ELSE 0
<1> DEFINE borrow == IF cl < rl THEN 1 ELSE 0
<1> USE DEF IsDifference
<1>0. PICK k \in Int : t = (cl + P * ci) - (rl + P * ri) + (2 * P) * k
  OBVIOUS
<1>1. (2 * P) * k = P * (2 * k)
  OBVIOUS
<1>2. k > 1 => P * (2 * k) >= P * 4
  OBVIOUS
<1>3. k < -1 => P * (2 * k) <= P * (-4)
  OBVIOUS
<1>4. k \in {-1, 0, 1}
  <2>1. P * ci \in {0, P} /\ P * ri \in {0, P}
    OBVIOUS
  <2>2. QED
    BY <1>0, <1>1, <1>2, <1>3, <2>1
<1>5. (2 * P) * k \in {-2 * P, 0, 2 * P} /\ (k = -1 <=> (2 * P) * k = -2 * P)
      /\ (k = 0 <=> (2 * P) * k = 0) /\ (k = 1 <=> (2 * P) * k = 2 * P)
  BY <1>4
<1>6. CASE ci = 0 /\ ri = 0
  BY <1>0, <1>5, <1>6 DEF TopFrom, XorBits
<1>7. CASE ci = 0 /\ ri = 1
  BY <1>0, <1>5, <1>7 DEF TopFrom, XorBits
<1>8. CASE ci = 1 /\ ri = 0
  BY <1>0, <1>5, <1>8 DEF TopFrom, XorBits
<1>9. CASE ci = 1 /\ ri = 1
  BY <1>0, <1>5, <1>9 DEF TopFrom, XorBits
<1>10. QED
  BY <1>6, <1>7, <1>8, <1>9

\* Whatever mask it draws, the comparison tells which amount is the larger: the bit rebuilt from
\* the opened difference and the bits of the mask is the comparison itself
\* (mpc_compare.rs compare_geq).
THEOREM CompareIsExact ==
  ASSUME NEW v1 \in 0 .. MaxAmount, NEW v2 \in 0 .. MaxAmount, NEW r \in Masks
  PROVE  CompareGeq(v1, v2, r) = IF v1 >= v2 THEN 1 ELSE 0
<1> DEFINE P == Pow2[AmountBits]
           c == Opened(v1, v2, r)
           t == v1 - v2 + P
           cl == c % P
           rl == r % P
           ci == ExtractBit(c, AmountBits)
           ri == ExtractBit(r, AmountBits)
           borrow == BorrowInto(c, r, AmountBits)
<1>1. AmountBits \in Nat /\ AmountBits + 1 \in Nat
  BY WidthAssumption
<1>2. P \in Nat \ {0} /\ MaxAmount = P - 1 /\ Pow2[AmountBits + 1] = 2 * P
  BY <1>1, WidthIsInt, Powers
<1>3. r \in Nat
  <2>1. CmpBits + Kappa \in Nat
    BY WidthAssumption DEF CmpBits
  <2>2. Pow2[CmpBits + Kappa] \in Nat
    BY <2>1, Powers
  <2>3. QED
    BY <2>2 DEF Masks
<1>4. v1 \in Nat /\ v2 \in Nat /\ v1 < P /\ v2 < P
  BY <1>2
<1>5. c = t + r
  BY <1>2, <1>3, <1>4 DEF Opened
<1>6. t \in 1 .. 2 * P - 1 /\ (t >= P <=> v1 >= v2)
  BY <1>2, <1>4
<1>7. c \in Nat
  BY <1>3, <1>5, <1>6
<1>8. borrow = IF cl < rl THEN 1 ELSE 0
  BY <1>1, <1>3, <1>7, BorrowIsOfLowBits
<1>9. /\ ci \in {0, 1} /\ cl \in Nat /\ cl < P /\ c % (2 * P) = cl + P * ci
      /\ ri \in {0, 1} /\ rl \in Nat /\ rl < P /\ r % (2 * P) = rl + P * ri
  BY <1>1, <1>2, <1>3, <1>7, LowBits
<1>10. CompareGeq(v1, v2, r) = TopFrom(ci, ri, borrow)
  <2>1. CmpBits - 1 = AmountBits
    BY <1>1 DEF CmpBits
  <2>2. QED
    BY <2>1 DEF CompareGeq, TopBit, TopFrom
<1> HIDE DEF P, c, t, cl, rl, ci, ri, borrow
<1>11. \E k \in Int : t = (cl + P * ci) - (rl + P * ri) + (2 * P) * k
  <2> DEFINE D == 2 * P
             hc == c \div D
             hr == r \div D
  <2>1. D \in Nat \ {0}
    BY <1>2
  <2> HIDE DEF D
  <2>2. /\ hc \in Nat /\ c % D \in Nat /\ c = D * hc + (c % D)
        /\ hr \in Nat /\ r % D \in Nat /\ r = D * hr + (r % D)
    BY <1>3, <1>7, <2>1, Division
  <2> HIDE DEF hc, hr
  <2>3. D * (hc - hr) = D * hc - D * hr /\ hc - hr \in Int
    BY <2>1, <2>2
  <2>4. t = c - r
    BY <1>3, <1>5, <1>6
  <2>5. t = (c % D) - (r % D) + D * (hc - hr)
    BY <2>1, <2>2, <2>3, <2>4
  <2>6. c % D = cl + P * ci /\ r % D = rl + P * ri
    BY <1>9 DEF D
  <2>7. t = (cl + P * ci) - (rl + P * ri) + (2 * P) * (hc - hr)
    BY <2>5, <2>6 DEF D
  <2>8. QED
    BY <2>3, <2>7
<1>12. TopFrom(ci, ri, borrow) = IF t >= P THEN 1 ELSE 0
  <2>1. IsDifference(t, P, cl, rl, ci, ri)
    BY <1>2, <1>6, <1>9, <1>11 DEF IsDifference
  <2>2. QED
    BY <1>8, <2>1, TopOfDifference
<1>13. QED
  BY <1>6, <1>10, <1>12

\* There is a mask.
LEMMA SomeMask == 0 \in Masks
<1>1. CmpBits + Kappa \in Nat
  BY WidthAssumption DEF CmpBits
<1>2. Pow2[CmpBits + Kappa] \in Nat \ {0}
  BY <1>1, Powers
<1>3. QED
  BY <1>2 DEF Masks

\* The traders open the sign of the difference, and nothing else.
LEMMA ThreeWayIsSign ==
  ASSUME NEW a \in 0 .. MaxAmount, NEW b \in 0 .. MaxAmount
  PROVE  CompareThreeWay(a, b) = {{Sign(a, b)}}
<1> DEFINE AB == CompareBits[a, b]
           BA == CompareBits[b, a]
           geq(x, y) == IF x >= y THEN 1 ELSE 0
<1>1. ASSUME NEW x \in 0 .. MaxAmount, NEW y \in 0 .. MaxAmount
      PROVE  CompareBits[x, y] = {geq(x, y)}
  <2>1. <<x, y>> \in (0 .. MaxAmount) \X (0 .. MaxAmount)
    OBVIOUS
  <2>2. CompareBits[x, y] = {CompareGeq(x, y, r) : r \in Masks}
    BY <2>1 DEF CompareBits
  <2>3. \A r \in Masks : CompareGeq(x, y, r) = geq(x, y)
    BY CompareIsExact
  <2> HIDE DEF geq
  <2>4. QED
    BY <2>2, <2>3, SomeMask
<1>2. AB = {geq(a, b)} /\ BA = {geq(b, a)}
  BY <1>1
<1>3. CompareThreeWay(a, b) = {ThreeWay(ab, ba) : ab \in AB, ba \in BA}
  BY DEF CompareThreeWay
<1> HIDE DEF AB, BA
<1>4. CompareThreeWay(a, b) = {ThreeWay(geq(a, b), geq(b, a))}
  <2> HIDE DEF geq
  <2>1. QED
    BY <1>2, <1>3
<1>5. a \in Int /\ b \in Int
  BY WidthIsInt
<1>6. ThreeWay(geq(a, b), geq(b, a)) = {Sign(a, b)}
  BY <1>5 DEF ThreeWay, Sign
<1>7. QED
  BY <1>4, <1>6

-----------------------------------------------------------------------------
(* The relation of the circuit. *)

\* An amount has no bits beyond its width.
LEMMA AmountIsLow ==
  ASSUME NEW x \in 0 .. MaxAmount
  PROVE  x \in Nat /\ x % Pow2[AmountBits] = x
<1> DEFINE P == Pow2[AmountBits]
<1>1. P \in Nat \ {0} /\ MaxAmount = P - 1
  BY WidthIsInt
<1> HIDE DEF P
<1>2. x \in Nat /\ x < P
  BY <1>1
<1>3. x % P = x
  BY <1>1, <1>2
<1>4. QED
  BY <1>2, <1>3 DEF P

\* The bits from the top down order two amounts, and tell them apart.
LEMMA BitsCompare ==
  ASSUME NEW x \in 0 .. MaxAmount, NEW y \in 0 .. MaxAmount
  PROVE  (LessFromBits(x, y) <=> x < y) /\ (EqualFromBits(x, y) <=> x = y)
<1> DEFINE xb(i) == ExtractBit(x, i)
           yb(i) == ExtractBit(y, i)
           xl(i) == x % Pow2[i]
           yl(i) == y % Pow2[i]
           Lt(n) == \E i \in 0 .. n - 1 : xb(i) < yb(i) /\ \A j \in i + 1 .. n - 1 : xb(j) = yb(j)
           Eq(n) == \A i \in 0 .. n - 1 : xb(i) = yb(i)
           S == {n \in Nat : (Lt(n) <=> xl(n) < yl(n)) /\ (Eq(n) <=> xl(n) = yl(n))}
<1>1. x \in Nat /\ y \in Nat /\ xl(AmountBits) = x /\ yl(AmountBits) = y
  BY AmountIsLow
<1>2. ASSUME NEW n \in Nat
      PROVE  LET P == Pow2[n] IN
             /\ P \in Nat \ {0}
             /\ xb(n) \in {0, 1} /\ xl(n) \in Nat /\ xl(n) < P /\ xl(n + 1) = xl(n) + P * xb(n)
             /\ yb(n) \in {0, 1} /\ yl(n) \in Nat /\ yl(n) < P /\ yl(n + 1) = yl(n) + P * yb(n)
  BY <1>1, LowBits, Powers
<1>3. xl(0) = 0 /\ yl(0) = 0
  <2>1. Pow2[0] = 1
    BY Powers
  <2>2. QED
    BY <1>1, <2>1
<1> HIDE DEF xb, yb, xl, yl
<1>4. 0 \in S
  BY <1>3
<1>5. ASSUME NEW n \in Nat, n \in S PROVE n + 1 \in S
  <2>1. Lt(n + 1) <=> xb(n) < yb(n) \/ (xb(n) = yb(n) /\ Lt(n))
    <3>1. (n + 1) - 1 = n
      OBVIOUS
    <3>2. ASSUME xb(n) < yb(n) PROVE Lt(n + 1)
      <4>1. n \in 0 .. n /\ \A j \in n + 1 .. n : xb(j) = yb(j)
        OBVIOUS
      <4>2. QED
        BY <3>1, <3>2, <4>1
    <3>3. ASSUME xb(n) = yb(n), Lt(n) PROVE Lt(n + 1)
      <4>1. PICK i \in 0 .. n - 1 : xb(i) < yb(i) /\ \A j \in i + 1 .. n - 1 : xb(j) = yb(j)
        BY <3>3
      <4>2. i \in 0 .. n /\ \A j \in i + 1 .. n : j = n \/ j \in i + 1 .. n - 1
        OBVIOUS
      <4>3. \A j \in i + 1 .. n : xb(j) = yb(j)
        BY <3>3, <4>1, <4>2
      <4>4. QED
        BY <3>1, <4>1, <4>2, <4>3
    <3>4. ASSUME Lt(n + 1), ~ (xb(n) < yb(n)) PROVE xb(n) = yb(n) /\ Lt(n)
      <4>1. PICK i \in 0 .. n : xb(i) < yb(i) /\ \A j \in i + 1 .. n : xb(j) = yb(j)
        BY <3>1, <3>4
      <4>2. i # n
        BY <3>4, <4>1
      <4>3. i \in 0 .. n - 1 /\ n \in i + 1 .. n /\ \A j \in i + 1 .. n - 1 : j \in i + 1 .. n
        BY <4>2
      <4>4. xb(n) = yb(n) /\ \A j \in i + 1 .. n - 1 : xb(j) = yb(j)
        BY <4>1, <4>3
      <4>5. QED
        BY <4>1, <4>3, <4>4
    <3>5. QED
      BY <3>2, <3>3, <3>4
  <2>2. Eq(n + 1) <=> xb(n) = yb(n) /\ Eq(n)
    <3>1. \A i : i \in 0 .. (n + 1) - 1 <=> i = n \/ i \in 0 .. n - 1
      OBVIOUS
    <3>2. QED
      BY <3>1
  <2>3. (Lt(n) <=> xl(n) < yl(n)) /\ (Eq(n) <=> xl(n) = yl(n))
    BY <1>5
  <2> DEFINE P == Pow2[n]
  <2>4. /\ P \in Nat \ {0}
        /\ xb(n) \in {0, 1} /\ xl(n) \in Nat /\ xl(n) < P /\ xl(n + 1) = xl(n) + P * xb(n)
        /\ yb(n) \in {0, 1} /\ yl(n) \in Nat /\ yl(n) < P /\ yl(n + 1) = yl(n) + P * yb(n)
    BY <1>2
  <2> HIDE DEF P, Lt, Eq
  <2>5. /\ xl(n + 1) < yl(n + 1) <=> xb(n) < yb(n) \/ (xb(n) = yb(n) /\ xl(n) < yl(n))
        /\ xl(n + 1) = yl(n + 1) <=> xb(n) = yb(n) /\ xl(n) = yl(n)
    BY <2>4
  <2>6. QED
    BY <2>1, <2>2, <2>3, <2>5
<1> HIDE DEF S
<1>6. AmountBits \in S
  <2>1. Nat \subseteq S
    BY <1>4, <1>5, AllNaturals
  <2>2. QED
    BY <2>1, WidthAssumption
<1>7. (Lt(AmountBits) <=> x < y) /\ (Eq(AmountBits) <=> x = y)
  BY <1>1, <1>6 DEF S
<1>8. QED
  BY <1>7 DEF LessFromBits, EqualFromBits, xb, yb

-----------------------------------------------------------------------------
(* The provers of a settlement. *)

\* Notes that fit the slots of a witness.
Fitting(notes) ==
  /\ Fits(notes) /\ DOMAIN notes = 1 .. Len(notes)
  /\ \A i \in DOMAIN notes : notes[i] \in (0 .. MaxAmount) \X Int

\* A side whose inputs pass the checks: its order, and locked cash of 64 bits that backs it.
Ready(s, price, seller) ==
  /\ s = SidePrivate(s.amount, s.rOrder, s.locked, s.rOrderNew, s.rLockedNew, s.rRecv)
  /\ s.amount \in 0 .. MaxAmount
  /\ Fitting(s.locked)
  /\ LockedSum(s) = Needed(s.amount, price, seller)
  /\ LockedSum(s) <= MaxAmount

\* The outputs of a side.
Mine(s, fill, price, seller) == CoZkOutputs(OutputAmounts(s.amount, fill, price, seller), s)

\* A side as the prover of a single witness has it.
Padded(s) == [s EXCEPT !.locked = PadTo(s.locked, ZeroCommit)]

\* The statement of a settlement.
Statement(a, b, price, aSeller) ==
  LET fill == Smaller(a.amount, b.amount)
  IN  SettlePublic(Sign(a.amount, b.amount), Mine(a, fill, price, aSeller),
                   Mine(b, fill, price, ~aSeller), a, b, price, aSeller)

\* Multiplication keeps the order.
LEMMA ProductGrows ==
  ASSUME NEW x \in Nat, NEW y \in Nat, x <= y, NEW p \in Nat
  PROVE  x * p \in Nat /\ y * p \in Nat /\ x * p <= y * p
<1>1. (y - x) * p = y * p - x * p /\ y - x \in Nat
  OBVIOUS
<1>2. (y - x) * p >= 0
  BY <1>1
<1>3. QED
  BY <1>1, <1>2

\* The amounts of a side stay within 64 bits.
LEMMA AmountsFit ==
  ASSUME NEW s, NEW price \in 1 .. MaxAmount, NEW seller \in BOOLEAN, Ready(s, price, seller),
         NEW fill \in 0 .. s.amount, fill * price <= MaxAmount
  PROVE  LET out == OutputAmounts(s.amount, fill, price, seller)
         IN  /\ out.order \in 0 .. MaxAmount
             /\ out.locked \in 0 .. MaxAmount /\ out.recv \in 0 .. MaxAmount
             /\ seller => out.locked = s.amount - fill /\ out.recv = fill * price
             /\ ~seller => out.locked = (s.amount - fill) * price /\ out.recv = fill
<1>1. /\ MaxAmount \in Nat /\ price \in Nat /\ s.amount \in Nat /\ fill \in Nat
      /\ s.amount <= MaxAmount /\ fill <= s.amount
  BY WidthIsInt DEF Ready
<1> DEFINE rest == s.amount - fill
<1>2. rest \in Nat /\ rest <= s.amount
  BY <1>1
<1>3. seller \/ s.amount * price <= MaxAmount
  BY DEF Ready, Needed, Scale
<1>4. rest * price \in Nat /\ rest * price <= s.amount * price /\ s.amount * price \in Nat
  BY <1>1, <1>2, ProductGrows
<1>5. fill * price \in Nat
  BY <1>1, ProductGrows
<1>6. CASE seller
  BY <1>1, <1>2, <1>5, <1>6 DEF OutputAmounts, Scale
<1>7. CASE ~seller
  BY <1>1, <1>2, <1>3, <1>4, <1>7 DEF OutputAmounts, Scale
<1>8. QED
  BY <1>6, <1>7

\* Its outputs in the clear are those.
LEMMA OutputsInTheClear ==
  ASSUME NEW s, NEW price \in 1 .. MaxAmount, NEW seller \in BOOLEAN, Ready(s, price, seller),
         NEW fill \in 0 .. s.amount, fill * price <= MaxAmount
  PROVE  ComputeMyOutputs(s, fill, price, seller) = {Mine(s, fill, price, seller)}
<1> DEFINE out == OutputAmounts(s.amount, fill, price, seller)
<1>1. out.locked <= MaxAmount /\ out.recv <= MaxAmount
  BY AmountsFit, WidthIsInt
<1>2. ~ (fill > s.amount)
  BY WidthIsInt DEF Ready
<1>3. Spendable64(out)
  BY <1>1 DEF Spendable64
<1> HIDE DEF out
<1>4. Mine(s, fill, price, seller) =
        [order |-> Commit(out.order, s.rOrderNew), locked |-> Commit(out.locked, s.rLockedNew),
         recv |-> Commit(out.recv, s.rRecv)]
  BY DEF Mine, CoZkOutputs, out
<1>5. QED
  BY <1>2, <1>3, <1>4 DEF ComputeMyOutputs, out

\* The slots of a witness.
LEMMA SlotsOf ==
  ASSUME NEW notes, Fitting(notes)
  PROVE  /\ PadTo(notes, ZeroCommit)
              = [i \in 1 .. Slots |-> IF i \in DOMAIN notes THEN notes[i] ELSE ZeroCommit]
         /\ PadTo(Hashes(notes), ZeroCommit) = PadTo(notes, ZeroCommit)
         /\ \A i \in 1 .. Slots : PadTo(notes, ZeroCommit)[i] \in (0 .. MaxAmount) \X Int
         /\ PadTo(Amounts(notes), 0) = [i \in 1 .. Slots |-> PadTo(notes, ZeroCommit)[i][1]]
<1>1. 0 \in 0 .. MaxAmount
  BY WidthIsInt
<1>2. \A i \in DOMAIN notes : Hashes(notes)[i] = notes[i]
  BY DEF Hashes, Fitting, Commit
<1>3. DOMAIN Hashes(notes) = DOMAIN notes /\ DOMAIN Amounts(notes) = DOMAIN notes
  BY DEF Hashes, Amounts
<1>4. \A i \in DOMAIN notes : Amounts(notes)[i] = notes[i][1]
  BY DEF Amounts
<1>5. QED
  BY <1>1, <1>2, <1>3, <1>4 DEF PadTo, Fitting, ZeroCommit, Commit

\* What the notes of a side are worth, in 64 bits.
LEMMA SumOf ==
  ASSUME NEW notes, Fitting(notes),
         PadTo(notes, ZeroCommit)[1][1] + PadTo(notes, ZeroCommit)[2][1] <= MaxAmount
  PROVE  /\ Total(PadTo(Amounts(notes), 0))
              = PadTo(notes, ZeroCommit)[1][1] + PadTo(notes, ZeroCommit)[2][1]
         /\ Sum64(notes) = PadTo(notes, ZeroCommit)[1][1] + PadTo(notes, ZeroCommit)[2][1]
         /\ Sum64(notes) \in 0 .. MaxAmount
<1> DEFINE x == PadTo(notes, ZeroCommit)[1][1]
           y == PadTo(notes, ZeroCommit)[2][1]
<1>1. x \in 0 .. MaxAmount /\ y \in 0 .. MaxAmount
  BY SlotsOf DEF Slots
<1>2. Total(PadTo(Amounts(notes), 0)) = x + y
  BY SlotsOf DEF Total, Slots
<1> HIDE DEF x, y
<1>3. x + y \in 0 .. MaxAmount
  BY <1>1, WidthIsInt DEF x, y
<1>4. (x + y) % Pow2[AmountBits] = x + y
  BY <1>3, AmountIsLow
<1>5. QED
  BY <1>2, <1>3, <1>4 DEF Sum64, Width, x, y

\* The slots of a side, and of the side padded.
LEMMA SideSlots ==
  ASSUME NEW s, NEW price, NEW seller, Ready(s, price, seller)
  PROVE  /\ LockedHashes(s) = PadTo(s.locked, ZeroCommit)
         /\ CoZkLockedHashes(s) = LockedHashes(s) /\ LockedHashes(Padded(s)) = LockedHashes(s)
         /\ LockedSum(s) = LockedHashes(s)[1][1] + LockedHashes(s)[2][1]
         /\ \A i \in 1 .. Slots : Slot(Padded(s), i) = Slot(s, i)
         /\ \A i \in 1 .. Slots :
              Slot(s, i) = LockedHashes(s)[i] /\ Slot(s, i)[1] \in 0 .. MaxAmount
         /\ CoZkSideJson(s) = {Padded(s)}
         /\ Padded(s) = SidePrivate(s.amount, s.rOrder, PadTo(s.locked, ZeroCommit), s.rOrderNew,
                                    s.rLockedNew, s.rRecv)
<1>1. Fitting(s.locked)
  BY DEF Ready
<1> DEFINE slots == PadTo(s.locked, ZeroCommit)
           padded == SidePrivate(s.amount, s.rOrder, slots, s.rOrderNew, s.rLockedNew, s.rRecv)
<1>2. slots = [i \in 1 .. Slots |-> IF i \in DOMAIN s.locked THEN s.locked[i] ELSE ZeroCommit]
  BY <1>1, SlotsOf
<1>3. \A i \in 1 .. Slots : slots[i] \in (0 .. MaxAmount) \X Int
  BY <1>1, SlotsOf
<1> HIDE DEF slots
<1>4. Padded(s) = padded
  BY DEF Padded, Ready, SidePrivate, slots
<1>5. \A i \in 1 .. Slots : Slot(s, i) = slots[i]
  BY <1>2 DEF Slot
<1>6. padded.locked = slots
  BY DEF SidePrivate
<1>7. DOMAIN slots = 1 .. Slots
  BY <1>2
<1>8. \A i \in 1 .. Slots : Slot(Padded(s), i) = slots[i]
  BY <1>4, <1>6, <1>7 DEF Slot
<1>9. LockedHashes(s) = slots
  BY <1>2, <1>5 DEF LockedHashes, MaxLocked, Slots
<1>10. LockedHashes(Padded(s)) = slots
  BY <1>2, <1>8, <1>7 DEF LockedHashes, MaxLocked, Slots
<1>11. CoZkLockedHashes(s) = slots
  BY <1>1, SlotsOf DEF CoZkLockedHashes, slots
<1>12. LockedSum(s) = slots[1][1] + slots[2][1]
  BY <1>5 DEF LockedSum, Slots
<1>13. CoZkSideJson(s) = {Padded(s)}
  BY <1>1 DEF CoZkSideJson, Padded, Fitting
<1>14. QED
  BY <1>3, <1>4, <1>5, <1>8, <1>9, <1>10, <1>11, <1>12, <1>13 DEF slots

\* A side backs its order, to the prover of a single witness too.
LEMMA SideOk ==
  ASSUME NEW s, NEW price \in 1 .. MaxAmount, NEW seller \in BOOLEAN, Ready(s, price, seller)
  PROVE  CoZkSideOk(s, price, seller)
<1> DEFINE slots == PadTo(s.locked, ZeroCommit)
<1>1. /\ Fitting(s.locked) /\ LockedSum(s) = Needed(s.amount, price, seller)
      /\ LockedSum(s) <= MaxAmount
  BY DEF Ready
<1>2. LockedSum(s) = slots[1][1] + slots[2][1]
  BY SideSlots
<1>3. Sum64(s.locked) = LockedSum(s)
  BY <1>1, <1>2, SumOf
<1>4. LockedSum(s) \in LockedNeeded(s.amount, price, seller)
  BY <1>1 DEF LockedNeeded, Needed, Scale, CheckedMul
<1>5. QED
  BY <1>1, <1>3, <1>4 DEF CoZkSideOk, Fitting

\* What it computes for a side is what the side does.
LEMMA SideAmounts ==
  ASSUME NEW s, NEW price \in 1 .. MaxAmount, NEW seller \in BOOLEAN, Ready(s, price, seller),
         NEW fill \in 0 .. s.amount, fill * price <= MaxAmount
  PROVE  CoZkAmounts(s.amount, fill, fill * price, price, seller)
           = {OutputAmounts(s.amount, fill, price, seller)}
<1> DEFINE out == OutputAmounts(s.amount, fill, price, seller)
           rest == s.amount - fill
           recv == IF seller THEN fill * price ELSE fill
<1>1. /\ out.locked <= MaxAmount
      /\ out.locked = (IF seller THEN rest ELSE rest * price) /\ out.recv = recv
  BY AmountsFit, WidthIsInt
<1>2. LockedNeeded(rest, price, seller) = {out.locked}
  BY <1>1 DEF LockedNeeded, CheckedMul
<1>3. out = [order |-> rest, locked |-> out.locked, recv |-> recv]
  BY <1>1 DEF OutputAmounts
<1> HIDE DEF out, recv
<1>4. CoZkAmounts(s.amount, fill, fill * price, price, seller) =
        {[order |-> rest, locked |-> l, recv |-> recv] : l \in LockedNeeded(rest, price, seller)}
  BY DEF CoZkAmounts, recv
<1>5. QED
  BY <1>2, <1>3, <1>4 DEF out

\* The fill of two sides: both have it, and it is worth 64 bits.
LEMMA FillFits ==
  ASSUME NEW a, NEW b, NEW price \in 1 .. MaxAmount, NEW aSeller \in BOOLEAN,
         Ready(a, price, aSeller), Ready(b, price, ~aSeller)
  PROVE  LET fill == Smaller(a.amount, b.amount)
         IN  /\ fill \in 0 .. a.amount /\ fill \in 0 .. b.amount
             /\ fill * price \in Nat /\ fill * price <= MaxAmount
<1> DEFINE fill == Smaller(a.amount, b.amount)
<1>1. /\ a.amount \in Nat /\ b.amount \in Nat /\ price \in Nat /\ MaxAmount \in Nat
  BY WidthIsInt DEF Ready
<1>2. fill \in Nat /\ fill <= a.amount /\ fill <= b.amount
  BY <1>1 DEF Smaller
<1> HIDE DEF fill
<1>3. CASE aSeller
  <2>1. b.amount * price <= MaxAmount
    BY <1>3 DEF Ready, Needed, Scale
  <2>2. fill * price \in Nat /\ fill * price <= b.amount * price /\ b.amount * price \in Nat
    BY <1>1, <1>2, ProductGrows
  <2>3. QED
    BY <1>1, <1>2, <2>1, <2>2 DEF fill
<1>4. CASE ~aSeller
  <2>1. a.amount * price <= MaxAmount
    BY <1>4 DEF Ready, Needed, Scale
  <2>2. fill * price \in Nat /\ fill * price <= a.amount * price /\ a.amount * price \in Nat
    BY <1>1, <1>2, ProductGrows
  <2>3. QED
    BY <1>1, <1>2, <2>1, <2>2 DEF fill
<1>5. QED
  BY <1>3, <1>4

\* The inputs of a side open in the relation, padded or not.
LEMMA InputsOpen ==
  ASSUME NEW s, NEW price \in 1 .. MaxAmount, NEW seller \in BOOLEAN, Ready(s, price, seller),
         NEW st, NEW i, st.order[i] = Commit(s.amount, s.rOrder), st.locked[i] = LockedHashes(s),
         st.price = price
  PROVE  SideOpens(st, i, s, seller) /\ SideOpens(st, i, Padded(s), seller)
<1>1. /\ \A k \in 1 .. MaxLocked :
           Slot(s, k)[1] \in 0 .. MaxAmount /\ Slot(Padded(s), k) = Slot(s, k)
      /\ LockedHashes(Padded(s)) = LockedHashes(s)
  BY SideSlots DEF MaxLocked, Slots
<1>2. Padded(s).amount = s.amount /\ Padded(s).rOrder = s.rOrder
  BY SideSlots DEF SidePrivate
<1>3. LockedSum(Padded(s)) = LockedSum(s)
  BY <1>1 DEF LockedSum, MaxLocked
<1>4. s.amount \in 0 .. MaxAmount /\ LockedSum(s) = IF seller THEN s.amount ELSE s.amount * price
  BY DEF Ready, Needed, Scale
<1>5. QED
  BY <1>1, <1>2, <1>3, <1>4 DEF SideOpens

\* Its outputs are those of the relation.
LEMMA OutputsPay ==
  ASSUME NEW s, NEW price \in 1 .. MaxAmount, NEW seller \in BOOLEAN, Ready(s, price, seller),
         NEW fill \in 0 .. s.amount, fill * price <= MaxAmount,
         NEW st, NEW i, st.price = price, st.newOrder[i] = Mine(s, fill, price, seller).order,
         st.newLocked[i] = Mine(s, fill, price, seller).locked,
         st.recv[i] = Mine(s, fill, price, seller).recv
  PROVE  SidePays(st, i, s, fill, seller) /\ SidePays(st, i, Padded(s), fill, seller)
<1> DEFINE out == OutputAmounts(s.amount, fill, price, seller)
           p == Padded(s)
<1>1. /\ p.amount = s.amount /\ p.rOrderNew = s.rOrderNew
      /\ p.rLockedNew = s.rLockedNew /\ p.rRecv = s.rRecv
  BY SideSlots DEF SidePrivate
<1> HIDE DEF p
<1>2. /\ out.order = s.amount - fill
      /\ out.locked = (IF seller THEN s.amount - fill ELSE (s.amount - fill) * price)
      /\ out.recv = (IF seller THEN fill * price ELSE fill)
  BY DEF OutputAmounts, Scale
<1>3. /\ st.newOrder[i] = Commit(out.order, s.rOrderNew)
      /\ st.newLocked[i] = Commit(out.locked, s.rLockedNew)
      /\ st.recv[i] = Commit(out.recv, s.rRecv)
  BY DEF Mine, CoZkOutputs
<1> HIDE DEF out
<1>4. SidePays(st, i, s, fill, seller)
  BY <1>2, <1>3 DEF SidePays
<1>5. SidePays(st, i, p, fill, seller)
  BY <1>1, <1>2, <1>3 DEF SidePays
<1>6. QED
  BY <1>4, <1>5 DEF p

\* The circuit takes the statement of a settlement.
LEMMA RelationTakes ==
  ASSUME NEW a, NEW b, NEW price \in 1 .. MaxAmount, NEW aSeller \in BOOLEAN,
         Ready(a, price, aSeller), Ready(b, price, ~aSeller)
  PROVE  LET st == Statement(a, b, price, aSeller)
         IN  SettleRelation(st, a, b) /\ SettleRelation(st, Padded(a), Padded(b))
<1> DEFINE st == Statement(a, b, price, aSeller)
           fill == Smaller(a.amount, b.amount)
           lt == IF LessFromBits(a.amount, b.amount) THEN 1 ELSE 0
           eq == IF EqualFromBits(a.amount, b.amount) THEN 1 ELSE 0
           outA == Mine(a, fill, price, aSeller)
           outB == Mine(b, fill, price, ~aSeller)
<1>1. a.amount \in 0 .. MaxAmount /\ b.amount \in 0 .. MaxAmount
  BY DEF Ready
<1>2. a.amount \in Nat /\ b.amount \in Nat
  BY <1>1, WidthIsInt
<1>3. /\ b.amount + lt * (a.amount - b.amount) = fill
      /\ (1 - lt - eq) - lt = Sign(a.amount, b.amount)
  <2>1. /\ LessFromBits(a.amount, b.amount) <=> a.amount < b.amount
        /\ EqualFromBits(a.amount, b.amount) <=> a.amount = b.amount
    BY <1>1, BitsCompare
  <2>2. CASE a.amount < b.amount
    BY <1>2, <2>1, <2>2 DEF Smaller, Sign
  <2>3. CASE a.amount = b.amount
    BY <1>2, <2>1, <2>3 DEF Smaller, Sign
  <2>4. CASE a.amount > b.amount
    BY <1>2, <2>1, <2>4 DEF Smaller, Sign
  <2>5. QED
    BY <1>2, <2>2, <2>3, <2>4
<1>4. fill \in 0 .. a.amount /\ fill \in 0 .. b.amount /\ fill * price <= MaxAmount
  BY FillFits
<1>5. st = SettlePublic(Sign(a.amount, b.amount), outA, outB, a, b, price, aSeller)
  BY DEF Statement
<1> HIDE DEF st, fill, lt, eq, outA, outB
<1>6. /\ st.cmp = Sign(a.amount, b.amount) /\ st.price = price /\ st.aSeller = aSeller
      /\ st.order[1] = Commit(a.amount, a.rOrder) /\ st.order[2] = Commit(b.amount, b.rOrder)
      /\ st.locked[1] = LockedHashes(a) /\ st.locked[2] = LockedHashes(b)
      /\ st.newOrder[1] = outA.order /\ st.newOrder[2] = outB.order
      /\ st.newLocked[1] = outA.locked /\ st.newLocked[2] = outB.locked
      /\ st.recv[1] = outA.recv /\ st.recv[2] = outB.recv
  BY <1>5 DEF SettlePublic
<1>7. /\ SideOpens(st, 1, a, aSeller) /\ SideOpens(st, 1, Padded(a), aSeller)
      /\ SideOpens(st, 2, b, ~aSeller) /\ SideOpens(st, 2, Padded(b), ~aSeller)
  <2>1. (~aSeller) \in BOOLEAN
    OBVIOUS
  <2>2. SideOpens(st, 1, a, aSeller) /\ SideOpens(st, 1, Padded(a), aSeller)
    BY <1>6, InputsOpen
  <2>3. SideOpens(st, 2, b, ~aSeller) /\ SideOpens(st, 2, Padded(b), ~aSeller)
    BY <1>6, <2>1, InputsOpen
  <2>4. QED
    BY <2>2, <2>3
<1>8. SidePays(st, 1, a, fill, aSeller) /\ SidePays(st, 1, Padded(a), fill, aSeller)
  BY <1>4, <1>6, OutputsPay DEF outA
<1>9. SidePays(st, 2, b, fill, ~aSeller) /\ SidePays(st, 2, Padded(b), fill, ~aSeller)
  <2>1. (~aSeller) \in BOOLEAN
    OBVIOUS
  <2>2. QED
    BY <1>4, <1>6, <2>1, OutputsPay DEF outB
<1>10. Padded(a).amount = a.amount /\ Padded(b).amount = b.amount
  BY SideSlots DEF SidePrivate
<1>11. SettleRelation(st, a, b)
  BY <1>3, <1>6, <1>7, <1>8, <1>9 DEF SettleRelation, lt, eq
<1>12. SettleRelation(st, Padded(a), Padded(b))
  BY <1>3, <1>6, <1>7, <1>8, <1>9, <1>10 DEF SettleRelation, lt, eq
<1>13. QED
  BY <1>11, <1>12 DEF st

\* One statement of each computation when both sides are ready.
LEMMA OneStatement ==
  ASSUME NEW a, NEW b, NEW price \in 1 .. MaxAmount, NEW aSeller \in BOOLEAN,
         Ready(a, price, aSeller), Ready(b, price, ~aSeller)
  PROVE  LET fill == Smaller(a.amount, b.amount)
         IN  Statements(Sign(a.amount, b.amount), fill, a, b, price, aSeller)
               = {Statement(a, b, price, aSeller)}
<1> DEFINE fill == Smaller(a.amount, b.amount)
           cmp == Sign(a.amount, b.amount)
           outA == Mine(a, fill, price, aSeller)
           outB == Mine(b, fill, price, ~aSeller)
<1>1. fill \in 0 .. a.amount /\ fill \in 0 .. b.amount /\ fill * price <= MaxAmount
  BY FillFits
<1> HIDE DEF fill
<1>2. ComputeMyOutputs(a, fill, price, aSeller) = {outA}
  BY <1>1, OutputsInTheClear
<1>3. ComputeMyOutputs(b, fill, price, ~aSeller) = {outB}
  <2>1. (~aSeller) \in BOOLEAN
    OBVIOUS
  <2>2. QED
    BY <1>1, <2>1, OutputsInTheClear
<1>4. Statement(a, b, price, aSeller) = SettlePublic(cmp, outA, outB, a, b, price, aSeller)
  BY DEF Statement, fill
<1> HIDE DEF outA, outB, cmp
<1>5. Statements(cmp, fill, a, b, price, aSeller)
        = {SettlePublic(cmp, outA, outB, a, b, price, aSeller)}
  BY <1>2, <1>3 DEF Statements
<1>6. QED
  BY <1>4, <1>5 DEF fill, cmp

\* What a single prover computes of both sides.
LEMMA OneOutcome ==
  ASSUME NEW a, NEW b, NEW price \in 1 .. MaxAmount, NEW aSeller \in BOOLEAN,
         Ready(a, price, aSeller), Ready(b, price, ~aSeller)
  PROVE  LET fill == Smaller(a.amount, b.amount)
         IN  SettleCoZkOutcome(a, b, price, aSeller)
               = {[cmp |-> Sign(a.amount, b.amount),
                   out |-> <<OutputAmounts(a.amount, fill, price, aSeller),
                             OutputAmounts(b.amount, fill, price, ~aSeller)>>]}
<1> DEFINE fill == Smaller(a.amount, b.amount)
           cmp == Sign(a.amount, b.amount)
           x == OutputAmounts(a.amount, fill, price, aSeller)
           y == OutputAmounts(b.amount, fill, price, ~aSeller)
           A(f) == CoZkAmounts(a.amount, fill, f, price, aSeller)
           B(f) == CoZkAmounts(b.amount, fill, f, price, ~aSeller)
<1>1. fill \in 0 .. a.amount /\ fill \in 0 .. b.amount /\ fill * price <= MaxAmount
  BY FillFits
<1>2. (~aSeller) \in BOOLEAN
  OBVIOUS
<1>3. CoZkSideOk(a, price, aSeller) /\ CoZkSideOk(b, price, ~aSeller)
  BY <1>2, SideOk
<1>4. A(fill * price) = {x} /\ B(fill * price) = {y}
  <2> HIDE DEF fill
  <2>1. A(fill * price) = {x}
    BY <1>1, SideAmounts
  <2>2. B(fill * price) = {y}
    BY <1>1, <1>2, SideAmounts
  <2>3. QED
    BY <2>1, <2>2
<1>5. CheckedMul(fill, price) = {fill * price}
  BY <1>1 DEF CheckedMul
<1>6. SettleCoZkOutcome(a, b, price, aSeller)
        = UNION {{[cmp |-> cmp, out |-> <<outA, outB>>] : outA \in A(f), outB \in B(f)} :
                 f \in CheckedMul(fill, price)}
  BY <1>3 DEF SettleCoZkOutcome
<1> HIDE DEF fill, cmp, x, y, A, B
<1>7. {[cmp |-> cmp, out |-> <<outA, outB>>] : outA \in A(fill * price), outB \in B(fill * price)}
        = {[cmp |-> cmp, out |-> <<x, y>>]}
  BY <1>4
<1>8. SettleCoZkOutcome(a, b, price, aSeller) = {[cmp |-> cmp, out |-> <<x, y>>]}
  BY <1>5, <1>6, <1>7
<1>9. QED
  BY <1>8 DEF fill, cmp, x, y

\* The provers of a settlement agree: from sides whose inputs pass the checks the session of two
\* traders, whatever masks it draws, the mirror in the clear and the single prover arrive at one
\* and the same statement, which the circuit takes (session.rs, relation.rs, wallet.rs
\* prove_settle_cozk).
THEOREM ProversMakeOneStatement ==
  ASSUME NEW a, NEW b, NEW price \in 1 .. MaxAmount, NEW aSeller \in BOOLEAN,
         Ready(a, price, aSeller), Ready(b, price, ~aSeller)
  PROVE  LET st == Statement(a, b, price, aSeller)
         IN  /\ CompareThreeWay(a.amount, b.amount) = {{Sign(a.amount, b.amount)}}
             /\ ComputePublic(a, b, price, aSeller) = {st}
             /\ SessionStatements(a, b, price, aSeller) = {st}
             /\ ProveSettleCoZk(a, b, price, aSeller) = {st}
             /\ SettleRelation(st, a, b)
<1> DEFINE fill == Smaller(a.amount, b.amount)
           cmp == Sign(a.amount, b.amount)
           st == Statement(a, b, price, aSeller)
           x == OutputAmounts(a.amount, fill, price, aSeller)
           y == OutputAmounts(b.amount, fill, price, ~aSeller)
           outA == Mine(a, fill, price, aSeller)
           outB == Mine(b, fill, price, ~aSeller)
<1>1. CompareThreeWay(a.amount, b.amount) = {{cmp}}
  <2>1. a.amount \in 0 .. MaxAmount /\ b.amount \in 0 .. MaxAmount
    BY DEF Ready
  <2>2. QED
    BY <2>1, ThreeWayIsSign
<1>2. Statements(cmp, fill, a, b, price, aSeller) = {st}
  BY OneStatement
<1>3. ComputePublic(a, b, price, aSeller) = {st}
  <2>1. Fits(a.locked) /\ Fits(b.locked)
    BY DEF Ready, Fitting
  <2>2. Len(a.locked) <= MaxLocked /\ Len(b.locked) <= MaxLocked
    <3> DEFINE n == Len(a.locked)
               m == Len(b.locked)
    <3>1. n \in 1 .. 2 /\ m \in 1 .. 2
      BY <2>1 DEF Fits, Slots
    <3> HIDE DEF n, m
    <3>2. n <= 2 /\ m <= 2
      BY <3>1
    <3>3. QED
      BY <3>2 DEF n, m, MaxLocked
  <2>3. /\ LockedSum(a) = Needed(a.amount, price, aSeller)
        /\ LockedSum(b) = Needed(b.amount, price, ~aSeller)
    BY DEF Ready
  <2>4. QED
    BY <1>2, <2>2, <2>3 DEF ComputePublic
<1>4. SessionStatements(a, b, price, aSeller) = {st}
  <2>1. Fill(a, b, cmp) = fill
    <3>1. a.amount \in Int /\ b.amount \in Int
      BY WidthIsInt DEF Ready
    <3>2. QED
      BY <3>1 DEF Fill, Sign, Smaller
  <2> HIDE DEF fill, cmp, st
  <2>2. UNION CompareThreeWay(a.amount, b.amount) = {cmp}
    BY <1>1
  <2>3. {Statements(c, Fill(a, b, c), a, b, price, aSeller) : c \in {cmp}} = {{st}}
    BY <1>2, <2>1
  <2>4. QED
    BY <2>2, <2>3 DEF SessionStatements
<1>5. SettleRelation(st, a, b) /\ SettleRelation(st, Padded(a), Padded(b))
  BY RelationTakes
<1>6. ProveSettleCoZk(a, b, price, aSeller) = {st}
  <2> DEFINE w0 == [cmp |-> cmp, out |-> <<x, y>>]
             in0 == [public |-> CoZkPublicJson(Commit(a.amount, a.rOrder),
                                               Commit(b.amount, b.rOrder), price, aSeller,
                                               CoZkLockedHashes(a), CoZkLockedHashes(b)),
                     side |-> <<Padded(a), Padded(b)>>]
             X(w, in) == SettlePublic(w.cmp, CoZkOutputs(w.out[1], a), CoZkOutputs(w.out[2], b),
                                      in.side[1], in.side[2], in.public.price, in.public.aSeller)
             Y(w, in) == {s \in {X(w, in)} : /\ s.order = in.public.order
                                             /\ s.locked = in.public.locked
                                             /\ SettleRelation(s, in.side[1], in.side[2])}
  <2>1. SettleCoZkOutcome(a, b, price, aSeller) = {w0}
    BY OneOutcome
  <2>2. CoZkInputJson(a, b, price, aSeller) = {in0}
    <3>1. CoZkSideJson(a) = {Padded(a)} /\ CoZkSideJson(b) = {Padded(b)}
      BY SideSlots
    <3>2. QED
      BY <3>1 DEF CoZkInputJson
  <2>3. /\ w0.cmp = cmp /\ CoZkOutputs(w0.out[1], a) = outA /\ CoZkOutputs(w0.out[2], b) = outB
    BY DEF Mine
  <2>4. /\ in0.side[1] = Padded(a) /\ in0.side[2] = Padded(b)
        /\ in0.public.price = price /\ in0.public.aSeller = aSeller
        /\ in0.public.order = <<Commit(a.amount, a.rOrder), Commit(b.amount, b.rOrder)>>
        /\ in0.public.locked = <<CoZkLockedHashes(a), CoZkLockedHashes(b)>>
    BY DEF CoZkPublicJson
  <2>5. st = SettlePublic(cmp, outA, outB, a, b, price, aSeller)
    BY DEF Statement
  <2> HIDE DEF w0, in0, st, cmp, outA, outB, x, y, fill
  <2>6. X(w0, in0) = st
    <3>1. /\ Padded(a).amount = a.amount /\ Padded(a).rOrder = a.rOrder
          /\ Padded(b).amount = b.amount /\ Padded(b).rOrder = b.rOrder
          /\ LockedHashes(Padded(a)) = LockedHashes(a) /\ LockedHashes(Padded(b)) = LockedHashes(b)
      BY SideSlots DEF SidePrivate
    <3>2. X(w0, in0) = SettlePublic(cmp, outA, outB, Padded(a), Padded(b), price, aSeller)
      BY <2>3, <2>4
    <3>3. QED
      BY <2>5, <3>1, <3>2 DEF SettlePublic
  <2>7. st.order = in0.public.order /\ st.locked = in0.public.locked
    <3>1. CoZkLockedHashes(a) = LockedHashes(a) /\ CoZkLockedHashes(b) = LockedHashes(b)
      BY SideSlots
    <3>2. QED
      BY <2>4, <2>5, <3>1 DEF SettlePublic
  <2> HIDE DEF X
  <2>8. Y(w0, in0) = {st}
    BY <1>5, <2>4, <2>6, <2>7 DEF st
  <2>9. ProveSettleCoZk(a, b, price, aSeller) = UNION {Y(w, in) : w \in {w0}, in \in {in0}}
    BY <2>1, <2>2 DEF ProveSettleCoZk, X
  <2> HIDE DEF Y
  <2>10. QED
    BY <2>8, <2>9
<1>7. QED
  BY <1>1, <1>3, <1>4, <1>5, <1>6

-----------------------------------------------------------------------------
(* The provers of deposits, withdrawals and legacy legs. *)

\* Two slots are a pair.
LEMMA Pairs ==
  ASSUME NEW f, DOMAIN f = 1 .. Slots, f = [i \in DOMAIN f |-> f[i]]
  PROVE  f = <<f[1], f[2]>>
  BY DEF Slots

\* A witness of fitting notes opens its slots, which are those the chain fills with the
\* commitments of the notes.
LEMMA WitnessOpens ==
  ASSUME NEW notes, Fitting(notes)
  PROVE  LET w == WitnessSlots(notes)
             slots == PadTo(notes, ZeroCommit)
         IN  /\ VerifyAmounts(w) /\ w.hashes = slots
             /\ InputSignals(notes) = slots /\ InputSignals(Hashes(notes)) = slots
             /\ \A i \in 1 .. Slots : w.amounts[i] = slots[i][1] /\ slots[i][1] \in 0 .. MaxAmount
             /\ slots[1] = notes[1] /\ slots[2] = IF Len(notes) = 2 THEN notes[2] ELSE ZeroCommit
<1> DEFINE slots == PadTo(notes, ZeroCommit)
           n == Len(notes)
<1>1. n \in 1 .. 2 /\ DOMAIN notes = 1 .. n
  BY DEF Fitting, Fits, Slots
<1> HIDE DEF n
<1>2. /\ slots = [i \in 1 .. Slots |-> IF i \in DOMAIN notes THEN notes[i] ELSE ZeroCommit]
      /\ PadTo(Hashes(notes), ZeroCommit) = slots
      /\ \A i \in 1 .. Slots : slots[i] \in (0 .. MaxAmount) \X Int
      /\ PadTo(Amounts(notes), 0) = [i \in 1 .. Slots |-> slots[i][1]]
  BY SlotsOf
<1>3. \A i \in 1 .. Slots : PadTo(Blindings(notes), 0)[i] = slots[i][2]
  BY <1>2 DEF PadTo, Blindings, ZeroCommit, Commit
<1> HIDE DEF slots
<1>4. VerifyAmounts(WitnessSlots(notes))
  <2> DEFINE w == WitnessSlots(notes)
  <2>1. ASSUME NEW i \in 1 .. Slots
        PROVE  w.amounts[i] \in 0 .. MaxAmount /\ w.hashes[i] = Commit(w.amounts[i], w.blindings[i])
    <3>1. /\ w.amounts[i] = slots[i][1] /\ w.hashes[i] = slots[i] /\ w.blindings[i] = slots[i][2]
      BY <1>2, <1>3 DEF WitnessSlots
    <3>2. slots[i] \in (0 .. MaxAmount) \X Int
      BY <1>2
    <3> HIDE DEF w
    <3>3. QED
      BY <3>1, <3>2 DEF Commit
  <2>2. QED
    BY <2>1 DEF VerifyAmounts
<1>5. \A i \in 1 .. Slots : i > n <=> i \notin DOMAIN notes
  BY <1>1 DEF Slots
<1>6. InputSignals(notes) = slots
  BY <1>2, <1>5 DEF InputSignals, n
<1>7. Len(Hashes(notes)) = n
  BY <1>1 DEF Hashes
<1>8. \A i \in DOMAIN notes : Hashes(notes)[i] = notes[i]
  BY DEF Hashes, Fitting, Commit
<1>9. InputSignals(Hashes(notes)) = slots
  BY <1>2, <1>5, <1>7, <1>8 DEF InputSignals
<1>10. slots[1] = notes[1] /\ slots[2] = IF n = 2 THEN notes[2] ELSE ZeroCommit
  BY <1>1, <1>2 DEF Slots
<1>11. QED
  BY <1>2, <1>4, <1>6, <1>9, <1>10 DEF WitnessSlots, slots, n

\* One note, or two.
LEMMA FittingNotes ==
  ASSUME NEW x \in (0 .. MaxAmount) \X Int, NEW y \in (0 .. MaxAmount) \X Int
  PROVE  /\ Fitting(<<x>>) /\ PadTo(<<x>>, ZeroCommit) = <<x, ZeroCommit>>
         /\ Fitting(<<x, y>>) /\ PadTo(<<x, y>>, ZeroCommit) = <<x, y>>
<1>1. Fitting(<<x>>) /\ Fitting(<<x, y>>)
  BY DEF Fitting, Fits, Slots
<1> DEFINE f == PadTo(<<x>>, ZeroCommit)
           g == PadTo(<<x, y>>, ZeroCommit)
<1>2. /\ DOMAIN f = 1 .. Slots /\ f = [i \in DOMAIN f |-> f[i]]
      /\ DOMAIN g = 1 .. Slots /\ g = [i \in DOMAIN g |-> g[i]]
  BY DEF PadTo
<1>3. f[1] = x /\ f[2] = ZeroCommit /\ g[1] = x /\ g[2] = y
  BY DEF PadTo, Slots
<1> HIDE DEF f, g
<1>4. f = <<x, ZeroCommit>> /\ g = <<x, y>>
  BY <1>2, <1>3, Pairs
<1>5. QED
  BY <1>1, <1>4 DEF f, g

\* One signal before two.
LEMMA OneAndTwo ==
  ASSUME NEW x, NEW y, NEW z
  PROVE <<x>> \o <<y, z>> = <<x, y, z>>
<1> DEFINE T == {x, y, z}
           s == <<x>>
           t == <<y, z>>
           v == <<x, y, z>>
<1>1. s \in Seq(T) /\ t \in Seq(T) /\ v \in Seq(T)
  OBVIOUS
<1>2. Len(s) = 1 /\ Len(t) = 2 /\ Len(v) = 3
  OBVIOUS
<1>3. s[1] = x /\ t[1] = y /\ t[2] = z /\ v[1] = x /\ v[2] = y /\ v[3] = z
  OBVIOUS
<1> HIDE DEF s, t, T, v
<1>4. Len(s \o t) = 3 /\ \A i \in 1 .. 3 : (s \o t)[i] = IF i <= 1 THEN s[i] ELSE t[i - 1]
  <2>1. /\ Len(s \o t) = Len(s) + Len(t)
        /\ \A i \in 1 .. Len(s) + Len(t) : (s \o t)[i] = IF i <= Len(s) THEN s[i] ELSE t[i - Len(s)]
    BY <1>1, ConcatProperties
  <2>2. QED
    BY <1>2, <2>1
<1>5. \A i \in 1 .. 3 : (s \o t)[i] = v[i]
  BY <1>3, <1>4
<1>6. s \o t \in Seq(T)
  BY <1>1
<1>7. s \o t = v
  BY <1>1, <1>2, <1>4, <1>5, <1>6, SeqEqual
<1>8. QED
  BY <1>7 DEF s, t, v

\* A deposit is proved, for the vector the chain rebuilds of it.
LEMMA DepositVerifies ==
  ASSUME NEW amount \in 0 .. MaxAmount, NEW r \in Nat
  PROVE  LET bridge == Commit(amount, r + 2)
             output == Commit(amount, r + 1)
         IN  ClientDeposit(amount, r)
               = {DepositParams(bridge, output, DepositSignals(bridge, output))}
<1> DEFINE bridge == Commit(amount, r + 2)
           output == Commit(amount, r + 1)
           w == WitnessSlots(<<output>>)
<1>1. output \in (0 .. MaxAmount) \X Int /\ output[1] = amount
  BY DEF Commit
<1> HIDE DEF bridge, output
<1>2. Fitting(<<output>>) /\ PadTo(<<output>>, ZeroCommit) = <<output, ZeroCommit>>
  BY <1>1, FittingNotes
<1>3. /\ VerifyAmounts(w) /\ w.hashes = <<output, ZeroCommit>>
      /\ w.amounts[1] = output[1] /\ w.amounts[2] = 0
  <2>1. /\ VerifyAmounts(w) /\ w.hashes = <<output, ZeroCommit>>
        /\ \A i \in 1 .. Slots : w.amounts[i] = <<output, ZeroCommit>>[i][1]
    BY <1>2, WitnessOpens
  <2> HIDE DEF w
  <2>2. QED
    BY <2>1 DEF Slots, ZeroCommit, Commit
<1> HIDE DEF w
<1>4. Total(w.amounts) = amount
  BY <1>1, <1>3, WidthIsInt DEF Total
<1>5. <<bridge>> \o w.hashes = DepositSignals(bridge, output)
  BY <1>3, OneAndTwo DEF DepositSignals
<1>6. ProveDeposit(amount, r + 2, output) = {DepositSignals(bridge, output)}
  BY <1>3, <1>4, <1>5 DEF ProveDeposit, w, bridge
<1>7. QED
  BY <1>6 DEF ClientDeposit, bridge, output

\* What notes are worth.
NotesWorth(notes) == PadTo(notes, ZeroCommit)[1][1] + PadTo(notes, ZeroCommit)[2][1]

\* A withdrawal of fitting notes is proved, for the vector the chain rebuilds of it, and what it
\* does not withdraw is its change.
LEMMA WithdrawalVerifies ==
  ASSUME NEW notes, Fitting(notes), NotesWorth(notes) <= MaxAmount,
         NEW amount \in 0 .. NotesWorth(notes), NEW r \in Nat
  PROVE  LET rest == NotesWorth(notes) - amount
             bridge == Commit(amount, r + 1)
             change == Commit(rest, r + 2)
         IN  /\ rest \in 0 .. MaxAmount
             /\ ClientWithdraw(amount, notes, r)
                  = {[params |-> WithdrawParams(bridge, <<change, ZeroCommit>>,
                                   WithdrawSignals(bridge, notes, <<change, ZeroCommit>>)),
                      reported |-> IF rest = 0 THEN {} ELSE {change}]}
<1> DEFINE worth == NotesWorth(notes)
           rest == worth - amount
           bridge == Commit(amount, r + 1)
           change == Commit(rest, r + 2)
           ins == WitnessSlots(notes)
           outs == WitnessSlots(<<change>>)
<1>1. /\ Total(PadTo(Amounts(notes), 0)) = worth /\ Sum64(notes) = worth /\ worth \in 0 .. MaxAmount
  BY SumOf DEF NotesWorth
<1>2. Total(ins.amounts) = worth
  BY <1>1 DEF WitnessSlots
<1>3. VerifyAmounts(ins) /\ ins.hashes = InputSignals(notes)
  BY WitnessOpens
<1> HIDE DEF worth, ins
<1>4. /\ worth \in Nat /\ amount \in Nat /\ MaxAmount \in Nat /\ amount <= worth
      /\ worth <= MaxAmount /\ rest \in 0 .. MaxAmount
  BY <1>1, WidthIsInt DEF worth
<1>5. change \in (0 .. MaxAmount) \X Int /\ change[1] = rest
  BY <1>4 DEF Commit
<1> HIDE DEF bridge, change, rest
<1>6. Fitting(<<change>>) /\ PadTo(<<change>>, ZeroCommit) = <<change, ZeroCommit>>
  BY <1>5, FittingNotes
<1>7. /\ VerifyAmounts(outs) /\ outs.hashes = <<change, ZeroCommit>>
      /\ outs.amounts[1] = rest /\ outs.amounts[2] = 0
  <2>1. /\ VerifyAmounts(outs) /\ outs.hashes = <<change, ZeroCommit>>
        /\ \A i \in 1 .. Slots : outs.amounts[i] = <<change, ZeroCommit>>[i][1]
    BY <1>6, WitnessOpens
  <2> HIDE DEF outs
  <2>2. QED
    BY <1>5, <2>1 DEF Slots, ZeroCommit, Commit
<1> HIDE DEF outs
<1>8. Total(outs.amounts) = rest /\ worth = amount + rest
  BY <1>4, <1>7 DEF Total, rest
<1> DEFINE proof == WithdrawSignals(bridge, notes, <<change, ZeroCommit>>)
<1>9. <<bridge>> \o ins.hashes \o outs.hashes = proof
  BY <1>3, <1>7 DEF WithdrawSignals
<1> HIDE DEF proof
<1>10. Fits(notes)
  BY DEF Fitting
<1>11. amount \in 0 .. MaxAmount
  BY <1>4
<1>12. ProveWithdraw(amount, r + 1, notes, change) = {proof}
  BY <1>2, <1>3, <1>7, <1>8, <1>9, <1>10, <1>11 DEF ProveWithdraw, ins, outs, bridge
<1>13. ~ (Sum64(notes) < amount) /\ Sum64(notes) - amount = rest
  BY <1>1, <1>4 DEF rest
<1>14. ClientWithdraw(amount, notes, r)
         = {[params |-> WithdrawParams(bridge, <<change, ZeroCommit>>, p),
             reported |-> IF rest = 0 THEN {} ELSE {change}] :
              p \in ProveWithdraw(amount, r + 1, notes, change)}
  BY <1>10, <1>13 DEF ClientWithdraw, bridge, change
<1>15. ClientWithdraw(amount, notes, r)
         = {[params |-> WithdrawParams(bridge, <<change, ZeroCommit>>, proof),
             reported |-> IF rest = 0 THEN {} ELSE {change}]}
  BY <1>12, <1>14
<1>16. QED
  BY <1>4, <1>15 DEF proof, rest, bridge, change, worth

\* A split of two notes' worth into what an order locks and the change is proved, for the notes
\* in the order the prover took them.
LEMMA SplitIsProved ==
  ASSUME NEW notes, Fitting(notes), NotesWorth(notes) <= MaxAmount,
         NEW locked \in (0 .. MaxAmount) \X Int, NEW change \in (0 .. MaxAmount) \X Int,
         locked[1] + change[1] = NotesWorth(notes)
  PROVE  ProveSplit(notes, locked, change) = {SplitSignals(notes, locked, change)}
<1> DEFINE ins == WitnessSlots(notes)
           outs == WitnessSlots(<<locked, change>>)
<1>1. Total(ins.amounts) = NotesWorth(notes)
  BY SumOf DEF NotesWorth, WitnessSlots
<1>2. VerifyAmounts(ins) /\ ins.hashes = InputSignals(notes)
  BY WitnessOpens
<1> HIDE DEF ins
<1>3. /\ Fitting(<<locked, change>>)
      /\ PadTo(<<locked, change>>, ZeroCommit) = <<locked, change>>
  BY FittingNotes
<1>4. /\ VerifyAmounts(outs) /\ outs.hashes = <<locked, change>>
      /\ outs.amounts[1] = locked[1] /\ outs.amounts[2] = change[1]
  <2>1. /\ VerifyAmounts(outs) /\ outs.hashes = <<locked, change>>
        /\ \A i \in 1 .. Slots : outs.amounts[i] = <<locked, change>>[i][1]
    BY <1>3, WitnessOpens
  <2> HIDE DEF outs
  <2>2. QED
    BY <2>1 DEF Slots
<1> HIDE DEF outs
<1>5. Total(outs.amounts) = NotesWorth(notes)
  BY <1>4 DEF Total
<1>6. Fits(notes)
  BY DEF Fitting
<1>7. ins.hashes \o outs.hashes = SplitSignals(notes, locked, change)
  BY <1>2, <1>4 DEF SplitSignals
<1>8. QED
  BY <1>1, <1>2, <1>4, <1>5, <1>6, <1>7 DEF ProveSplit, ins, outs

\* A leg is proved for the vector the chain rebuilds, and for no other.
LargerLeg(notes, mine, rMy, other, rOther, price, isToken2, change, recv) ==
  ProveSettleLarger(rMy, other, rOther, price, isToken2, notes, change, recv)
    = {SettleLargerSignals(Commit(mine, rMy), Commit(other, rOther), price, isToken2,
                           Hashes(notes), change, recv)}
SmallerLeg(notes, mine, rMatch, recv) ==
  ProveSettleSmaller(rMatch, notes, recv)
    = {<<Commit(mine, rMatch)>> \o InputSignals(Hashes(notes)) \o <<recv>>}

\* The legs of a legacy settlement: a side with more than the fill proves the fill, its change
\* and the ratio of the two legs, for the vector the chain rebuilds; a side with the fill that its
\* collateral is that (wallet.rs prove_settle_larger and prove_settle_smaller).
THEOREM LegsAreProved ==
  ASSUME NEW s, NEW price \in 1 .. MaxAmount, NEW seller \in BOOLEAN, Ready(s, price, seller),
         NEW fill \in 0 .. s.amount, fill * price <= MaxAmount,
         NEW rMy, NEW rOther, NEW rChange, NEW recv
  PROVE  LET mine == Needed(fill, price, seller)
             other == Needed(fill, price, ~seller)
             change == Commit(LockedSum(s) - mine, rChange)
         IN  /\ LargerLeg(s.locked, mine, rMy, other, rOther, price, ~seller, change, recv)
             /\ fill = s.amount => SmallerLeg(s.locked, mine, rMy, recv)
<1> DEFINE mine == Needed(fill, price, seller)
           other == Needed(fill, price, ~seller)
           worth == LockedSum(s)
           rest == worth - mine
           change == Commit(rest, rChange)
           ins == WitnessSlots(s.locked)
           inputs == Hashes(s.locked)
           f == Fills(mine, other, ~seller)
<1>1. /\ MaxAmount \in Nat /\ price \in Nat /\ s.amount \in Nat /\ fill \in Nat
      /\ fill <= s.amount /\ s.amount <= MaxAmount
  BY WidthIsInt DEF Ready
<1>2. /\ fill * price \in Nat /\ s.amount * price \in Nat /\ fill * price <= s.amount * price
  BY <1>1, ProductGrows
<1>3. /\ worth = (IF seller THEN s.amount ELSE s.amount * price) /\ worth <= MaxAmount
      /\ worth = NotesWorth(s.locked) /\ Fitting(s.locked)
  <2>1. LockedSum(s) = NotesWorth(s.locked)
    BY SideSlots DEF NotesWorth
  <2>2. QED
    BY <2>1 DEF Ready, Needed, Scale
<1>4. /\ mine = (IF seller THEN fill ELSE fill * price)
      /\ other = (IF seller THEN fill * price ELSE fill)
  BY DEF Needed, Scale
<1>5. /\ Total(PadTo(Amounts(s.locked), 0)) = worth /\ Sum64(s.locked) = worth
  BY <1>3, SumOf DEF NotesWorth
<1>6. Total(ins.amounts) = worth
  BY <1>5 DEF WitnessSlots
<1>7. VerifyAmounts(ins) /\ ins.hashes = InputSignals(inputs)
  BY <1>3, WitnessOpens
<1>8. f[1] = fill /\ f[2] = fill * price
  BY <1>4 DEF Fills
<1> HIDE DEF mine, other, worth, ins, inputs, f
<1>9. /\ worth \in Nat /\ mine \in 0 .. MaxAmount /\ other \in 0 .. MaxAmount
      /\ mine <= worth /\ rest \in 0 .. MaxAmount /\ worth - rest = mine
      /\ fill = s.amount => mine = worth
  <2>1. CASE seller
    BY <1>1, <1>2, <1>3, <1>4, <2>1
  <2>2. CASE ~seller
    BY <1>1, <1>2, <1>3, <1>4, <2>2
  <2>3. QED
    BY <2>1, <2>2
<1>10. change[1] = rest
  BY DEF Commit
<1> HIDE DEF rest, change
<1>11. Fits(s.locked)
  BY <1>3 DEF Fitting
<1>12. /\ Sum64(s.locked) - change[1] = mine /\ Sum64(s.locked) >= change[1]
       /\ Total(ins.amounts) - change[1] = mine
       /\ f[2] = f[1] * price /\ f[2] <= MaxAmount
       /\ {change[1], other} \subseteq 0 .. MaxAmount
  <2>1. worth >= rest
    BY <1>1, <1>9 DEF rest
  <2>2. QED
    BY <1>5, <1>6, <1>8, <1>9, <1>10, <2>1
<1>13. ProveSettleLarger(rMy, other, rOther, price, ~seller, s.locked, change, recv)
         = {<<Commit(mine, rMy), Commit(other, rOther), price, ~seller>> \o ins.hashes
            \o <<change, recv>>}
  BY <1>7, <1>11, <1>12 DEF ProveSettleLarger, ins, f
<1>14. ProveSettleLarger(rMy, other, rOther, price, ~seller, s.locked, change, recv)
         = {SettleLargerSignals(Commit(mine, rMy), Commit(other, rOther), price, ~seller, inputs,
                                change, recv)}
  BY <1>7, <1>13 DEF SettleLargerSignals
<1>15. ASSUME fill = s.amount
       PROVE  ProveSettleSmaller(rMy, s.locked, recv)
                = {<<Commit(mine, rMy)>> \o InputSignals(inputs) \o <<recv>>}
  <2>1. Sum64(s.locked) = mine /\ Total(ins.amounts) = Sum64(s.locked)
    BY <1>5, <1>6, <1>9, <1>15
  <2>2. QED
    BY <1>7, <1>11, <2>1 DEF ProveSettleSmaller, ins
<1>16. QED
  BY <1>14, <1>15 DEF LargerLeg, SmallerLeg, mine, other, worth, rest, change, inputs
=============================================================================
