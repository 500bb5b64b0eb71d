---------------------------- MODULE WalletProofs ----------------------------
(***************************************************************************)
(* What holds of a wallet for every cash file, every number of requests,    *)
(* settlements and crashes, and every width of the amounts.                 *)
(***************************************************************************)
EXTENDS TraderWallet, ProverProofs, FunctionTheorems, FiniteSetTheorems

-----------------------------------------------------------------------------
(* Lists in an order, and parts of lists. *)

\* A rank without ties takes every value.
LEMMA RankOnto ==
  ASSUME NEW S, IsFiniteSet(S), NEW rank \in [S -> 0 .. Cardinality(S) - 1],
         \A i, j \in S : rank[i] = rank[j] => i = j
  PROVE  \A k \in 1 .. Cardinality(S) : \E i \in S : rank[i] = k - 1
<1> DEFINE n == Cardinality(S)
           T == 0 .. n - 1
<1>1. n \in Nat
  BY FS_CardinalityType
<1>2. IsFiniteSet(T) /\ Cardinality(T) = n
  <2>1. 0 \in Int /\ n - 1 \in Int /\ (0 > n - 1 => n = 0)
    BY <1>1
  <2> HIDE DEF n
  <2>2. QED
    BY <1>1, <2>1, FS_Interval
<1>3. \A k \in 1 .. n : k - 1 \in T
  BY <1>1
<1>4. rank \in [S -> T]
  OBVIOUS
<1> HIDE DEF T, n
<1>5. rank \in Injection(S, T)
  BY <1>4, Fun_IsInj
<1>6. rank \in Surjection(S, T)
  BY <1>2, <1>5, FS_Injection DEF n
<1>7. \A r \in T : \E i \in S : rank[i] = r
  BY <1>6, Fun_SurjectionProperties
<1>8. QED
  BY <1>3, <1>7 DEF n

\* InOrder lists the members of a finite set that R orders, each once.
LEMMA InOrderLists ==
  ASSUME NEW S, IsFiniteSet(S), NEW R,
         \A i, j \in S : i # j => <<i, j>> \in R \/ <<j, i>> \in R,
         \A i \in S : <<i, i>> \notin R,
         \A i, j, k \in S : <<i, j>> \in R /\ <<j, k>> \in R => <<i, k>> \in R
  PROVE  /\ Cardinality(S) \in Nat
         /\ InOrder(S, R) \in [1 .. Cardinality(S) -> S]
         /\ \A i \in S : \E k \in 1 .. Cardinality(S) : InOrder(S, R)[k] = i
         /\ \A k, l \in 1 .. Cardinality(S) : k # l => InOrder(S, R)[k] # InOrder(S, R)[l]
<1> DEFINE n == Cardinality(S)
           Below(i) == {j \in S : <<j, i>> \in R}
           rank == [i \in S |-> Cardinality(Below(i))]
<1>1. n \in Nat
  BY FS_CardinalityType
<1>2. ASSUME NEW i \in S
      PROVE  IsFiniteSet(Below(i)) /\ rank[i] \in 0 .. n - 1
  <2> DEFINE B == Below(i)
  <2>1. IsFiniteSet(S \ {i}) /\ Cardinality(S \ {i}) = n - 1 /\ B \in SUBSET (S \ {i})
    BY FS_RemoveElement
  <2>2. rank[i] = Cardinality(B)
    OBVIOUS
  <2> HIDE DEF B
  <2>3. IsFiniteSet(B) /\ Cardinality(B) <= n - 1 /\ Cardinality(B) \in Nat
    BY <2>1, FS_Subset, FS_CardinalityType
  <2>4. rank[i] \in 0 .. n - 1
    BY <1>1, <2>2, <2>3
  <2>5. QED
    BY <2>3, <2>4 DEF B
<1>3. ASSUME NEW i \in S, NEW j \in S, <<i, j>> \in R
      PROVE  rank[i] < rank[j]
  <2> DEFINE B == Below(i)
             C == Below(j)
  <2>1. B \cup {i} \in SUBSET C /\ i \notin B
    BY <1>3
  <2>2. /\ rank[i] = Cardinality(B) /\ rank[j] = Cardinality(C)
        /\ IsFiniteSet(B) /\ IsFiniteSet(C)
    BY <1>2
  <2> HIDE DEF B, C, rank
  <2>3. Cardinality(B \cup {i}) = Cardinality(B) + 1 /\ Cardinality(B) \in Nat
    BY <2>1, <2>2, FS_AddElement, FS_CardinalityType
  <2>4. Cardinality(B \cup {i}) <= Cardinality(C) /\ Cardinality(C) \in Nat
    BY <2>1, <2>2, FS_Subset, FS_CardinalityType
  <2>5. QED
    BY <2>2, <2>3, <2>4
<1>4. rank \in [S -> 0 .. n - 1]
  BY <1>2
<1>5. \A i \in S : rank[i] = Cardinality(Below(i))
  OBVIOUS
<1> HIDE DEF rank
<1>6. \A i, j \in S : rank[i] = rank[j] => i = j
  <2> SUFFICES ASSUME NEW i \in S, NEW j \in S, i # j PROVE rank[i] # rank[j]
    OBVIOUS
  <2>1. rank[i] < rank[j] \/ rank[j] < rank[i]
    BY <1>3
  <2>2. rank[i] \in Int /\ rank[j] \in Int
    BY <1>1, <1>4
  <2>3. QED
    BY <2>1, <2>2
<1>7. \A k \in 1 .. n : \E i \in S : rank[i] = k - 1
  BY <1>4, <1>6, RankOnto
<1> DEFINE f == InOrder(S, R)
<1>8. f = [k \in 1 .. n |-> CHOOSE i \in S : Cardinality(Below(i)) = k - 1]
  BY Zenon DEF InOrder
<1>9. ASSUME NEW k \in 1 .. n
      PROVE  f[k] \in S /\ rank[f[k]] = k - 1
  <2>1. \E i \in S : Cardinality(Below(i)) = k - 1
    BY <1>5, <1>7
  <2>2. f[k] = CHOOSE i \in S : Cardinality(Below(i)) = k - 1
    BY <1>8
  <2> HIDE DEF f
  <2>3. f[k] \in S /\ Cardinality(Below(f[k])) = k - 1
    BY <2>1, <2>2
  <2>4. QED
    BY <1>5, <2>3
<1>10. DOMAIN f = 1 .. n /\ f = [k \in 1 .. n |-> f[k]]
  BY <1>8
<1> HIDE DEF f
<1>11. \A i \in S : \E k \in 1 .. n : f[k] = i
  <2> SUFFICES ASSUME NEW i \in S PROVE \E k \in 1 .. n : f[k] = i
    OBVIOUS
  <2>1. rank[i] \in 0 .. n - 1
    BY <1>4
  <2>2. rank[i] + 1 \in 1 .. n /\ (rank[i] + 1) - 1 = rank[i]
    BY <1>1, <2>1
  <2>3. f[rank[i] + 1] \in S /\ rank[f[rank[i] + 1]] = rank[i]
    BY <1>9, <2>2
  <2>4. QED
    BY <1>6, <2>2, <2>3
<1>12. \A k, l \in 1 .. n : k # l => f[k] # f[l]
  BY <1>1, <1>9
<1>13. f \in [1 .. n -> S]
  BY <1>9, <1>10
<1>14. QED
  BY <1>1, <1>11, <1>12, <1>13 DEF f

\* At keeps the elements at the positions, in order, each once.
LEMMA AtKeeps ==
  ASSUME NEW T, NEW s \in Seq(T), NEW I \in SUBSET DOMAIN s
  PROVE  /\ At(s, I) \in Seq(T)
         /\ ToSet(At(s, I)) = {s[i] : i \in I}
         /\ \A k, l \in DOMAIN At(s, I) :
              k # l => \E i, j \in I : i # j /\ At(s, I)[k] = s[i] /\ At(s, I)[l] = s[j]
<1> DEFINE R == {p \in I \X I : p[1] < p[2]}
           f == InOrder(I, R)
           n == Cardinality(I)
<1>1. DOMAIN s = 1 .. Len(s) /\ Len(s) \in Nat /\ \A i \in DOMAIN s : s[i] \in T
  BY LenProperties
<1>2. IsFiniteSet(I)
  <2>1. IsFiniteSet(1 .. Len(s)) /\ I \in SUBSET (1 .. Len(s))
    BY <1>1, FS_Interval
  <2>2. QED
    BY <2>1, FS_Subset
<1>3. I \subseteq Nat
  BY <1>1
<1>4. \A i, j \in I : <<i, j>> \in R <=> i < j
  BY <1>3
<1>5. /\ n \in Nat
      /\ f \in [1 .. n -> I]
      /\ \A i \in I : \E k \in 1 .. n : f[k] = i
      /\ \A k, l \in 1 .. n : k # l => f[k] # f[l]
  <2>1. /\ \A i, j \in I : i # j => <<i, j>> \in R \/ <<j, i>> \in R
        /\ \A i \in I : <<i, i>> \notin R
        /\ \A i, j, k \in I : <<i, j>> \in R /\ <<j, k>> \in R => <<i, k>> \in R
    BY <1>3, <1>4
  <2> HIDE DEF R
  <2>2. QED
    BY <1>2, <2>1, InOrderLists
<1>6. At(s, I) = [k \in 1 .. n |-> s[f[k]]]
  <2>1. DOMAIN f = 1 .. n
    BY <1>5
  <2>2. QED
    BY <2>1 DEF At
<1> HIDE DEF f, n
<1>7. At(s, I) \in Seq(T)
  <2>1. At(s, I) \in [1 .. n -> T]
    BY <1>1, <1>5, <1>6
  <2>2. QED
    BY <1>5, <2>1, SeqDef
<1>8. ToSet(At(s, I)) = {s[i] : i \in I}
  BY <1>5, <1>6 DEF ToSet
<1>9. \A k, l \in DOMAIN At(s, I) :
        k # l => \E i, j \in I : i # j /\ At(s, I)[k] = s[i] /\ At(s, I)[l] = s[j]
  <2> SUFFICES ASSUME NEW k \in 1 .. n, NEW l \in 1 .. n, k # l
               PROVE  \E i, j \in I : i # j /\ At(s, I)[k] = s[i] /\ At(s, I)[l] = s[j]
    BY <1>6
  <2>1. f[k] \in I /\ f[l] \in I /\ f[k] # f[l] /\ At(s, I)[k] = s[f[k]] /\ At(s, I)[l] = s[f[l]]
    BY <1>5, <1>6
  <2>2. QED
    BY <2>1
<1>10. QED
  BY <1>7, <1>8, <1>9

-----------------------------------------------------------------------------
(* The inductive invariant. *)

Cashes == [owner: {Me}, token: {Token1, Token2}, amt: 1 .. MaxAmount, r: 1 .. MaxDraws]
Commitments == (1 .. MaxAmount) \X (1 .. MaxDraws)
RecordRow ==
  [cash: Cashes, status: {"Active", "Locked", "Spent"}, order: {NoOpening} \cup Commitments]

\* No two elements are of one cash.
Distinct(recs) == \A i, j \in DOMAIN recs : i # j => recs[i].cash # recs[j].cash
Different(cs) == \A i, j \in DOMAIN cs : i # j => cs[i] # cs[j]

\* What one or two cash are worth.
Worth2(cs) == cs[1].amt + IF Len(cs) = 2 THEN cs[2].amt ELSE 0
InputList(cs) == cs \in Seq(Cashes) /\ Len(cs) \in 1 .. 2 /\ Different(cs)

\* A request draws its blindings from one block of three, that of its order the first.
RequestOK(q) ==
  /\ q.id = q.ins /\ q.side \in Sides /\ q.price \in 1 .. MaxAmount /\ q.amount \in Commitments
  /\ InputList(q.ins) /\ \A c \in ToSet(q.ins) : c.r < q.amount[2]
  /\ \/ q.outs = << >>
     \/ /\ q.outs \in Seq(Cashes) /\ Len(q.outs) = 2 /\ Different(q.outs)
        /\ \A c \in ToSet(q.outs) : c.r \in q.amount[2] .. q.amount[2] + 2
  /\ Worth2(LockedBy(q)) = Scale(q.amount[1], q.price, q.side = "Buy")
  /\ Worth2(LockedBy(q)) <= MaxAmount

\* What a request pays with: the inputs, and the cash it locks of its outputs.
Paid(q) == ToSet(q.ins) \cup {q.outs[i] : i \in DOMAIN q.outs \ {2}}
Named(q) == ToSet(q.ins) \cup ToSet(q.outs)

OrderRow ==
  [side: Sides, price: 1 .. MaxAmount, amount: Commitments, req: requests,
   inputs: Seq(Cashes), open: BOOLEAN]

RecordsOK(recs) ==
  recs \in Seq(RecordRow) /\ Distinct(recs) /\ \A c \in CashOf(recs) : c.r <= draws

RequestsOK ==
  /\ \A q \in requests : RequestOK(q) /\ Len(Genesis) < q.amount[2] /\ q.amount[2] + 2 <= draws
  /\ \A p, q \in requests :
       p = q \/ p.amount[2] + 3 <= q.amount[2] \/ q.amount[2] + 3 <= p.amount[2]
  /\ pool \subseteq requests /\ reported \subseteq requests
  /\ form \subseteq [sent: BOOLEAN, req: requests \ reported]
  /\ \A f \in form :
       /\ \A g \in form : g = f
       /\ \A q \in requests : q.amount[2] <= f.req.amount[2]
  /\ \A o \in own : \E q \in reported : q.id = o

OrdersOK ==
  \A o \in DOMAIN orders :
    /\ orders[o] \in OrderRow
    /\ orders[o].req.id = o
    /\ InputList(orders[o].inputs)
    /\ Worth2(orders[o].inputs)
         = Scale(orders[o].amount[1], orders[o].price, orders[o].side = "Buy")
    /\ Worth2(orders[o].inputs) <= MaxAmount

\* What a settlement leaves to book is in neither store.
WitnessOK ==
  \A w \in witness :
    /\ w.order \in DOMAIN orders
    /\ w.add \in Seq(RecordRow) /\ Len(w.add) \in 1 .. 2 /\ Distinct(w.add)
    /\ \A c \in CashOf(w.add) :
         /\ Len(Genesis) < c.r /\ c.r <= draws
         /\ c \notin CashOf(records) \cup CashOf(saved)
    /\ \A v \in witness : v = w

WalletTyped ==
  /\ draws \in Nat /\ Len(Genesis) <= draws /\ draws <= MaxDraws
  /\ DOMAIN cash \subseteq Cashes /\ \A c \in DOMAIN cash : c.r <= draws
  /\ RecordsOK(records) /\ RecordsOK(saved)
  /\ RequestsOK /\ OrdersOK /\ WitnessOK

\* The rows of cs are not Active; c is held with the opening of the order it is locked for.
Closed(rows, cs) == \A e \in rows : e.cash \in cs => e.status # "Active"
Carries(rows, c, opening) ==
  \E e \in rows : e.cash = c /\ e.order = opening /\ e.status # "Active"

\* The rows are as if q had been executed.
Staging(rows, q) ==
  /\ Closed(rows, Paid(q))
  /\ \A c \in Named(q) : \E e \in rows : e.cash = c
  /\ \A c \in ToSet(LockedBy(q)) : Carries(rows, c, q.amount)

StoresOK ==
  /\ \A q \in reported : Staging(ToSet(records), q) /\ Staging(ToSet(saved), q)
  /\ \A f \in form : Staging(ToSet(records), f.req)
  /\ \A f \in form, q \in reported : ToSet(f.req.ins) \cap Paid(q) = {}
  /\ \A c \in CashOf(saved) :
       c \in CashOf(records)
       \/ \E q \in requests \ reported : (\A f \in form : f.req # q) /\ c \in ToSet(q.outs)

GenesisHeld ==
  IF requests = {}
  THEN /\ DOMAIN cash = ToSet(Genesis) /\ records = saved
       /\ saved = << >> \/ CashOf(saved) = ToSet(Genesis)
  ELSE /\ ToSet(Genesis) # {}
       /\ ToSet(Genesis) \subseteq CashOf(records) \cap CashOf(saved)

\* An open order whose request was or may be reported: as it was placed, or with the remainder
\* of a settlement, not booked yet or carried by both stores.
AsPlaced(o) == orders[o].inputs = LockedBy(orders[o].req) /\ orders[o].amount = orders[o].req.amount
ToBook(o) ==
  \E w \in witness : /\ w.order = o /\ Len(w.add) = 2
                     /\ w.add[2] = Record(orders[o].inputs[1], "Locked", orders[o].amount)
Kept(o) ==
  LET c == orders[o].inputs[1] IN
  /\ Carries(ToSet(records), c, orders[o].amount) /\ Carries(ToSet(saved), c, orders[o].amount)
  /\ \A f \in form : c \notin Named(f.req)
OrdersHeld ==
  \A o \in DOMAIN orders : orders[o].open =>
    /\ orders[o].req \in reported =>
         AsPlaced(o) \/ (Len(orders[o].inputs) = 1 /\ (ToBook(o) \/ Kept(o)))
    /\ (\E f \in form : f.req = orders[o].req) => AsPlaced(o)

WalletHeld == StoresOK /\ GenesisHeld /\ OrdersHeld /\ CashIsAccounted
WalletSound == WalletTyped /\ WalletHeld

-----------------------------------------------------------------------------
(* The records by their rows. *)

MarkRow(d, cs, status) == IF d.cash \in cs THEN [d EXCEPT !.status = status] ELSE d
StagedRow(d, q) ==
  IF d.cash \notin ToSet(q.ins) THEN d
  ELSE IF q.outs = << >> THEN Record(d.cash, "Locked", q.amount)
       ELSE [d EXCEPT !.status = "Spent"]
StagedNew(q) ==
  IF q.outs = << >> THEN {}
  ELSE {Record(q.outs[1], "Locked", q.amount), Record(q.outs[2], "Active", NoOpening)}

\* The rows of a list and the cash they are of.
LEMMA RowsOf ==
  ASSUME NEW recs \in Seq(RecordRow)
  PROVE  /\ DOMAIN recs = 1 .. Len(recs) /\ Len(recs) \in Nat
         /\ \A i \in DOMAIN recs : recs[i] \in RecordRow
         /\ ToSet(recs) \subseteq RecordRow
         /\ CashOf(recs) = {e.cash : e \in ToSet(recs)}
         /\ CashOf(recs) \subseteq Cashes
<1>1. /\ DOMAIN recs = 1 .. Len(recs) /\ Len(recs) \in Nat
      /\ \A i \in DOMAIN recs : recs[i] \in RecordRow
  BY LenProperties
<1>2. QED
  BY <1>1 DEF ToSet, CashOf, RecordRow

\* Marking touches the status of the rows of cs.
LEMMA MarkedRows ==
  ASSUME NEW recs \in Seq(RecordRow), NEW cs, NEW status \in {"Active", "Locked", "Spent"}
  PROVE  /\ Marked(recs, cs, status) \in Seq(RecordRow)
         /\ DOMAIN Marked(recs, cs, status) = DOMAIN recs
         /\ \A i \in DOMAIN recs : Marked(recs, cs, status)[i] = MarkRow(recs[i], cs, status)
         /\ ToSet(Marked(recs, cs, status)) = {MarkRow(d, cs, status) : d \in ToSet(recs)}
         /\ CashOf(Marked(recs, cs, status)) = CashOf(recs)
         /\ Distinct(recs) => Distinct(Marked(recs, cs, status))
<1> DEFINE m == Marked(recs, cs, status)
<1>1. \A i \in DOMAIN recs : recs[i] \in RecordRow /\ MarkRow(recs[i], cs, status) \in RecordRow
                             /\ MarkRow(recs[i], cs, status).cash = recs[i].cash
  <2>1. \A i \in DOMAIN recs : recs[i] \in RecordRow
    BY RowsOf
  <2>2. \A d \in RecordRow : MarkRow(d, cs, status) \in RecordRow
                             /\ MarkRow(d, cs, status).cash = d.cash
    BY DEF MarkRow, RecordRow
  <2>3. QED
    BY <2>1, <2>2
<1>2. m = [i \in DOMAIN recs |-> MarkRow(recs[i], cs, status)]
  BY DEF Marked, MarkRow
<1>3. m \in Seq(RecordRow)
  <2>1. Len(recs) \in Nat /\ m \in [1 .. Len(recs) -> RecordRow]
    BY <1>1, <1>2, RowsOf
  <2>2. QED
    BY <2>1, SeqDef
<1> HIDE DEF m
<1>4. QED
  BY <1>1, <1>2, <1>3 DEF ToSet, CashOf, Distinct, m

\* Two lists one after the other.
LEMMA ConcatRows ==
  ASSUME NEW s \in Seq(RecordRow), NEW t \in Seq(RecordRow)
  PROVE  /\ s \o t \in Seq(RecordRow)
         /\ ToSet(s \o t) = ToSet(s) \cup ToSet(t)
         /\ CashOf(s \o t) = CashOf(s) \cup CashOf(t)
         /\ Distinct(s) /\ Distinct(t) /\ CashOf(s) \cap CashOf(t) = {} => Distinct(s \o t)
<1> DEFINE u == s \o t
           m == Len(s)
           n == Len(t)
<1>1. /\ m \in Nat /\ n \in Nat /\ DOMAIN s = 1 .. m /\ DOMAIN t = 1 .. n
      /\ u \in Seq(RecordRow) /\ DOMAIN u = 1 .. m + n
      /\ \A i \in 1 .. m + n : u[i] = IF i <= m THEN s[i] ELSE t[i - m]
  BY LenProperties, ConcatProperties
<1> HIDE DEF u, m, n
<1>2. \A i \in DOMAIN u : \/ i \in DOMAIN s /\ u[i] = s[i]
                          \/ i - m \in DOMAIN t /\ u[i] = t[i - m] /\ i \notin DOMAIN s
  BY <1>1
<1>3. /\ \A i \in DOMAIN s : i \in DOMAIN u /\ u[i] = s[i]
      /\ \A i \in DOMAIN t : i + m \in DOMAIN u /\ u[i + m] = t[i]
  BY <1>1
<1>4. ToSet(u) = ToSet(s) \cup ToSet(t)
  BY <1>2, <1>3 DEF ToSet
<1>5. CashOf(u) = CashOf(s) \cup CashOf(t)
  BY <1>2, <1>3 DEF CashOf
<1>6. ASSUME Distinct(s), Distinct(t), CashOf(s) \cap CashOf(t) = {}
      PROVE  Distinct(u)
  <2> SUFFICES ASSUME NEW i \in DOMAIN u, NEW j \in DOMAIN u, i # j
               PROVE  u[i].cash # u[j].cash
    BY DEF Distinct
  <2>1. CASE i \in DOMAIN s /\ j \in DOMAIN s
    BY <1>2, <1>3, <1>6, <2>1 DEF Distinct
  <2>2. CASE i \notin DOMAIN s /\ j \notin DOMAIN s
    <3>1. i - m \in DOMAIN t /\ j - m \in DOMAIN t /\ i - m # j - m
          /\ u[i] = t[i - m] /\ u[j] = t[j - m]
      BY <1>1, <1>2, <2>2
    <3>2. QED
      BY <1>6, <3>1 DEF Distinct
  <2>3. CASE i \in DOMAIN s /\ j \notin DOMAIN s
    <3>1. u[i].cash \in CashOf(s) /\ u[j].cash \in CashOf(t)
      BY <1>2, <1>3, <2>3 DEF CashOf
    <3>2. QED
      BY <1>6, <3>1
  <2>4. CASE i \notin DOMAIN s /\ j \in DOMAIN s
    <3>1. u[j].cash \in CashOf(s) /\ u[i].cash \in CashOf(t)
      BY <1>2, <1>3, <2>4 DEF CashOf
    <3>2. QED
      BY <1>6, <3>1
  <2>5. QED
    BY <2>1, <2>2, <2>3, <2>4
<1>7. QED
  BY <1>1, <1>4, <1>5, <1>6 DEF u

\* Some of the elements of a list.
LEMMA AtRows ==
  ASSUME NEW recs \in Seq(RecordRow), NEW I \in SUBSET DOMAIN recs
  PROVE  /\ At(recs, I) \in Seq(RecordRow)
         /\ ToSet(At(recs, I)) = {recs[i] : i \in I}
         /\ CashOf(At(recs, I)) = {recs[i].cash : i \in I}
         /\ Distinct(recs) => Distinct(At(recs, I))
<1>1. /\ At(recs, I) \in Seq(RecordRow)
      /\ ToSet(At(recs, I)) = {recs[i] : i \in I}
      /\ \A k, l \in DOMAIN At(recs, I) :
           k # l => \E i, j \in I : i # j /\ At(recs, I)[k] = recs[i] /\ At(recs, I)[l] = recs[j]
  BY AtKeeps
<1> DEFINE a == At(recs, I)
<1> HIDE DEF a
<1>2. CashOf(a) = {e.cash : e \in ToSet(a)}
  BY <1>1, RowsOf DEF a
<1>3. CashOf(a) = {recs[i].cash : i \in I}
  BY <1>1, <1>2 DEF a
<1>4. ASSUME Distinct(recs)
      PROVE  Distinct(a)
  <2> SUFFICES ASSUME NEW k \in DOMAIN a, NEW l \in DOMAIN a, k # l
               PROVE  a[k].cash # a[l].cash
    BY DEF Distinct
  <2>1. PICK i \in I, j \in I : i # j /\ a[k] = recs[i] /\ a[l] = recs[j]
    BY <1>1 DEF a
  <2>2. QED
    BY <1>4, <2>1 DEF Distinct
<1>5. QED
  BY <1>1, <1>3, <1>4 DEF a

\* Staging a request.
LEMMA StagedRows ==
  ASSUME NEW recs \in Seq(RecordRow), NEW q, RequestOK(q)
  PROVE  /\ Staged(recs, q) \in Seq(RecordRow)
         /\ ToSet(Staged(recs, q)) = {StagedRow(d, q) : d \in ToSet(recs)} \cup StagedNew(q)
         /\ CashOf(Staged(recs, q)) = CashOf(recs) \cup ToSet(q.outs)
         /\ Distinct(recs) /\ ToSet(q.outs) \cap CashOf(recs) = {} => Distinct(Staged(recs, q))
<1>1. q.amount \in Commitments
  BY DEF RequestOK
<1>2. \A i \in DOMAIN recs : recs[i] \in RecordRow
  BY RowsOf
<1>3. CASE q.outs = << >>
  <2> DEFINE m == Staged(recs, q)
  <2>1. m = [i \in DOMAIN recs |-> StagedRow(recs[i], q)]
    BY <1>3 DEF Staged, StagedRow
  <2>2. \A i \in DOMAIN recs :
          StagedRow(recs[i], q) \in RecordRow /\ StagedRow(recs[i], q).cash = recs[i].cash
    BY <1>1, <1>2, <1>3 DEF StagedRow, RecordRow, Record
  <2>3. m \in Seq(RecordRow)
    <3>1. Len(recs) \in Nat /\ m \in [1 .. Len(recs) -> RecordRow]
      BY <2>1, <2>2, RowsOf
    <3>2. QED
      BY <3>1, SeqDef
  <2> HIDE DEF m
  <2>4. ToSet(q.outs) = {} /\ StagedNew(q) = {}
    BY <1>3 DEF ToSet, StagedNew
  <2>5. ToSet(m) = {StagedRow(d, q) : d \in ToSet(recs)}
    BY <2>1 DEF ToSet
  <2>6. CashOf(m) = CashOf(recs) /\ (Distinct(recs) => Distinct(m))
    BY <2>1, <2>2 DEF CashOf, Distinct
  <2>7. QED
    BY <2>3, <2>4, <2>5, <2>6 DEF m
<1>4. CASE q.outs # << >>
  <2> DEFINE m == Marked(recs, ToSet(q.ins), "Spent")
             a == Record(q.outs[1], "Locked", q.amount)
             b == Record(q.outs[2], "Active", NoOpening)
  <2>1. /\ q.outs \in Seq(Cashes) /\ Len(q.outs) = 2 /\ DOMAIN q.outs = 1 .. 2
        /\ q.outs[1] \in Cashes /\ q.outs[2] \in Cashes /\ q.outs[1] # q.outs[2]
        /\ ToSet(q.outs) = {q.outs[1], q.outs[2]}
    <3>1. q.outs \in Seq(Cashes) /\ Len(q.outs) = 2 /\ Different(q.outs)
      BY <1>4 DEF RequestOK
    <3>2. DOMAIN q.outs = 1 .. 2
      BY <3>1, LenProperties
    <3>3. 1 .. 2 = {1, 2}
      OBVIOUS
    <3>4. q.outs[1] \in Cashes /\ q.outs[2] \in Cashes
      BY <3>1, <3>2, <3>3, ElementOfSeq
    <3>5. QED
      BY <3>1, <3>2, <3>3, <3>4 DEF Different, ToSet
  <2>2. a \in RecordRow /\ b \in RecordRow /\ a.cash = q.outs[1] /\ b.cash = q.outs[2]
    BY <1>1, <2>1 DEF Record, RecordRow
  <2>3. Staged(recs, q) = m \o <<a, b>> /\ StagedNew(q) = {a, b}
    BY <1>4 DEF Staged, StagedNew
  <2>4. /\ <<a, b>> \in Seq(RecordRow) /\ ToSet(<<a, b>>) = {a, b}
        /\ CashOf(<<a, b>>) = ToSet(q.outs) /\ Distinct(<<a, b>>)
    <3> HIDE DEF a, b
    <3>1. <<a, b>> \in Seq(RecordRow) /\ DOMAIN <<a, b>> = {1, 2}
      BY <2>2
    <3>2. QED
      BY <2>1, <2>2, <3>1 DEF ToSet, CashOf, Distinct
  <2>5. /\ m \in Seq(RecordRow) /\ CashOf(m) = CashOf(recs) /\ (Distinct(recs) => Distinct(m))
        /\ ToSet(m) = {StagedRow(d, q) : d \in ToSet(recs)}
    <3>1. \A d : StagedRow(d, q) = MarkRow(d, ToSet(q.ins), "Spent")
      BY <1>4 DEF StagedRow, MarkRow
    <3>2. QED
      BY <3>1, MarkedRows
  <2> DEFINE t == <<a, b>>
  <2> HIDE DEF m, a, b
  <2>6. /\ t \in Seq(RecordRow) /\ ToSet(t) = StagedNew(q) /\ CashOf(t) = ToSet(q.outs)
        /\ Distinct(t) /\ Staged(recs, q) = m \o t
    BY <2>3, <2>4
  <2> HIDE DEF t
  <2>7. /\ m \o t \in Seq(RecordRow) /\ ToSet(m \o t) = ToSet(m) \cup ToSet(t)
        /\ CashOf(m \o t) = CashOf(m) \cup CashOf(t)
        /\ Distinct(m) /\ Distinct(t) /\ CashOf(m) \cap CashOf(t) = {} => Distinct(m \o t)
    BY <2>5, <2>6, ConcatRows
  <2>8. QED
    BY <2>5, <2>6, <2>7
<1>5. QED
  BY <1>3, <1>4

\* Rolling a request back.
LEMMA RolledBackRows ==
  ASSUME NEW recs \in Seq(RecordRow), NEW q
  PROVE  /\ RolledBack(recs, q) \in Seq(RecordRow)
         /\ ToSet(RolledBack(recs, q)) =
              {MarkRow(d, ToSet(q.ins), "Active") :
                 d \in {d \in ToSet(recs) : d.cash \notin ToSet(q.outs)}}
         /\ CashOf(RolledBack(recs, q)) = CashOf(recs) \ ToSet(q.outs)
         /\ Distinct(recs) => Distinct(RolledBack(recs, q))
<1> DEFINE m == Marked(recs, ToSet(q.ins), "Active")
           I == {i \in DOMAIN recs : recs[i].cash \notin ToSet(q.outs)}
<1>1. /\ m \in Seq(RecordRow) /\ DOMAIN m = DOMAIN recs /\ (Distinct(recs) => Distinct(m))
      /\ \A i \in DOMAIN recs : m[i] = MarkRow(recs[i], ToSet(q.ins), "Active")
  BY MarkedRows
<1>2. \A i \in DOMAIN recs : m[i].cash = recs[i].cash
  BY <1>1, RowsOf DEF MarkRow, RecordRow
<1>3. RolledBack(recs, q) = At(m, I) /\ I \in SUBSET DOMAIN m
  BY <1>1 DEF RolledBack
<1> HIDE DEF m
<1>4. /\ At(m, I) \in Seq(RecordRow) /\ ToSet(At(m, I)) = {m[i] : i \in I}
      /\ CashOf(At(m, I)) = {m[i].cash : i \in I} /\ (Distinct(m) => Distinct(At(m, I)))
  BY <1>1, <1>3, AtRows
<1>5. {m[i].cash : i \in I} = CashOf(recs) \ ToSet(q.outs)
  BY <1>2 DEF CashOf
<1>6. {m[i] : i \in I} = {MarkRow(d, ToSet(q.ins), "Active") :
                            d \in {d \in ToSet(recs) : d.cash \notin ToSet(q.outs)}}
  BY <1>1 DEF ToSet
<1>7. QED
  BY <1>1, <1>3, <1>4, <1>5, <1>6

\* Booking an outcome.
LEMMA BookedRows ==
  ASSUME NEW recs \in Seq(RecordRow), NEW w, w.add \in Seq(RecordRow)
  PROVE  /\ Booked(recs, w) \in Seq(RecordRow)
         /\ ToSet(Booked(recs, w)) =
              {MarkRow(d, w.spent, "Spent") : d \in ToSet(recs)}
              \cup {e \in ToSet(w.add) : e.cash \notin CashOf(recs)}
         /\ CashOf(Booked(recs, w)) = CashOf(recs) \cup CashOf(w.add)
         /\ Distinct(recs) /\ Distinct(w.add) => Distinct(Booked(recs, w))
<1> DEFINE m == Marked(recs, w.spent, "Spent")
           I == {i \in DOMAIN w.add : w.add[i].cash \notin CashOf(recs)}
           a == At(w.add, I)
<1>1. /\ m \in Seq(RecordRow) /\ (Distinct(recs) => Distinct(m)) /\ CashOf(m) = CashOf(recs)
      /\ ToSet(m) = {MarkRow(d, w.spent, "Spent") : d \in ToSet(recs)}
  BY MarkedRows
<1>2. /\ a \in Seq(RecordRow) /\ ToSet(a) = {w.add[i] : i \in I}
      /\ CashOf(a) = {w.add[i].cash : i \in I} /\ (Distinct(w.add) => Distinct(a))
  <2>1. I \in SUBSET DOMAIN w.add
    OBVIOUS
  <2> HIDE DEF I
  <2>2. QED
    BY <2>1, AtRows
<1>3. Booked(recs, w) = m \o a
  BY DEF Booked
<1> HIDE DEF m, a
<1>4. ToSet(a) = {e \in ToSet(w.add) : e.cash \notin CashOf(recs)}
  BY <1>2 DEF ToSet
<1>5. CashOf(a) \cap CashOf(m) = {} /\ CashOf(m) \cup CashOf(a) = CashOf(recs) \cup CashOf(w.add)
  <2>1. CashOf(a) = CashOf(w.add) \ CashOf(recs)
    BY <1>2 DEF CashOf
  <2>2. QED
    BY <1>1, <2>1
<1>6. QED
  BY <1>1, <1>2, <1>3, <1>4, <1>5, ConcatRows

-----------------------------------------------------------------------------
(* What cash is worth, and the cash a request selects. *)

P == INSTANCE LedgerProofs WITH
  Trader <- {Me}, Token <- {Token1, Token2}, Blinding <- 1 .. MaxDraws,
  Genesis <- ToSet(Genesis),
  Bridged <- {}, MaxIssued <- 0, FreshOutputs <- TRUE, issued <- [t \in {} |-> 0]

\* A list has finitely many elements.
LEMMA ToSetIsFinite ==
  ASSUME NEW T, NEW s \in Seq(T)
  PROVE  IsFiniteSet(ToSet(s))
<1> DEFINE n == Len(s)
<1>1. n \in Nat /\ DOMAIN s = 1 .. n /\ s \in [1 .. n -> T]
  BY LenProperties
<1>2. IsFiniteSet(1 .. n)
  BY <1>1, FS_Interval
<1>3. s \in Surjection(1 .. n, ToSet(s))
  BY <1>1 DEF Surjection, ToSet
<1> HIDE DEF n
<1>4. QED
  BY <1>2, <1>3, FS_Surjection

\* The cash of genesis.
LEMMA GenesisCash ==
  /\ IsFiniteSet(ToSet(Genesis)) /\ ToSet(Genesis) \subseteq Cashes
  /\ Genesis \in Seq(Cashes) /\ Different(Genesis) /\ DOMAIN Genesis = 1 .. Len(Genesis)
  /\ \A c \in ToSet(Genesis) : c.r <= Len(Genesis)
  /\ Len(Genesis) \in Nat
<1> DEFINE n == Len(Genesis)
           T == [owner: {Me}, token: {Token1, Token2}, amt: 1 .. MaxAmount, r: 1 .. n]
<1>1. Genesis \in Seq(T) /\ n \in Nat /\ MaxDraws \in Nat /\ n <= MaxDraws
  <2>1. Genesis \in Seq(T)
    BY WalletAssumption
  <2>2. n \in Nat
    BY <2>1, LenProperties
  <2>3. QED
    BY <2>1, <2>2, WalletAssumption
<1>2. DOMAIN Genesis = 1 .. n /\ \A i \in 1 .. n : Genesis[i] \in T
  BY <1>1, LenProperties
<1>3. 1 .. n \subseteq 1 .. MaxDraws
  BY <1>1
<1>4. T \subseteq Cashes
  BY <1>3 DEF Cashes
<1>5. Genesis \in Seq(Cashes)
  <2>1. Genesis = [i \in 1 .. n |-> Genesis[i]]
    BY <1>1, <1>2, LenProperties
  <2>2. Genesis \in [1 .. n -> Cashes]
    BY <1>2, <1>4, <2>1
  <2> HIDE DEF n, T
  <2>3. QED
    BY <1>1, <2>2, SeqDef, Zenon
<1>6. Different(Genesis)
  BY WalletAssumption DEF Different
<1>7. ToSet(Genesis) = {Genesis[i] : i \in 1 .. n}
  BY <1>2 DEF ToSet
<1>8. IsFiniteSet(ToSet(Genesis))
  BY <1>1, ToSetIsFinite
<1>9. \A c \in T : c.r <= n
  BY <1>1
<1>10. QED
  BY <1>1, <1>2, <1>4, <1>5, <1>6, <1>7, <1>8, <1>9

\* The sums of the ledger of one trader are those of the proofs.
LEMMA SumIsLedgers == ASSUME NEW S PROVE P!Sum(S) = Ledger!Sum(S)
  BY DEF P!Sum, Ledger!Sum, P!MapThenSumSet, Ledger!MapThenSumSet, P!MapThenFoldSet,
         Ledger!MapThenFoldSet, P!AmountOf, Ledger!AmountOf

\* Both modules mean the same by a finite set.
LEMMA FiniteIsLedgers == ASSUME NEW S PROVE P!IsFiniteSet(S) = IsFiniteSet(S)
  BY DEF P!IsFiniteSet, IsFiniteSet

\* The ledger's assumptions hold of the wallet's cash.
LEMMA LedgerAssumptions == P!GenesisAssumption /\ P!FreshAssumption
<1>1. P!IsFiniteSet(ToSet(Genesis)) /\ ToSet(Genesis) \subseteq P!CashId
  BY GenesisCash, FiniteIsLedgers DEF P!CashId, Cashes
<1>2. P!GenesisAssumption
  BY <1>1 DEF P!GenesisAssumption
<1>3. P!FreshAssumption
  BY DEF P!FreshAssumption
<1>4. QED
  BY <1>2, <1>3

\* No cash, one cash, two cash.
LEMMA SumOfFew ==
  /\ Ledger!Sum({}) = 0
  /\ \A c \in Cashes : Ledger!Sum({c}) = c.amt
  /\ \A c, d \in Cashes : c # d => Ledger!Sum({c, d}) = c.amt + d.amt
<1>1. Ledger!Sum({}) = 0
  BY LedgerAssumptions, P!SumOfNone, SumIsLedgers
<1>2. ASSUME NEW c \in Cashes
      PROVE  Ledger!Sum({c}) = c.amt
  <2>1. c \in P!CashId
    BY DEF P!CashId, Cashes
  <2>2. P!Sum({c}) = c.amt
    BY <2>1, LedgerAssumptions, P!SumOfOne
  <2>3. QED
    BY <2>2, SumIsLedgers
<1>3. ASSUME NEW c \in Cashes, NEW d \in Cashes, c # d
      PROVE  Ledger!Sum({c, d}) = c.amt + d.amt
  <2>1. {c} \subseteq P!CashId /\ d \in P!CashId /\ d \notin {c} /\ c.amt \in Nat /\ d.amt \in Nat
    BY <1>3 DEF P!CashId, Cashes
  <2>2. P!IsFiniteSet({c})
    BY FiniteIsLedgers, FS_Singleton
  <2>3. P!Sum({c} \cup {d}) = P!Sum({c}) + d.amt
    BY <2>1, <2>2, LedgerAssumptions, P!SumAdds
  <2>4. {c} \cup {d} = {c, d}
    OBVIOUS
  <2>5. QED
    BY <1>2, <2>3, <2>4, SumIsLedgers
<1>4. QED
  BY <1>1, <1>2, <1>3

\* A list of one or two.
LEMMA FewElements ==
  ASSUME NEW T, NEW cs \in Seq(T), Len(cs) \in 1 .. 2
  PROVE  /\ cs[1] \in T /\ 1 \in DOMAIN cs
         /\ Len(cs) = 1 => DOMAIN cs = {1} /\ ToSet(cs) = {cs[1]}
         /\ Len(cs) = 2 => DOMAIN cs = {1, 2} /\ ToSet(cs) = {cs[1], cs[2]} /\ cs[2] \in T
<1>1. DOMAIN cs = 1 .. Len(cs) /\ \A i \in DOMAIN cs : cs[i] \in T
  BY LenProperties
<1>2. 1 .. 1 = {1} /\ 1 .. 2 = {1, 2}
  OBVIOUS
<1>3. Len(cs) = 1 \/ Len(cs) = 2
  OBVIOUS
<1>4. QED
  BY <1>1, <1>2, <1>3 DEF ToSet

\* What one or two different cash are worth.
LEMMA WorthIsWorth2 ==
  ASSUME NEW cs, InputList(cs)
  PROVE  Worth(cs) = Worth2(cs) /\ Worth2(cs) \in Nat \ {0}
<1>1. cs \in Seq(Cashes) /\ Len(cs) \in 1 .. 2 /\ Different(cs)
  BY DEF InputList
<1>2. /\ cs[1] \in Cashes /\ 1 \in DOMAIN cs
      /\ Len(cs) = 1 => DOMAIN cs = {1} /\ ToSet(cs) = {cs[1]}
      /\ Len(cs) = 2 => DOMAIN cs = {1, 2} /\ ToSet(cs) = {cs[1], cs[2]} /\ cs[2] \in Cashes
  BY <1>1, FewElements
<1>3. \A c \in Cashes : c.amt \in Nat \ {0}
  BY DEF Cashes
<1>4. CASE Len(cs) = 1
  BY <1>2, <1>3, <1>4, SumOfFew DEF Worth, Worth2
<1>5. CASE Len(cs) = 2
  <2>1. cs[1] # cs[2]
    BY <1>1, <1>2, <1>5 DEF Different
  <2>2. Worth(cs) = cs[1].amt + cs[2].amt
    BY <1>2, <1>5, <2>1, SumOfFew DEF Worth
  <2>3. cs[1].amt \in Nat \ {0} /\ cs[2].amt \in Nat \ {0}
    BY <1>2, <1>3, <1>5
  <2>4. Worth2(cs) = cs[1].amt + cs[2].amt
    BY <1>5 DEF Worth2
  <2>5. QED
    BY <2>2, <2>3, <2>4
<1>6. QED
  BY <1>1, <1>4, <1>5

\* Parts of a list without repetition.
LEMMA AtDifferent ==
  ASSUME NEW s \in Seq(Cashes), NEW I \in SUBSET DOMAIN s, Different(s)
  PROVE  At(s, I) \in Seq(Cashes) /\ Different(At(s, I)) /\ ToSet(At(s, I)) = {s[i] : i \in I}
<1>1. /\ At(s, I) \in Seq(Cashes)
      /\ ToSet(At(s, I)) = {s[i] : i \in I}
      /\ \A k, l \in DOMAIN At(s, I) :
           k # l => \E i, j \in I : i # j /\ At(s, I)[k] = s[i] /\ At(s, I)[l] = s[j]
  BY AtKeeps
<1> DEFINE a == At(s, I)
<1> HIDE DEF a
<1>2. ASSUME NEW k \in DOMAIN a, NEW l \in DOMAIN a, k # l
      PROVE  a[k] # a[l]
  <2>1. PICK i \in I, j \in I : i # j /\ a[k] = s[i] /\ a[l] = s[j]
    BY <1>1, <1>2 DEF a
  <2>2. QED
    BY <2>1 DEF Different
<1>3. QED
  BY <1>1, <1>2 DEF Different, a

\* One element of a list without repetition.
LEMMA FirstOf ==
  ASSUME NEW s \in Seq(Cashes), s # << >>
  PROVE  <<s[1]>> \in Seq(Cashes) /\ Different(<<s[1]>>) /\ ToSet(<<s[1]>>) \subseteq ToSet(s)
<1>1. 1 \in DOMAIN s /\ s[1] \in Cashes
  BY EmptySeq, LenProperties
<1>2. <<s[1]>> \in Seq(Cashes) /\ DOMAIN <<s[1]>> = {1}
  BY <1>1
<1>3. QED
  BY <1>1, <1>2 DEF ToSet, Different

\* The greedy picks are some of the list, each once.
LEMMA PicksAreDifferent ==
  ASSUME NEW cs \in Seq(Cashes), Different(cs), NEW total
  PROVE  LET picks == GreedyPicks(cs, total)
         IN  picks \in Seq(Cashes) /\ Different(picks) /\ ToSet(picks) \subseteq ToSet(cs)
<1> DEFINE S == {i \in DOMAIN cs : Ledger!Sum({cs[j] : j \in Ahead(cs, i)}) < total}
           R == {p \in S \X S : p[1] \in Ahead(cs, p[2])}
           order == InOrder(S, R)
           n == Cardinality(S)
           picks == GreedyPicks(cs, total)
<1>1. /\ DOMAIN cs = 1 .. Len(cs) /\ Len(cs) \in Nat
      /\ \A i \in DOMAIN cs : cs[i] \in Cashes /\ cs[i].amt \in Nat
  <2>1. \A c \in Cashes : c.amt \in Nat
    BY DEF Cashes
  <2>2. QED
    BY <2>1, LenProperties
<1>2. IsFiniteSet(S) /\ S \subseteq DOMAIN cs
  <2>1. IsFiniteSet(1 .. Len(cs)) /\ S \in SUBSET (1 .. Len(cs))
    BY <1>1, FS_Interval
  <2> HIDE DEF S
  <2>2. QED
    BY <1>1, <2>1, FS_Subset
<1> HIDE DEF S
<1>3. \A i, j \in S : <<i, j>> \in R <=>
                       cs[i].amt > cs[j].amt \/ (cs[i].amt = cs[j].amt /\ i < j)
  BY <1>2 DEF Ahead
<1>4. /\ \A i, j \in S : i # j => <<i, j>> \in R \/ <<j, i>> \in R
      /\ \A i \in S : <<i, i>> \notin R
      /\ \A i, j, k \in S : <<i, j>> \in R /\ <<j, k>> \in R => <<i, k>> \in R
  <2>1. \A i \in S : i \in Int /\ cs[i].amt \in Int
    BY <1>1, <1>2
  <2> HIDE DEF R
  <2> DEFINE amt(i) == cs[i].amt
  <2>2. \A i \in S : i \in Int /\ amt(i) \in Int
    BY <2>1
  <2>3. \A i, j \in S : <<i, j>> \in R <=> amt(i) > amt(j) \/ (amt(i) = amt(j) /\ i < j)
    BY <1>3
  <2> HIDE DEF amt
  <2>4. \A i, j \in S : i # j => <<i, j>> \in R \/ <<j, i>> \in R
    BY <2>2, <2>3
  <2>5. \A i \in S : <<i, i>> \notin R
    BY <2>2, <2>3
  <2>6. ASSUME NEW i \in S, NEW j \in S, NEW k \in S, <<i, j>> \in R, <<j, k>> \in R
        PROVE  <<i, k>> \in R
    BY <2>2, <2>3, <2>6
  <2>7. QED
    BY <2>4, <2>5, <2>6
<1>5. /\ n \in Nat
      /\ order \in [1 .. n -> S]
      /\ \A k, l \in 1 .. n : k # l => order[k] # order[l]
  <2> HIDE DEF R
  <2>1. QED
    BY <1>2, <1>4, InOrderLists
<1>6. picks = [k \in 1 .. n |-> cs[order[k]]]
  <2>1. DOMAIN order = 1 .. n
    BY <1>5
  <2>2. QED
    BY <2>1 DEF GreedyPicks, S
<1> HIDE DEF order, n, picks
<1>7. \A k \in 1 .. n : order[k] \in DOMAIN cs /\ picks[k] = cs[order[k]] /\ picks[k] \in Cashes
  BY <1>1, <1>2, <1>5, <1>6
<1>8. picks \in Seq(Cashes)
  <2>1. picks \in [1 .. n -> Cashes]
    BY <1>6, <1>7
  <2>2. QED
    BY <1>5, <2>1, SeqDef
<1>9. DOMAIN picks = 1 .. n
  BY <1>6
<1>10. Different(picks) /\ ToSet(picks) \subseteq ToSet(cs)
  BY <1>5, <1>7, <1>9 DEF Different, ToSet
<1>11. QED
  BY <1>8, <1>10 DEF picks

\* The cash whose records are Active.
ActiveOf(recs, token) ==
  {e.cash : e \in {d \in ToSet(recs) : d.status = "Active" /\ d.cash.token = token}}

\* The cash a wallet can use: the Active ones of the token, each once.
LEMMA UsableCash ==
  ASSUME NEW recs \in Seq(RecordRow), Distinct(recs), NEW token
  PROVE  /\ Usable(recs, token) \in Seq(Cashes) /\ Different(Usable(recs, token))
         /\ ToSet(Usable(recs, token)) \subseteq ActiveOf(recs, token)
<1> DEFINE cs == CashSeq(recs)
           active == Usable(recs, token)
<1>1. /\ DOMAIN recs = 1 .. Len(recs) /\ Len(recs) \in Nat
      /\ \A i \in DOMAIN recs : recs[i] \in RecordRow /\ recs[i].cash \in Cashes
  BY RowsOf DEF RecordRow
<1>2. cs \in Seq(Cashes) /\ Different(cs) /\ DOMAIN cs = DOMAIN recs
  <2>1. cs \in [1 .. Len(recs) -> Cashes] /\ DOMAIN cs = DOMAIN recs
    BY <1>1 DEF CashSeq
  <2>2. cs \in Seq(Cashes)
    BY <1>1, <2>1, SeqDef
  <2>3. Different(cs)
    BY <2>1 DEF Different, Distinct, CashSeq
  <2>4. QED
    BY <2>1, <2>2, <2>3
<1>3. /\ active \in Seq(Cashes) /\ Different(active)
      /\ ToSet(active) \subseteq ActiveOf(recs, token)
  <2> DEFINE I == {i \in DOMAIN recs : recs[i].cash.token = token /\ recs[i].status = "Active"}
  <2>1. active = At(cs, I) /\ I \in SUBSET DOMAIN cs
    BY <1>2 DEF Usable
  <2>2. \A i \in I : cs[i] \in ActiveOf(recs, token)
    BY DEF CashSeq, ActiveOf, ToSet
  <2> HIDE DEF cs, I, active
  <2>3. /\ At(cs, I) \in Seq(Cashes) /\ Different(At(cs, I))
        /\ ToSet(At(cs, I)) = {cs[i] : i \in I}
    BY <1>2, <2>1, AtDifferent
  <2>4. QED
    BY <2>1, <2>2, <2>3
<1>4. QED
  BY <1>3

\* select_cash takes Active cash of the token, each once.
LEMMA SelectedCash ==
  ASSUME NEW recs \in Seq(RecordRow), Distinct(recs), NEW token, NEW total
  PROVE  LET ins == SelectCash(recs, token, total)
         IN  /\ ins \in Seq(Cashes) /\ Different(ins)
             /\ ToSet(ins) \subseteq ActiveOf(recs, token)
<1> DEFINE active == Usable(recs, token)
           exact == At(active, {i \in DOMAIN active : active[i].amt = total})
           smaller == At(active, {i \in DOMAIN active : active[i].amt < total})
           larger == At(active, {i \in DOMAIN active : active[i].amt > total})
           smallest == At(larger,
                          {i \in DOMAIN larger :
                             \A j \in DOMAIN larger : larger[i].amt <= larger[j].amt})
           From(xs) == /\ xs \in Seq(Cashes) /\ Different(xs)
                       /\ ToSet(xs) \subseteq ToSet(active)
           ins == SelectCash(recs, token, total)
<1>3. /\ active \in Seq(Cashes) /\ Different(active)
      /\ ToSet(active) \subseteq ActiveOf(recs, token)
  BY UsableCash
<1> HIDE DEF active
<1>4. ASSUME NEW s, From(s), NEW I \in SUBSET DOMAIN s
      PROVE  From(At(s, I))
  <2>1. At(s, I) \in Seq(Cashes) /\ Different(At(s, I)) /\ ToSet(At(s, I)) = {s[i] : i \in I}
    BY <1>4, AtDifferent
  <2>2. \A i \in I : s[i] \in ToSet(s)
    BY DEF ToSet
  <2>3. QED
    BY <1>4, <2>1, <2>2
<1>5. From(active)
  BY <1>3
<1>6. From(exact) /\ From(smaller) /\ From(larger)
  <2> HIDE DEF From
  <2>1. QED
    BY <1>4, <1>5
<1>7. From(smallest)
  <2> HIDE DEF From, larger
  <2>1. QED
    BY <1>4, <1>6
<1>8. ASSUME NEW s, From(s), s # << >>
      PROVE  From(<<s[1]>>)
  BY <1>8, FirstOf
<1>9. From(<< >>)
  <2>1. DOMAIN << >> = {} /\ << >> \in Seq(Cashes)
    OBVIOUS
  <2>2. QED
    BY <2>1 DEF Different, ToSet
<1>10. larger # << >> => smallest # << >>
  <2> HIDE DEF larger
  <2> SUFFICES ASSUME larger # << >> PROVE smallest # << >>
    OBVIOUS
  <2> DEFINE D == DOMAIN larger
             A == {larger[i].amt : i \in D}
             I == {i \in D : \A j \in D : larger[i].amt <= larger[j].amt}
  <2>1. 1 \in D /\ \A i \in D : larger[i] \in Cashes
    BY <1>6, EmptySeq, LenProperties
  <2>2. \A c \in Cashes : c.amt \in Nat
    BY DEF Cashes
  <2>3. A \in SUBSET Nat /\ A # {}
    BY <2>1, <2>2
  <2>4. \E m \in A : \A k \in A : m <= k
    BY <2>3, LeastNatural
  <2>5. I # {} /\ I \in SUBSET D
    BY <2>4
  <2>6. ToSet(At(larger, I)) = {larger[i] : i \in I}
    <3> HIDE DEF I
    <3>1. QED
      BY <1>6, <2>5, AtDifferent
  <2>7. ToSet(<< >>) = {}
    BY DEF ToSet
  <2>8. QED
    BY <2>5, <2>6, <2>7
<1>11. From(GreedyPicks(smaller, total))
  <2> HIDE DEF smaller
  <2>1. QED
    BY <1>6, PicksAreDifferent
<1>12. ins = IF exact # << >> THEN <<exact[1]>>
             ELSE IF Worth(smaller) >= total THEN GreedyPicks(smaller, total)
             ELSE IF larger # << >> THEN <<smallest[1]>>
             ELSE << >>
  BY DEF SelectCash, active
<1> HIDE DEF exact, smaller, larger, smallest, ins
<1>13. From(ins)
  <2> HIDE DEF From
  <2>1. CASE exact # << >>
    BY <1>6, <1>8, <1>12, <2>1
  <2>2. CASE exact = << >> /\ Worth(smaller) >= total
    BY <1>11, <1>12, <2>2
  <2>3. CASE exact = << >> /\ ~(Worth(smaller) >= total) /\ larger # << >>
    BY <1>7, <1>8, <1>10, <1>12, <2>3
  <2>4. CASE exact = << >> /\ ~(Worth(smaller) >= total) /\ larger = << >>
    BY <1>9, <1>12, <2>4
  <2>5. QED
    BY <2>1, <2>2, <2>3, <2>4
<1>14. QED
  BY <1>3, <1>13 DEF ins

-----------------------------------------------------------------------------
(* The request of an order. *)

\* A product of positive numbers, and a quantity at a price, are positive.
LEMMA ProductIsPositive ==
  \A a, b \in Nat \ {0} : a * b \in Nat \ {0}
  OBVIOUS

\* So is what an order pays.
LEMMA ScaleIsPositive ==
  ASSUME NEW a \in Nat \ {0}, NEW p \in Nat \ {0}, NEW byPrice
  PROVE  Scale(a, p, byPrice) \in Nat \ {0}
  BY ProductIsPositive DEF Scale

\* A split is proved for outputs in range.
LEMMA SplitProvesRange ==
  ASSUME NEW recs, NEW ins, NEW c, NEW d, SplitProofs(recs, ins, <<c, d>>) # {}
  PROVE  c.amt \in 0 .. MaxAmount /\ d.amt \in 0 .. MaxAmount
<1> DEFINE notes == <<CashCommit(c), CashCommit(d)>>
           w == WitnessSlots(notes)
<1>1. <<c, d>> # << >>
  OBVIOUS
<1>2. VerifyAmounts(w)
  BY <1>1 DEF SplitProofs, ProveSplit
<1>3. w.amounts[1] \in 0 .. MaxAmount /\ w.amounts[2] \in 0 .. MaxAmount
  BY <1>2 DEF VerifyAmounts, Slots
<1>4. w.amounts[1] = c.amt /\ w.amounts[2] = d.amt
  <2>1. DOMAIN notes = {1, 2} /\ notes[1] = <<c.amt, c.r>> /\ notes[2] = <<d.amt, d.r>>
    BY DEF CashCommit, Commit
  <2> HIDE DEF notes
  <2>2. /\ DOMAIN Amounts(notes) = {1, 2}
        /\ Amounts(notes)[1] = c.amt /\ Amounts(notes)[2] = d.amt
    BY <2>1 DEF Amounts
  <2>3. QED
    BY <2>2 DEF WitnessSlots, PadTo, Slots
<1>5. QED
  BY <1>3, <1>4

\* What the form sends for Active cash.
LEMMA RequestDrawn ==
  ASSUME NEW recs \in Seq(RecordRow), \A c \in CashOf(recs) : c.r <= draws,
         draws \in Nat, MaxDraws \in Nat, draws + 3 <= MaxDraws,
         NEW side \in Sides, NEW price \in 1 .. MaxAmount, NEW qty \in 1 .. MaxAmount,
         qty * price <= MaxAmount,
         NEW ins, InputList(ins), ToSet(ins) \subseteq ActiveOf(recs, LockToken(side)),
         NEW q \in Requests(recs, side, price, qty, ins)
  PROVE  RequestOK(q) /\ q.ins = ins /\ q.amount[2] = draws + 1
<1> DEFINE token == LockToken(side)
           total == Scale(qty, price, side = "Buy")
           change == Worth(ins) - total
           rLocked == IF side = "Buy" THEN draws + 2 ELSE draws + 1
           locked == ComputeCashId(token, total, rLocked)
           rest == ComputeCashId(token, change, draws + 3)
           outs == IF change = 0 THEN << >> ELSE <<locked, rest>>
<1>1. PICK p \in SplitProofs(recs, ins, outs) :
        q = SendOrderParams(side, price, EncryptAmount(qty, draws + 1), ins, outs, p)
  BY Zenon DEF Requests
<1>2. /\ q.id = ins /\ q.side = side /\ q.price = price /\ q.ins = ins /\ q.outs = outs
      /\ q.amount = <<qty, draws + 1>>
  <2> HIDE DEF outs
  <2>1. QED
    BY <1>1 DEF SendOrderParams, ComputeOrderId, EncryptAmount, Commit
<1>3. q.amount \in Commitments /\ q.amount[1] = qty /\ q.amount[2] = draws + 1
  BY <1>2 DEF Commitments
<1>4. /\ total \in 1 .. MaxAmount /\ total \in Nat \ {0}
      /\ Worth(ins) = Worth2(ins) /\ Worth2(ins) \in Nat \ {0}
  <2>1. price \in Nat \ {0} /\ qty \in Nat \ {0} /\ MaxAmount \in Nat
    BY WidthIsInt
  <2>2. total \in Nat \ {0}
    BY <2>1, ScaleIsPositive
  <2>3. total <= MaxAmount
    BY DEF Scale
  <2>4. QED
    BY <2>1, <2>2, <2>3, WorthIsWorth2
<1>5. \A c \in ToSet(ins) : c.r < draws + 1
  <2>1. ToSet(ins) \subseteq CashOf(recs) /\ CashOf(recs) \subseteq Cashes
    BY RowsOf DEF ActiveOf
  <2>2. \A c \in Cashes : c.r \in Int
    BY DEF Cashes
  <2>3. QED
    BY <2>1, <2>2
<1>6. CASE change = 0
  <2>1. q.outs = << >>
    BY <1>2, <1>6
  <2>2. Worth2(ins) = total
    BY <1>4, <1>6
  <2> HIDE DEF total
  <2>3. /\ Worth2(LockedBy(q)) = Scale(q.amount[1], q.price, q.side = "Buy")
        /\ Worth2(LockedBy(q)) <= MaxAmount
    BY <1>2, <1>3, <1>4, <2>1, <2>2 DEF LockedBy, total
  <2>4. QED
    BY <1>2, <1>3, <1>5, <2>1, <2>3 DEF RequestOK
<1>7. CASE change # 0
  <2>1. outs = <<locked, rest>> /\ q.outs = <<locked, rest>>
    BY <1>2, <1>7
  <2>2. rest.amt = change /\ locked.amt = total /\ locked.r = rLocked /\ rest.r = draws + 3
        /\ locked.owner = Me /\ rest.owner = Me /\ locked.token = token /\ rest.token = token
    BY DEF ComputeCashId, Ledger!Cash
  <2>3. change \in 1 .. MaxAmount
    <3>1. SplitProofs(recs, ins, <<locked, rest>>) # {}
      BY <1>1, <2>1
    <3> HIDE DEF locked, rest, change
    <3>2. rest.amt \in 0 .. MaxAmount
      BY <3>1, SplitProvesRange
    <3>3. QED
      BY <1>7, <2>2, <3>2, WidthIsInt
  <2>4. /\ rLocked \in draws + 1 .. draws + 2 /\ rLocked \in 1 .. MaxDraws
        /\ draws + 3 \in 1 .. MaxDraws
    OBVIOUS
  <2>5. token \in {Token1, Token2}
    BY DEF LockToken
  <2>6. locked \in Cashes /\ rest \in Cashes /\ locked # rest
    <3>1. locked \in Cashes
      BY <1>4, <2>4, <2>5 DEF ComputeCashId, Ledger!Cash, Cashes
    <3>2. rest \in Cashes
      BY <2>3, <2>4, <2>5 DEF ComputeCashId, Ledger!Cash, Cashes
    <3>3. QED
      BY <2>2, <2>4, <3>1, <3>2
  <2> HIDE DEF locked, rest, total, rLocked
  <2>7. /\ q.outs \in Seq(Cashes) /\ Len(q.outs) = 2 /\ DOMAIN q.outs = {1, 2}
        /\ q.outs[1] = locked /\ q.outs[2] = rest
    BY <2>1, <2>6
  <2>8. Different(q.outs) /\ ToSet(q.outs) = {locked, rest}
    BY <2>6, <2>7 DEF Different, ToSet
  <2>9. \A c \in ToSet(q.outs) : c.r \in q.amount[2] .. q.amount[2] + 2
    BY <1>3, <2>2, <2>4, <2>8
  <2>10. q.outs # << >>
    BY <2>7
  <2>11. LockedBy(q) = <<locked>>
    BY <2>7, <2>10 DEF LockedBy
  <2>12. /\ Worth2(LockedBy(q)) = Scale(q.amount[1], q.price, q.side = "Buy")
         /\ Worth2(LockedBy(q)) <= MaxAmount
    <3>1. Worth2(<<locked>>) = locked.amt
      BY <1>4, <2>2 DEF Worth2
    <3>2. QED
      BY <1>2, <1>3, <1>4, <2>2, <2>11, <3>1 DEF total
  <2>13. QED
    BY <1>2, <1>3, <1>5, <2>7, <2>8, <2>9, <2>12 DEF RequestOK
<1>8. QED
  BY <1>2, <1>3, <1>6, <1>7

-----------------------------------------------------------------------------
(* The outputs of a settlement. *)

\* A side's outputs in the statement are those it computes from a fill, its own amount or the
\* counterparty's.
LEMMA SessionPays ==
  ASSUME NEW a, NEW b, NEW price, NEW aSeller, NEW st \in SessionStatements(a, b, price, aSeller)
  PROVE  \E fill \in {a.amount, b.amount} :
           /\ \E x \in ComputeMyOutputs(a, fill, price, aSeller) :
                st.newOrder[1] = x.order /\ st.newLocked[1] = x.locked /\ st.recv[1] = x.recv
           /\ \E x \in ComputeMyOutputs(b, fill, price, ~aSeller) :
                st.newOrder[2] = x.order /\ st.newLocked[2] = x.locked /\ st.recv[2] = x.recv
<1>1. PICK cmp \in UNION CompareThreeWay(a.amount, b.amount) :
        st \in Statements(cmp, Fill(a, b, cmp), a, b, price, aSeller)
  BY Zenon DEF SessionStatements
<1> DEFINE fill == Fill(a, b, cmp)
<1>2. fill \in {a.amount, b.amount}
  BY DEF Fill
<1> DEFINE A == ComputeMyOutputs(a, fill, price, aSeller)
           B == ComputeMyOutputs(b, fill, price, ~aSeller)
<1>3. PICK x \in A, y \in B : st = SettlePublic(cmp, x, y, a, b, price, aSeller)
  <2>1. st \in {SettlePublic(cmp, x, y, a, b, price, aSeller) : x \in A, y \in B}
    BY <1>1 DEF Statements
  <2> HIDE DEF A, B, fill
  <2>2. QED
    BY <2>1
<1> HIDE DEF fill
<1>4. /\ st.newOrder = <<x.order, y.order>> /\ st.newLocked = <<x.locked, y.locked>>
      /\ st.recv = <<x.recv, y.recv>>
  BY <1>3 DEF SettlePublic
<1>5. QED
  BY <1>2, <1>4

\* What the wallet computes of its side.
LEMMA MyOutputs ==
  ASSUME NEW s, NEW fill, NEW price, NEW seller, NEW x \in ComputeMyOutputs(s, fill, price, seller)
  PROVE  /\ ~(fill > s.amount)
         /\ x.order = <<s.amount - fill, s.rOrderNew>>
         /\ x.locked = <<Scale(s.amount - fill, price, ~seller), s.rLockedNew>>
         /\ x.recv = <<Scale(fill, price, seller), s.rRecv>>
         /\ Scale(s.amount - fill, price, ~seller) <= MaxAmount
         /\ Scale(fill, price, seller) <= MaxAmount
<1> DEFINE out == OutputAmounts(s.amount, fill, price, seller)
<1>1. out.order = s.amount - fill /\ out.locked = Scale(s.amount - fill, price, ~seller)
      /\ out.recv = Scale(fill, price, seller)
  BY DEF OutputAmounts
<1> HIDE DEF out
<1>2. /\ ~(fill > s.amount) /\ out.locked <= MaxAmount /\ out.recv <= MaxAmount
      /\ x \in {[order |-> Commit(out.order, s.rOrderNew),
                 locked |-> Commit(out.locked, s.rLockedNew),
                 recv |-> Commit(out.recv, s.rRecv)]}
  BY DEF ComputeMyOutputs, Spendable64, out
<1>3. QED
  BY <1>1, <1>2 DEF Commit

\* The records a settlement adds.
LEMMA SettledRecords ==
  ASSUME draws \in Nat, MaxDraws \in Nat, draws + 3 <= MaxDraws,
         NEW o, orders[o] \in OrderRow,
         NEW m \in 1 .. MaxAmount, NEW maker \in BOOLEAN,
         NEW s \in BuildMyPrivate(o), Opens(o, s),
         NEW st \in Settlements(o, s, Counterparty(o, m), maker)
  PROVE  LET i == IF maker THEN 1 ELSE 2
             recv == Received(o, st, i)
             rest == Remainder(o, st, i)
         IN  /\ recv \in RecordRow /\ recv.cash.r = draws + 3
             /\ \/ rest = << >>
                \/ /\ rest[1] \in RecordRow /\ rest = <<rest[1]>> /\ rest[1].cash.r = draws + 2
                   /\ rest[1].status = "Locked" /\ rest[1].order = st.newOrder[i]
                   /\ rest[1].order \in Commitments
                   /\ rest[1].cash.amt
                        = Scale(st.newOrder[i][1], orders[o].price, orders[o].side = "Buy")
<1> DEFINE i == IF maker THEN 1 ELSE 2
           t == Counterparty(o, m)
           a == SideA(s, t, maker)
           b == SideB(s, t, maker)
           price == orders[o].price
           recv == Received(o, st, i)
           rest == Remainder(o, st, i)
<1>1. /\ price \in Nat \ {0} /\ orders[o].side \in Sides /\ orders[o].amount \in Commitments
      /\ MaxAmount \in Nat
  BY WidthIsInt DEF OrderRow
<1>2. /\ s.rOrderNew = draws + 1 /\ s.rLockedNew = draws + 2 /\ s.rRecv = draws + 3
      /\ s.amount \in 1 .. MaxAmount
  <2>1. /\ s.rOrderNew = draws + 1 /\ s.rLockedNew = draws + 2 /\ s.rRecv = draws + 3
    BY DEF BuildMyPrivate, SidePrivate
  <2>2. <<s.amount, s.rOrder>> = orders[o].amount
    BY DEF Opens, SanityCheckInput, Commit
  <2>3. QED
    BY <1>1, <2>1, <2>2 DEF Commitments
<1>3. t.amount = m
  BY DEF Counterparty, SidePrivate
<1>4. st \in SessionStatements(a, b, price, ASells(o, maker))
  BY DEF Settlements
<1> HIDE DEF t
<1>5. PICK fill \in {s.amount, m} :
        \E x \in ComputeMyOutputs(s, fill, price, Seller(o)) :
          st.newOrder[i] = x.order /\ st.newLocked[i] = x.locked /\ st.recv[i] = x.recv
  <2>1. \E fill \in {a.amount, b.amount} :
          /\ \E x \in ComputeMyOutputs(a, fill, price, ASells(o, maker)) :
               st.newOrder[1] = x.order /\ st.newLocked[1] = x.locked /\ st.recv[1] = x.recv
          /\ \E x \in ComputeMyOutputs(b, fill, price, ~ASells(o, maker)) :
               st.newOrder[2] = x.order /\ st.newLocked[2] = x.locked /\ st.recv[2] = x.recv
    <3> HIDE DEF a, b, price
    <3>1. QED
      BY <1>4, SessionPays
  <2>2. CASE maker
    <3>1. a = s /\ b = t /\ i = 1
      BY <2>2 DEF SideA, SideB
    <3>2. ASells(o, maker) = Seller(o)
      BY <2>2 DEF ASells, Seller
    <3> HIDE DEF a, b, i, price
    <3>3. QED
      BY <1>3, <2>1, <3>1, <3>2
  <2>3. CASE ~maker
    <3>1. a = t /\ b = s /\ i = 2
      BY <2>3 DEF SideA, SideB
    <3>2. (~ASells(o, maker)) = Seller(o)
      BY <2>3 DEF ASells, Seller
    <3> HIDE DEF a, b, i, price
    <3>3. QED
      BY <1>3, <2>1, <3>1, <3>2
  <2>4. QED
    BY <2>2, <2>3
<1> HIDE DEF i
<1>6. /\ ~(fill > s.amount)
      /\ st.newOrder[i] = <<s.amount - fill, draws + 1>>
      /\ st.newLocked[i] = <<Scale(s.amount - fill, price, ~Seller(o)), draws + 2>>
      /\ st.recv[i] = <<Scale(fill, price, Seller(o)), draws + 3>>
      /\ Scale(s.amount - fill, price, ~Seller(o)) <= MaxAmount
      /\ Scale(fill, price, Seller(o)) <= MaxAmount
  <2> HIDE DEF price
  <2>1. QED
    BY <1>2, <1>5, MyOutputs
<1>7. fill \in Nat \ {0} /\ s.amount - fill \in 0 .. MaxAmount
  BY <1>1, <1>2, <1>5, <1>6
<1>8. draws + 1 \in 1 .. MaxDraws /\ draws + 2 \in 1 .. MaxDraws /\ draws + 3 \in 1 .. MaxDraws
  OBVIOUS
<1>9. (~Seller(o)) = (orders[o].side = "Buy")
  BY <1>1 DEF Seller, Sides
<1> HIDE DEF price
<1>10. recv \in RecordRow /\ recv.cash.r = draws + 3
  <2>1. Scale(fill, price, Seller(o)) \in 1 .. MaxAmount
    <3>1. Scale(fill, price, Seller(o)) \in Nat \ {0}
      BY <1>1, <1>7, ScaleIsPositive
    <3>2. QED
      BY <1>1, <1>6, <3>1
  <2>2. RecvToken(orders[o].side) \in {Token1, Token2}
    BY DEF RecvToken
  <2> DEFINE c == ComputeCashId(RecvToken(orders[o].side), st.recv[i][1], st.recv[i][2])
  <2>3. c \in Cashes /\ c.r = draws + 3
    BY <1>6, <1>8, <2>1, <2>2 DEF ComputeCashId, Ledger!Cash, Cashes
  <2>4. recv = Record(c, "Active", NoOpening)
    BY DEF Received
  <2> HIDE DEF c, recv
  <2>5. QED
    BY <2>3, <2>4 DEF Record, RecordRow
<1>11. CASE st.newOrder[i][1] = 0
  <2>1. rest = << >>
    BY <1>11 DEF Remainder
  <2>2. QED
    BY <1>10, <2>1 DEF i
<1>12. CASE st.newOrder[i][1] # 0
  <2> DEFINE left == s.amount - fill
             c == ComputeCashId(LockToken(orders[o].side), st.newLocked[i][1], st.newLocked[i][2])
             d == Record(c, "Locked", st.newOrder[i])
  <2>1. /\ left \in Nat \ {0} /\ left \in 1 .. MaxAmount
        /\ st.newOrder[i] = <<left, draws + 1>>
    BY <1>1, <1>6, <1>7, <1>12
  <2>2. st.newOrder[i] \in Commitments
    BY <1>8, <2>1 DEF Commitments
  <2>3. Scale(left, price, ~Seller(o)) \in 1 .. MaxAmount
    <3>1. Scale(left, price, ~Seller(o)) \in Nat \ {0}
      BY <1>1, <2>1, ScaleIsPositive
    <3>2. QED
      BY <1>1, <1>6, <3>1
  <2>4. LockToken(orders[o].side) \in {Token1, Token2}
    BY DEF LockToken
  <2>5. c \in Cashes /\ c.r = draws + 2 /\ c.amt = Scale(left, price, ~Seller(o))
    <3> HIDE DEF left
    <3>1. st.newLocked[i] = <<Scale(left, price, ~Seller(o)), draws + 2>>
      BY <1>6 DEF left
    <3>2. QED
      BY <1>8, <2>3, <2>4, <3>1 DEF ComputeCashId, Ledger!Cash, Cashes
  <2>6. rest = <<d>>
    BY <1>12 DEF Remainder
  <2> HIDE DEF c, left
  <2>7. d \in RecordRow /\ d.cash = c /\ d.status = "Locked" /\ d.order = st.newOrder[i]
    BY <2>2, <2>5 DEF Record, RecordRow
  <2>8. c.amt = Scale(st.newOrder[i][1], price, orders[o].side = "Buy")
    BY <1>9, <2>1, <2>5
  <2> HIDE DEF d, rest, recv
  <2>9. rest[1] = d
    BY <2>6
  <2>10. QED
    BY <1>10, <2>2, <2>5, <2>6, <2>7, <2>8, <2>9 DEF i, rest, recv, price
<1>13. QED
  BY <1>11, <1>12

-----------------------------------------------------------------------------
(* What the invariant says of one request. *)

\* The ages of the cash a request names: its inputs are older than the request.
LEMMA RequestAges ==
  ASSUME NEW q, RequestOK(q)
  PROVE  /\ q.amount[2] \in Nat /\ q.amount[2] >= 1
         /\ Named(q) \subseteq Cashes /\ Paid(q) \subseteq Named(q)
         /\ ToSet(LockedBy(q)) \subseteq Paid(q) /\ ToSet(q.ins) \subseteq Paid(q)
         /\ ToSet(q.ins) # {} /\ InputList(LockedBy(q))
         /\ \A c \in ToSet(q.ins) : c.r < q.amount[2]
         /\ \A c \in ToSet(q.outs) : q.amount[2] <= c.r /\ c.r <= q.amount[2] + 2
         /\ \A c \in Cashes : c.r \in Nat
<1>1. /\ q.amount \in Commitments /\ InputList(q.ins) /\ \A c \in ToSet(q.ins) : c.r < q.amount[2]
      /\ \/ q.outs = << >>
         \/ /\ q.outs \in Seq(Cashes) /\ Len(q.outs) = 2 /\ Different(q.outs)
            /\ \A c \in ToSet(q.outs) : c.r \in q.amount[2] .. q.amount[2] + 2
  BY DEF RequestOK
<1>2. q.amount[2] \in Nat /\ q.amount[2] >= 1
  BY <1>1, WalletAssumption DEF Commitments
<1>3. \A c \in Cashes : c.r \in Nat
  BY WalletAssumption DEF Cashes
<1>4. ToSet(q.ins) \subseteq Cashes /\ ToSet(q.ins) # {}
  <2>1. q.ins \in Seq(Cashes) /\ Len(q.ins) \in 1 .. 2
    BY <1>1 DEF InputList
  <2>2. q.ins[1] \in ToSet(q.ins)
    BY <2>1, FewElements DEF ToSet
  <2>3. \A i \in DOMAIN q.ins : q.ins[i] \in Cashes
    BY <2>1, LenProperties
  <2>4. QED
    BY <2>2, <2>3 DEF ToSet
<1>5. CASE q.outs = << >>
  <2>1. ToSet(q.outs) = {} /\ DOMAIN q.outs = {}
    BY <1>5 DEF ToSet
  <2>2. LockedBy(q) = q.ins
    BY <1>5 DEF LockedBy
  <2>3. QED
    BY <1>1, <1>2, <1>3, <1>4, <2>1, <2>2 DEF Named, Paid
<1>6. CASE q.outs # << >>
  <2>1. /\ DOMAIN q.outs = {1, 2} /\ ToSet(q.outs) = {q.outs[1], q.outs[2]}
        /\ q.outs[1] \in Cashes /\ q.outs[2] \in Cashes
    BY <1>1, <1>6, FewElements
  <2>2. LockedBy(q) = <<q.outs[1]>>
    BY <1>6 DEF LockedBy
  <2>3. ToSet(LockedBy(q)) = {q.outs[1]} /\ InputList(LockedBy(q))
    BY <2>1, <2>2 DEF ToSet, InputList, Different
  <2>4. Paid(q) = ToSet(q.ins) \cup {q.outs[1]}
    BY <2>1 DEF Paid
  <2>5. \A c \in ToSet(q.outs) : q.amount[2] <= c.r /\ c.r <= q.amount[2] + 2
    BY <1>1, <1>2, <1>6
  <2>6. QED
    BY <1>1, <1>2, <1>3, <1>4, <2>1, <2>3, <2>4, <2>5 DEF Named
<1>7. QED
  BY <1>5, <1>6

\* The same of the requests of the history.
LEMMA RequestFacts ==
  ASSUME WalletTyped, NEW q \in requests
  PROVE  /\ RequestOK(q) /\ draws \in Nat
         /\ Named(q) \subseteq Cashes
         /\ \A c \in Named(q) : c.r \in Nat /\ c.r <= q.amount[2] + 2 /\ c.r <= draws
         /\ q.amount[2] \in Nat /\ q.amount[2] + 2 <= draws /\ Len(Genesis) < q.amount[2]
<1>1. RequestOK(q) /\ q.amount[2] + 2 <= draws /\ Len(Genesis) < q.amount[2] /\ draws \in Nat
  BY DEF WalletTyped, RequestsOK
<1>2. \A c \in Named(q) : c \in ToSet(q.ins) \/ c \in ToSet(q.outs)
  BY DEF Named
<1>3. /\ q.amount[2] \in Nat /\ Named(q) \subseteq Cashes
      /\ \A c \in ToSet(q.ins) : c.r < q.amount[2]
      /\ \A c \in ToSet(q.outs) : q.amount[2] <= c.r /\ c.r <= q.amount[2] + 2
      /\ \A c \in Cashes : c.r \in Nat
  BY <1>1, RequestAges
<1>4. \A c \in Named(q) : c.r \in Nat /\ c.r <= q.amount[2] + 2
  BY <1>2, <1>3
<1>5. QED
  BY <1>1, <1>3, <1>4

\* A cash of the records, and its only row.
LEMMA RowOf ==
  ASSUME NEW recs \in Seq(RecordRow), Distinct(recs),
         NEW d \in ToSet(recs), NEW e \in ToSet(recs), d.cash = e.cash
  PROVE  d = e
  BY DEF ToSet, Distinct

\* A set of rows that keeps the cash of another and its status and opening, or does not hold it
\* Active any more, stages what the other stages.
LEMMA StagingKept ==
  ASSUME NEW rows, NEW rows2, NEW q, Staging(rows, q), RequestOK(q),
         \A c \in Named(q) : (\E e \in rows : e.cash = c) => \E e \in rows2 : e.cash = c,
         \A e \in rows2 : e.cash \in Paid(q) /\ e.status = "Active" =>
                            \E d \in rows : d.cash \in Paid(q) /\ d.status = "Active",
         \A d \in rows :
           d.cash \in Paid(q) /\ d.status # "Active" => Carries(rows2, d.cash, d.order)
  PROVE  Staging(rows2, q)
<1>1. Closed(rows2, Paid(q))
  BY DEF Staging, Closed
<1>2. \A c \in ToSet(LockedBy(q)) : Carries(rows2, c, q.amount)
  <2>1. ToSet(LockedBy(q)) \subseteq Paid(q)
    BY RequestAges
  <2>2. QED
    BY <2>1 DEF Staging, Carries
<1>3. QED
  BY <1>1, <1>2 DEF Staging

-----------------------------------------------------------------------------
(* The steps. *)

\* Nothing has been sent as long as the trader has no records.
LEMMA EmptyWallet ==
  ASSUME WalletTyped, requests = {}
  PROVE  /\ form = {} /\ reported = {} /\ pool = {} /\ own = {} /\ witness = {}
         /\ DOMAIN orders = {}
<1>1. RequestsOK /\ OrdersOK /\ WitnessOK
  BY DEF WalletTyped
<1>2. reported = {} /\ pool = {} /\ own = {}
  BY <1>1 DEF RequestsOK
<1>3. form = {}
  BY <1>1 DEF RequestsOK
<1>4. DOMAIN orders = {}
  BY <1>1 DEF OrdersOK, OrderRow
<1>5. witness = {}
  BY <1>1, <1>4 DEF WitnessOK
<1>6. QED
  BY <1>2, <1>3, <1>4, <1>5

\* The invariant holds before the import.
LEMMA InitSound == Init => WalletSound
<1> SUFFICES ASSUME Init PROVE WalletSound
  OBVIOUS
<1> USE DEF Init
<1>1. RecordsOK(<< >>)
  <2>1. << >> \in Seq(RecordRow) /\ DOMAIN << >> = {}
    OBVIOUS
  <2>2. QED
    BY <2>1 DEF RecordsOK, Distinct, CashOf
<1>2. DOMAIN cash = ToSet(Genesis)
  OBVIOUS
<1>3. WalletTyped
  <2>1. draws \in Nat /\ Len(Genesis) <= draws /\ draws <= MaxDraws
    BY WalletAssumption, GenesisCash
  <2>2. DOMAIN cash \subseteq Cashes /\ \A c \in DOMAIN cash : c.r <= draws
    BY <1>2, GenesisCash
  <2>3. RequestsOK /\ OrdersOK /\ WitnessOK
    BY DEF RequestsOK, OrdersOK, WitnessOK
  <2>4. QED
    BY <1>1, <2>1, <2>2, <2>3 DEF WalletTyped
<1>4. StoresOK
  BY DEF StoresOK, CashOf
<1>5. GenesisHeld
  BY <1>2 DEF GenesisHeld
<1>6. OrdersHeld
  BY DEF OrdersHeld
<1>7. CashIsAccounted
  BY <1>2 DEF CashIsAccounted, Ledger!Unspent
<1>8. QED
  BY <1>3, <1>4, <1>5, <1>6, <1>7 DEF WalletSound, WalletHeld

\* The import makes the cash file of genesis the records: they are all of the unspent cash.
LEMMA ImportSound ==
  ASSUME WalletTyped, Import
  PROVE  WalletTyped' /\ (WalletHeld => WalletHeld')
<1>1. /\ records = << >> /\ records' = LoadFromFile(Genesis) /\ saved' = records'
      /\ UNCHANGED <<cash, orders, pool, form, own, witness, draws, requests, reported, crashes>>
  BY DEF Import, chain, history
<1>2. /\ draws \in Nat /\ Len(Genesis) <= draws /\ draws <= MaxDraws
      /\ DOMAIN cash \subseteq Cashes /\ \A c \in DOMAIN cash : c.r <= draws
      /\ RequestsOK /\ OrdersOK /\ WitnessOK /\ Len(Genesis) \in Nat
  BY GenesisCash DEF WalletTyped
<1> DEFINE r == LoadFromFile(Genesis)
<1>3. /\ DOMAIN r = DOMAIN Genesis
      /\ \A i \in DOMAIN Genesis : r[i] = Record(Genesis[i], "Active", NoOpening)
  BY DEF LoadFromFile
<1>4. \A i \in DOMAIN Genesis :
        Genesis[i] \in Cashes /\ r[i] \in RecordRow /\ r[i].cash = Genesis[i]
  <2>1. \A i \in DOMAIN Genesis : Genesis[i] \in Cashes
    BY GenesisCash, LenProperties
  <2> HIDE DEF r
  <2>2. QED
    BY <1>3, <2>1 DEF Record, RecordRow
<1>5. r \in Seq(RecordRow)
  <2>1. r = [i \in 1 .. Len(Genesis) |-> r[i]]
    BY GenesisCash DEF LoadFromFile
  <2>2. r \in [1 .. Len(Genesis) -> RecordRow]
    <3> HIDE DEF r
    <3>1. QED
      BY <1>4, <2>1, GenesisCash
  <2>3. QED
    BY <2>2, GenesisCash, SeqDef
<1> HIDE DEF r
<1>6. Distinct(r) /\ CashOf(r) = ToSet(Genesis)
  BY <1>3, <1>4, GenesisCash DEF Distinct, Different, CashOf, ToSet
<1>7. WalletTyped'
  <2>1. RecordsOK(r)
    BY <1>2, <1>5, <1>6, GenesisCash, RowsOf DEF RecordsOK, Cashes
  <2>2. RecordsOK(records)' /\ RecordsOK(saved)'
    BY <1>1, <2>1 DEF RecordsOK, r
  <2>3. RequestsOK' /\ OrdersOK'
    BY <1>1, <1>2 DEF RequestsOK, OrdersOK, OrderRow
  <2>4. \A w \in witness : CashOf(w.add) \cap ToSet(Genesis) = {}
    <3>1. \A c \in ToSet(Genesis) : c.r \in Int /\ c.r <= Len(Genesis)
      BY GenesisCash DEF Cashes
    <3>2. \A w \in witness : \A c \in CashOf(w.add) : Len(Genesis) < c.r
      BY <1>2 DEF WitnessOK
    <3>3. QED
      BY <1>2, <3>1, <3>2
  <2>5. CashOf(records') = ToSet(Genesis) /\ CashOf(saved') = ToSet(Genesis)
    BY <1>1, <1>6 DEF r
  <2>6. WitnessOK'
    BY <1>1, <1>2, <2>4, <2>5 DEF WitnessOK
  <2>7. QED
    BY <1>1, <1>2, <2>2, <2>3, <2>6 DEF WalletTyped
<1>8. ASSUME WalletHeld
      PROVE  WalletHeld'
  <2>1. GenesisHeld /\ requests = {}
    <3>1. CashOf(records) = {}
      BY <1>1 DEF CashOf
    <3>2. QED
      BY <1>8, <3>1 DEF GenesisHeld, WalletHeld
  <2>2. form = {} /\ reported = {} /\ witness = {} /\ DOMAIN orders = {}
    BY <2>1, EmptyWallet
  <2>3. StoresOK'
    BY <1>1, <2>2 DEF StoresOK
  <2>4. GenesisHeld'
    BY <1>1, <1>6, <2>1 DEF GenesisHeld, r
  <2>5. OrdersHeld'
    BY <1>1, <2>2 DEF OrdersHeld
  <2>6. CashIsAccounted'
    BY <1>1, <1>6, <2>1 DEF CashIsAccounted, GenesisHeld, Ledger!Unspent, r
  <2>7. QED
    BY <2>3, <2>4, <2>5, <2>6 DEF WalletHeld
<1>9. QED
  BY <1>7, <1>8

\* A request is staged over rows that are Active, which no order and no earlier request has.
LEMMA SubmitSound ==
  ASSUME WalletTyped, NEW side \in Sides, NEW price \in Prices, NEW qty \in Quantities,
         Submit(side, price, qty)
  PROVE  WalletTyped' /\ (WalletHeld /\ FlushResults = {TRUE} => WalletHeld')
<1> DEFINE ins == SelectCash(records, LockToken(side), Scale(qty, price, side = "Buy"))
<1>1. /\ draws \in Nat /\ Len(Genesis) <= draws /\ draws <= MaxDraws
      /\ DOMAIN cash \subseteq Cashes /\ \A c \in DOMAIN cash : c.r <= draws
      /\ RecordsOK(records) /\ RecordsOK(saved) /\ RequestsOK /\ OrdersOK /\ WitnessOK
      /\ WalletTyped /\ Len(Genesis) \in Nat
  BY GenesisCash DEF WalletSound, WalletTyped
<1>2. /\ form = {} /\ draws + 3 <= MaxDraws /\ Len(ins) \in 1 .. 2 /\ draws' = draws + 3
      /\ UNCHANGED <<cash, orders, pool, saved, own, witness, reported, crashes>>
  BY DEF Submit, chain
<1>3. PICK q \in Requests(records, side, price, qty, ins) :
        records' = Staged(records, q) /\ form' = {[sent |-> FALSE, req |-> q]}
        /\ requests' = requests \cup {q}
  BY DEF Submit
<1>4. /\ records \in Seq(RecordRow) /\ Distinct(records)
      /\ \A c \in CashOf(records) : c.r \in Nat /\ c.r <= draws
      /\ CashOf(records) \subseteq Cashes /\ CashOf(records) = {e.cash : e \in ToSet(records)}
      /\ ToSet(records) \subseteq RecordRow
  BY <1>1, RowsOf, WalletAssumption DEF RecordsOK, Cashes
<1>5. InputList(ins) /\ ToSet(ins) \subseteq ActiveOf(records, LockToken(side))
  BY <1>2, <1>4, SelectedCash DEF InputList
<1>6. RequestOK(q) /\ q.ins = ins /\ q.amount[2] = draws + 1
  <2>1. /\ price \in 1 .. MaxAmount /\ qty \in 1 .. MaxAmount /\ qty * price <= MaxAmount
        /\ MaxDraws \in Nat
    BY FormAssumption, WalletAssumption
  <2> HIDE DEF ins
  <2>2. QED
    BY <1>1, <1>2, <1>3, <1>4, <1>5, <2>1, RequestDrawn
<1> HIDE DEF ins
<1>7. /\ \A c \in ToSet(q.ins) : c.r <= draws /\ c \in CashOf(records)
      /\ \A e \in ToSet(records) : e.cash \in ToSet(q.ins) => e.status = "Active"
      /\ ToSet(q.ins) # {} /\ InputList(q.ins) /\ Named(q) \subseteq Cashes
      /\ \A c \in ToSet(q.outs) : draws < c.r /\ c.r <= draws + 3 /\ c.r \in Nat
  <2>1. \A c \in ToSet(q.ins) : \E e \in ToSet(records) : e.cash = c /\ e.status = "Active"
    BY <1>5, <1>6 DEF ActiveOf
  <2>2. \A e \in ToSet(records) : e.cash \in ToSet(q.ins) => e.status = "Active"
    BY <1>4, <2>1, RowOf
  <2>3. \A c \in ToSet(q.ins) : c.r <= draws /\ c \in CashOf(records)
    BY <1>4, <2>1
  <2>4. /\ ToSet(q.ins) # {} /\ Named(q) \subseteq Cashes
        /\ \A c \in ToSet(q.outs) : q.amount[2] <= c.r /\ c.r <= q.amount[2] + 2
        /\ \A c \in Cashes : c.r \in Nat
    BY <1>6, RequestAges
  <2>5. ToSet(q.outs) \subseteq Cashes
    BY <2>4 DEF Named
  <2>6. \A c \in ToSet(q.outs) : draws < c.r /\ c.r <= draws + 3 /\ c.r \in Nat
    BY <1>1, <1>6, <2>4, <2>5
  <2>7. QED
    BY <1>5, <1>6, <2>2, <2>3, <2>4, <2>6
<1>8. ToSet(q.outs) \cap CashOf(records) = {}
  BY <1>1, <1>4, <1>7
<1>9. /\ records' \in Seq(RecordRow) /\ Distinct(records')
      /\ ToSet(records') = {StagedRow(d, q) : d \in ToSet(records)} \cup StagedNew(q)
      /\ CashOf(records') = CashOf(records) \cup ToSet(q.outs)
  BY <1>3, <1>4, <1>6, <1>8, StagedRows
<1>10. /\ q.outs # << >> => /\ StagedNew(q) = {Record(q.outs[1], "Locked", q.amount),
                                              Record(q.outs[2], "Active", NoOpening)}
                            /\ ToSet(q.outs) = {q.outs[1], q.outs[2]} /\ q.outs[1] # q.outs[2]
                            /\ DOMAIN q.outs = {1, 2}
       /\ q.outs = << >> => StagedNew(q) = {} /\ ToSet(q.outs) = {}
  <2>1. CASE q.outs # << >>
    <3>1. q.outs \in Seq(Cashes) /\ Len(q.outs) = 2 /\ Different(q.outs)
      BY <1>6, <2>1 DEF RequestOK
    <3>2. QED
      BY <2>1, <3>1, FewElements DEF Different, StagedNew
  <2>2. QED
    BY <2>1 DEF StagedNew, ToSet
<1>11. \A d \in ToSet(records) : d.cash \notin ToSet(q.ins) => d \in ToSet(records')
  BY <1>9 DEF StagedRow
<1>12. \A d \in ToSet(records) : d.status # "Active" => d \in ToSet(records')
  BY <1>7, <1>11
<1>13. \A e \in ToSet(records') :
         \/ e \in ToSet(records) /\ e.cash \notin ToSet(q.ins)
         \/ e.cash \in ToSet(q.ins) /\ e.status \in {"Locked", "Spent"}
         \/ e \in StagedNew(q) /\ e.cash \in ToSet(q.outs)
  <2>1. \A d \in ToSet(records) :
          \/ StagedRow(d, q) = d /\ d.cash \notin ToSet(q.ins)
          \/ StagedRow(d, q).cash \in ToSet(q.ins) /\ StagedRow(d, q).status \in {"Locked", "Spent"}
    BY <1>4 DEF StagedRow, Record, RecordRow
  <2>2. \A e \in StagedNew(q) : e.cash \in ToSet(q.outs)
    BY <1>10 DEF Record
  <2>3. QED
    BY <1>9, <2>1, <2>2
<1>14. \A r \in requests : r # q /\ r.amount[2] \in Nat /\ r.amount[2] + 3 <= q.amount[2]
  <2>1. \A r \in requests : r.amount[2] \in Nat /\ r.amount[2] + 2 <= draws
    BY <1>1, RequestFacts
  <2>2. QED
    BY <1>1, <1>6, <2>1
<1>15. WalletTyped'
  <2>1. draws' \in Nat /\ Len(Genesis) <= draws' /\ draws' <= MaxDraws
    BY <1>1, <1>2
  <2>2. DOMAIN cash' \subseteq Cashes /\ \A c \in DOMAIN cash' : c.r <= draws'
    BY <1>1, <1>2, RequestAges DEF Cashes
  <2>3. RecordsOK(records)'
    BY <1>1, <1>2, <1>4, <1>7, <1>9 DEF RecordsOK
  <2>4. RecordsOK(saved)'
    <3>1. \A c \in CashOf(saved) : c.r \in Nat
      BY <1>1, RowsOf DEF RecordsOK, Cashes
    <3>2. QED
      BY <1>1, <1>2, <3>1 DEF RecordsOK
  <2>5. RequestsOK'
    <3>1. \A r \in requests' :
            RequestOK(r) /\ Len(Genesis) < r.amount[2] /\ r.amount[2] + 2 <= draws'
      <4>1. \A r \in requests :
              RequestOK(r) /\ Len(Genesis) < r.amount[2] /\ r.amount[2] + 2 <= draws
        BY <1>1 DEF RequestsOK
      <4>2. QED
        BY <1>1, <1>2, <1>3, <1>6, <1>14, <4>1
    <3>2. \A p, r \in requests' :
            p = r \/ p.amount[2] + 3 <= r.amount[2] \/ r.amount[2] + 3 <= p.amount[2]
      BY <1>1, <1>3, <1>14 DEF RequestsOK
    <3>3. pool' \subseteq requests' /\ reported' \subseteq requests'
      BY <1>1, <1>2, <1>3 DEF RequestsOK
    <3>4. q \notin reported
      BY <1>1, <1>14 DEF RequestsOK
    <3>5. form' \subseteq [sent: BOOLEAN, req: requests' \ reported']
      BY <1>2, <1>3, <3>4
    <3>6. \A f \in form' : /\ \A g \in form' : g = f
                           /\ \A r \in requests' : r.amount[2] <= f.req.amount[2]
      <4>1. \A r \in requests' : r.amount[2] <= q.amount[2]
        BY <1>1, <1>3, <1>6, <1>14
      <4>2. QED
        BY <1>3, <4>1
    <3>7. \A o \in own' : \E r \in reported' : r.id = o
      BY <1>1, <1>2 DEF RequestsOK
    <3>8. QED
      BY <3>1, <3>2, <3>3, <3>5, <3>6, <3>7 DEF RequestsOK
  <2>6. OrdersOK'
    BY <1>1, <1>2, <1>3 DEF OrdersOK, OrderRow
  <2>7. WitnessOK'
    <3>1. \A w \in witness : \A c \in CashOf(w.add) :
            c.r <= draws /\ c.r \in Nat /\ c \notin CashOf(records) \cup CashOf(saved)
      BY <1>1, RowsOf DEF WitnessOK, Cashes
    <3>2. \A w \in witness : \A c \in CashOf(w.add) :
            c.r <= draws' /\ c \notin CashOf(records') \cup CashOf(saved')
      BY <1>1, <1>2, <1>7, <1>9, <3>1
    <3>3. QED
      BY <1>1, <1>2, <3>2 DEF WitnessOK
  <2>8. QED
    BY <2>1, <2>2, <2>3, <2>4, <2>5, <2>6, <2>7 DEF WalletTyped
<1>16. ASSUME WalletHeld, FlushResults = {TRUE}
       PROVE  WalletHeld'
  <2>0. StoresOK /\ GenesisHeld /\ OrdersHeld /\ CashIsAccounted
    BY <1>16 DEF WalletHeld
  <2>1. ASSUME NEW r \in reported
         PROVE  ToSet(q.ins) \cap Paid(r) = {} /\ ToSet(q.outs) \cap Named(r) = {}
    <3>1. r \in requests /\ Closed(ToSet(records), Paid(r))
      BY <1>1, <2>0, <2>1 DEF RequestsOK, StoresOK, Staging
    <3>2. ToSet(q.ins) \cap Paid(r) = {}
      BY <1>4, <1>7, <3>1 DEF Closed
    <3>3. \A c \in Named(r) : c.r \in Nat /\ c.r <= draws
      BY <1>1, <2>0, <3>1, RequestFacts
    <3>4. QED
      BY <1>1, <2>0, <1>7, <3>2, <3>3
  <2>2. StoresOK'
    <3>1. ASSUME NEW r \in reported
          PROVE  Staging(ToSet(records'), r) /\ Staging(ToSet(saved'), r)
      <4>1. r \in requests /\ Staging(ToSet(records), r) /\ Staging(ToSet(saved), r)
        BY <1>1, <2>0, <3>1 DEF RequestsOK, StoresOK
      <4>2. RequestOK(r) /\ Paid(r) \subseteq Named(r)
        BY <1>1, <2>0, <4>1, RequestFacts, RequestAges
      <4>3. \A c \in Named(r) : \E e \in ToSet(records') : e.cash = c
        <5>1. \A c \in Named(r) : c \in CashOf(records)
          BY <1>4, <4>1 DEF Staging
        <5>2. CashOf(records') = {e.cash : e \in ToSet(records')}
          BY <1>9, RowsOf
        <5>3. QED
          BY <1>9, <5>1, <5>2
      <4>4. \A e \in ToSet(records') : e.cash \in Paid(r) => e \in ToSet(records)
        BY <1>13, <2>1, <3>1, <4>2
      <4>5. \A d \in ToSet(records) : d.cash \in Paid(r) /\ d.status # "Active" =>
              Carries(ToSet(records'), d.cash, d.order)
        BY <1>12 DEF Carries
      <4>6. Staging(ToSet(records'), r)
        <5> DEFINE rows == ToSet(records)
                   rows2 == ToSet(records')
        <5>1. \A e \in rows2 : e.cash \in Paid(r) /\ e.status = "Active" =>
                \E d \in rows : d.cash \in Paid(r) /\ d.status = "Active"
          BY <4>4
        <5> HIDE DEF rows, rows2
        <5>2. QED
          BY <4>1, <4>2, <4>3, <4>5, <5>1, StagingKept DEF rows, rows2
      <4>7. QED
        BY <1>2, <4>1, <4>6
    <3>2. Staging(ToSet(records'), q)
      <4>1. Closed(ToSet(records'), Paid(q))
        <5>1. Paid(q) \subseteq ToSet(q.ins) \cup {q.outs[1]} /\ Paid(q) \subseteq Named(q)
          BY <1>6, <1>10, RequestAges DEF Paid
        <5>2. q.outs # << >> => q.outs[2] \notin Paid(q)
          BY <1>1, <2>0, <1>7, <1>10, <5>1
        <5>3. ASSUME NEW e \in ToSet(records'), e.cash \in Paid(q)
              PROVE  e.status # "Active"
          <6>1. e \in ToSet(records) => e.cash \in ToSet(q.ins)
            <7>1. e \in ToSet(records) => e.cash \notin ToSet(q.outs)
              BY <1>4, <1>8
            <7>2. e.cash \in Named(q)
              BY <5>1, <5>3
            <7>3. QED
              BY <7>1, <7>2 DEF Named
          <6>2. e \in StagedNew(q) => e.status # "Active"
            BY <1>10, <5>2, <5>3 DEF Record
          <6>3. QED
            BY <1>13, <6>1, <6>2
        <5>4. QED
          BY <5>3 DEF Closed
      <4>2. \A c \in Named(q) : \E e \in ToSet(records') : e.cash = c
        <5>1. CashOf(records') = {e.cash : e \in ToSet(records')}
          BY <1>9, RowsOf
        <5>2. QED
          BY <1>7, <1>9, <5>1 DEF Named
      <4>3. \A c \in ToSet(LockedBy(q)) : Carries(ToSet(records'), c, q.amount)
        <5>1. CASE q.outs = << >>
          <6>1. LockedBy(q) = q.ins
            BY <5>1 DEF LockedBy
          <6>2. \A d \in ToSet(records) : d.cash \in ToSet(q.ins) =>
                  Record(d.cash, "Locked", q.amount) \in ToSet(records')
            BY <1>9, <5>1 DEF StagedRow
          <6>3. \A d \in ToSet(records) : d.cash \in ToSet(q.ins) =>
                  Carries(ToSet(records'), d.cash, q.amount)
            BY <6>2 DEF Carries, Record
          <6>4. QED
            BY <1>4, <1>7, <6>1, <6>3
        <5>2. CASE q.outs # << >>
          <6>1. LockedBy(q) = <<q.outs[1]>> /\ ToSet(LockedBy(q)) = {q.outs[1]}
            BY <5>2 DEF LockedBy, ToSet
          <6>2. Record(q.outs[1], "Locked", q.amount) \in ToSet(records')
            BY <1>9, <1>10, <5>2
          <6>3. QED
            BY <6>1, <6>2 DEF Carries, Record
        <5>3. QED
          BY <5>1, <5>2
      <4>4. QED
        BY <4>1, <4>2, <4>3 DEF Staging
    <3>3. \A c \in CashOf(saved') : c \in CashOf(records')
            \/ \E r \in requests' \ reported' : (\A f \in form' : f.req # r) /\ c \in ToSet(r.outs)
      <4>1. \A c \in CashOf(saved) : c \in CashOf(records)
              \/ \E r \in requests \ reported : c \in ToSet(r.outs)
        BY <1>1, <2>0 DEF StoresOK
      <4>2. \A f \in form' : f.req = q
        BY <1>3
      <4>3. QED
        BY <1>2, <1>3, <1>9, <1>14, <4>1, <4>2
    <3>4. \A f \in form' : f.req = q
      BY <1>3
    <3>5. QED
      BY <1>2, <2>1, <3>1, <3>2, <3>3, <3>4 DEF StoresOK
  <2>3. GenesisHeld'
    <3>1. requests' # {}
      BY <1>3
    <3>2. ToSet(Genesis) # {} /\ ToSet(Genesis) \subseteq CashOf(records) \cap CashOf(saved)
      <4>1. CASE requests = {}
        <5>1. records = saved /\ (saved = << >> \/ CashOf(saved) = ToSet(Genesis))
          BY <1>1, <2>0, <4>1 DEF GenesisHeld
        <5>2. CashOf(records) # {}
          BY <1>7
        <5>3. saved # << >>
          BY <5>1, <5>2 DEF CashOf
        <5>4. QED
          BY <5>1, <5>2, <5>3
      <4>2. CASE requests # {}
        BY <1>1, <2>0, <4>2 DEF GenesisHeld
      <4>3. QED
        BY <4>1, <4>2
    <3>3. QED
      BY <1>2, <1>9, <3>1, <3>2 DEF GenesisHeld
  <2>4. OrdersHeld'
    <3> SUFFICES ASSUME NEW o \in DOMAIN orders, orders[o].open
                 PROVE  /\ orders[o].req \in reported =>
                             AsPlaced(o)' \/ (Len(orders[o].inputs) = 1 /\ (ToBook(o)' \/ Kept(o)'))
                        /\ \A f \in form' : f.req # orders[o].req
      BY <1>2 DEF OrdersHeld
    <3>1. orders[o].req \in requests
      BY <1>1, <2>0 DEF OrdersOK, OrderRow
    <3>2. \A f \in form' : f.req # orders[o].req
      BY <1>3, <1>14, <3>1
    <3>3. ASSUME orders[o].req \in reported
          PROVE  AsPlaced(o)' \/ (Len(orders[o].inputs) = 1 /\ (ToBook(o)' \/ Kept(o)'))
      <4>1. AsPlaced(o) \/ (Len(orders[o].inputs) = 1 /\ (ToBook(o) \/ Kept(o)))
        BY <1>1, <2>0, <3>3 DEF OrdersHeld
      <4>2. AsPlaced(o) => AsPlaced(o)'
        BY <1>2 DEF AsPlaced
      <4>3. ToBook(o) => ToBook(o)'
        BY <1>2 DEF ToBook
      <4>4. ASSUME Kept(o)
            PROVE  Kept(o)'
        <5> DEFINE c == orders[o].inputs[1]
                   opening == orders[o].amount
        <5>1. PICK d \in ToSet(records) : d.cash = c /\ d.order = opening /\ d.status # "Active"
          BY <4>4 DEF Kept, Carries
        <5>2. Carries(ToSet(records'), c, opening)
          BY <1>12, <5>1 DEF Carries
        <5>3. c \notin Named(q)
          BY <1>4, <1>7, <1>8, <5>1 DEF Named
        <5>4. \A f \in form' : c \notin Named(f.req)
          BY <1>3, <5>3
        <5>5. Carries(ToSet(saved), c, opening)
          BY <4>4 DEF Kept
        <5>6. QED
          BY <1>2, <5>2, <5>4, <5>5 DEF Kept
      <4>5. QED
        BY <4>1, <4>2, <4>3, <4>4
    <3>4. QED
      BY <3>2, <3>3
  <2>5. CashIsAccounted'
    BY <1>1, <2>0, <1>2, <1>3 DEF CashIsAccounted, Ledger!Unspent
  <2>6. QED
    BY <2>2, <2>3, <2>4, <2>5 DEF WalletHeld
<1>17. QED
  BY <1>15, <1>16

\* The parts of the invariant.
LEMMA WalletParts ==
  ASSUME WalletTyped
  PROVE  /\ draws \in Nat /\ Len(Genesis) <= draws /\ draws <= MaxDraws
         /\ DOMAIN cash \subseteq Cashes /\ \A c \in DOMAIN cash : c.r <= draws
         /\ RecordsOK(records) /\ RecordsOK(saved) /\ RequestsOK /\ OrdersOK /\ WitnessOK
         /\ Len(Genesis) \in Nat
         /\ \A f \in form : f.req \in requests /\ f.req \notin reported /\ RequestOK(f.req)
         /\ \A w \in witness : requests # {}
<1>1. RequestsOK /\ OrdersOK /\ WitnessOK
  BY DEF WalletTyped
<1>2. \A f \in form : f.req \in requests /\ f.req \notin reported /\ RequestOK(f.req)
  BY <1>1 DEF RequestsOK
<1>3. \A w \in witness : requests # {}
  BY <1>1 DEF WitnessOK, OrdersOK, OrderRow
<1>4. QED
  BY <1>2, <1>3, GenesisCash DEF WalletTyped

\* The node takes what the form sent.
LEMMA TakeSound ==
  ASSUME WalletTyped, NEW f \in form, Take(f)
  PROVE  WalletTyped' /\ (WalletHeld /\ FlushResults = {TRUE} => WalletHeld')
<1> DEFINE g == [f EXCEPT !.sent = TRUE]
<1>1. /\ pool' = pool \cup {f.req} /\ form' = {g}
      /\ UNCHANGED <<cash, orders, records, saved, own, witness, draws, requests, reported,
                     crashes>>
  BY DEF Take, history
<1>2. /\ draws \in Nat /\ Len(Genesis) <= draws /\ draws <= MaxDraws
      /\ DOMAIN cash \subseteq Cashes /\ \A c \in DOMAIN cash : c.r <= draws
      /\ RecordsOK(records) /\ RecordsOK(saved) /\ RequestsOK /\ OrdersOK /\ WitnessOK
      /\ f.req \in requests
  BY WalletParts
<1>3. f \in [sent: BOOLEAN, req: requests \ reported]
  BY <1>2 DEF RequestsOK
<1>4. g \in [sent: BOOLEAN, req: requests \ reported] /\ g.req = f.req
  BY <1>3
<1> HIDE DEF g
<1>5. \A h \in form' : h.req = f.req
  BY <1>1, <1>4
<1>6. RequestsOK'
  BY <1>1, <1>2, <1>4 DEF RequestsOK
<1>7. WalletTyped'
  <2>1. RecordsOK(records)' /\ RecordsOK(saved)' /\ OrdersOK' /\ WitnessOK'
    BY <1>1, <1>2 DEF RecordsOK, OrdersOK, OrderRow, WitnessOK
  <2>2. QED
    BY <1>1, <1>2, <1>6, <2>1 DEF WalletTyped
<1>8. ASSUME WalletHeld, FlushResults = {TRUE}
      PROVE  WalletHeld'
  <2>0. StoresOK /\ GenesisHeld /\ OrdersHeld /\ CashIsAccounted
    BY <1>8 DEF WalletHeld
  <2>1. StoresOK'
    BY <1>1, <1>2, <2>0, <1>5 DEF StoresOK
  <2>2. GenesisHeld' /\ CashIsAccounted'
    BY <1>1, <1>2, <2>0 DEF GenesisHeld, CashIsAccounted, Ledger!Unspent
  <2>3. OrdersHeld'
    BY <1>1, <1>2, <2>0, <1>5 DEF OrdersHeld, AsPlaced, ToBook, Kept
  <2>4. QED
    BY <2>1, <2>2, <2>3 DEF WalletHeld
<1>9. QED
  BY <1>7, <1>8

\* A request the node drops is one the invariant asks nothing of.
LEMMA RefuseSound ==
  ASSUME WalletTyped, NEW q \in pool, Refuse(q)
  PROVE  WalletTyped' /\ (WalletHeld => WalletHeld')
<1>1. /\ pool' \subseteq pool
      /\ UNCHANGED <<cash, orders, records, saved, form, own, witness, draws, requests, reported,
                     crashes>>
  BY DEF Refuse, history
<1>2. WalletTyped'
  BY <1>1 DEF WalletTyped, RecordsOK, RequestsOK, OrdersOK, OrderRow, WitnessOK
<1>3. WalletHeld => StoresOK' /\ GenesisHeld' /\ OrdersHeld' /\ CashIsAccounted'
  BY <1>1 DEF WalletHeld, StoresOK, GenesisHeld, OrdersHeld, AsPlaced, ToBook, Kept,
              CashIsAccounted, Ledger!Unspent
<1>4. QED
  BY <1>2, <1>3 DEF WalletHeld

\* The rows staged for the request are those the file gets.
LEMMA ReplyOkSound ==
  ASSUME WalletTyped, NEW f \in form, ReplyOk(f)
  PROVE  WalletTyped' /\ (WalletHeld /\ FlushResults = {TRUE} => WalletHeld')
<1>1. /\ own' = own \cup {f.req.id} /\ reported' = reported \cup {f.req} /\ form' = {}
      /\ records' = records /\ saved' \in {records, saved}
      /\ FlushResults = {TRUE} => saved' = records
      /\ UNCHANGED <<cash, orders, pool, witness, draws, requests, crashes>>
  <2>1. PICK ok \in FlushResults : saved' = IF ok THEN records' ELSE saved
    BY DEF ReplyOk, Flush
  <2>2. ok \in BOOLEAN /\ records' = records
    BY FlushAssumption DEF ReplyOk
  <2>3. saved' \in {records, saved} /\ (FlushResults = {TRUE} => saved' = records)
    BY <2>1, <2>2
  <2>4. QED
    BY <2>2, <2>3 DEF ReplyOk, chain
<1>2. /\ draws \in Nat /\ Len(Genesis) <= draws /\ draws <= MaxDraws
      /\ DOMAIN cash \subseteq Cashes /\ \A c \in DOMAIN cash : c.r <= draws
      /\ RecordsOK(records) /\ RecordsOK(saved) /\ RequestsOK /\ OrdersOK /\ WitnessOK
      /\ f.req \in requests /\ f.req \notin reported
  BY WalletParts
<1>4. WalletTyped'
  <2>1. RecordsOK(records)' /\ RecordsOK(saved)' /\ OrdersOK' /\ WitnessOK'
    BY <1>1, <1>2 DEF RecordsOK, OrdersOK, OrderRow, WitnessOK
  <2>2. RequestsOK'
    BY <1>1, <1>2 DEF RequestsOK
  <2>3. QED
    BY <1>1, <1>2, <2>1, <2>2 DEF WalletTyped
<1>5. ASSUME WalletHeld, FlushResults = {TRUE}
      PROVE  WalletHeld'
  <2>0. StoresOK /\ GenesisHeld /\ OrdersHeld /\ CashIsAccounted /\ saved' = records
    BY <1>5, <1>1 DEF WalletHeld
  <2>1. /\ CashOf(records) = {e.cash : e \in ToSet(records)}
        /\ Staging(ToSet(records), f.req)
        /\ \A g \in form : g = f
    BY <1>2, <2>0, RowsOf DEF RecordsOK, StoresOK, RequestsOK
  <2>2. StoresOK'
    BY <1>1, <2>0, <1>2, <2>1 DEF StoresOK
  <2>3. GenesisHeld' /\ ToSet(Genesis) \subseteq CashOf(records)
    BY <1>1, <2>0, <1>2 DEF GenesisHeld
  <2>4. OrdersHeld'
    BY <1>1, <2>0, <1>2 DEF OrdersHeld, AsPlaced, ToBook, Kept
  <2>5. CashIsAccounted'
    <3> SUFFICES ASSUME NEW c \in Ledger!Unspent(cash)
                 PROVE  \/ c \in CashOf(records)
                        \/ \E w \in witness : \E e \in ToSet(w.add) : e.cash = c
                        \/ \E q \in requests \ reported' : c \in ToSet(q.outs)
      BY <1>1, <2>0 DEF CashIsAccounted, Ledger!Unspent
    <3>1. \/ c \in CashOf(saved) \/ c \in ToSet(Genesis)
          \/ \E w \in witness : \E e \in ToSet(w.add) : e.cash = c
          \/ \E q \in requests \ reported : c \in ToSet(q.outs)
      BY <1>2, <2>0 DEF CashIsAccounted
    <3>2. c \in CashOf(saved) =>
            c \in CashOf(records) \/ \E q \in requests \ reported : c \in ToSet(q.outs)
      BY <1>2, <2>0 DEF StoresOK
    <3>3. c \in ToSet(f.req.outs) => c \in CashOf(records)
      BY <2>1 DEF Staging, Named
    <3>4. QED
      BY <1>1, <2>0, <2>3, <3>1, <3>2, <3>3
  <2>6. QED
    BY <2>2, <2>3, <2>4, <2>5 DEF WalletHeld
<1>6. QED
  BY <1>4, <1>5

\* The roll back leaves the rows of the other requests and of the orders alone.
LEMMA ReplyErrSound ==
  ASSUME WalletTyped, NEW f \in form, ReplyErr(f)
  PROVE  WalletTyped' /\ (WalletHeld /\ FlushResults = {TRUE} => WalletHeld')
<1> DEFINE q == f.req
<1>1. /\ records' = RolledBack(records, q) /\ form' = {}
      /\ UNCHANGED <<cash, orders, pool, saved, own, witness, draws, requests, reported, crashes>>
  BY DEF ReplyErr, chain, history
<1>2. /\ draws \in Nat /\ Len(Genesis) <= draws /\ draws <= MaxDraws
      /\ DOMAIN cash \subseteq Cashes /\ \A c \in DOMAIN cash : c.r <= draws
      /\ RecordsOK(records) /\ RecordsOK(saved) /\ RequestsOK /\ OrdersOK /\ WitnessOK
      /\ q \in requests /\ q \notin reported /\ RequestOK(q) /\ Len(Genesis) \in Nat
  BY WalletParts
<1>3. /\ Paid(q) \subseteq Named(q) /\ ToSet(q.ins) \subseteq Paid(q) /\ q.amount[2] \in Nat
      /\ \A c \in ToSet(q.outs) : q.amount[2] <= c.r /\ c.r \in Nat
      /\ Len(Genesis) < q.amount[2]
  <2>1. ToSet(q.outs) \subseteq Named(q)
    BY DEF Named
  <2>2. QED
    BY <1>2, <2>1, RequestAges, RequestFacts
<1>4. \A r \in requests : r # q => ToSet(q.outs) \cap Named(r) = {}
  <2> SUFFICES ASSUME NEW r \in requests, r # q, NEW c \in ToSet(q.outs), c \in Named(r)
               PROVE  FALSE
    OBVIOUS
  <2>1. r.amount[2] \in Nat /\ c.r \in Nat /\ c.r <= r.amount[2] + 2
    BY <1>2, RequestFacts
  <2>2. r.amount[2] <= q.amount[2]
    BY <1>2 DEF RequestsOK
  <2>3. r.amount[2] + 3 <= q.amount[2] \/ q.amount[2] + 3 <= r.amount[2]
    BY <1>2 DEF RequestsOK
  <2>4. QED
    BY <1>3, <2>1, <2>2, <2>3
<1>5. ToSet(q.outs) \cap ToSet(Genesis) = {}
  <2>1. \A c \in ToSet(Genesis) : c.r <= Len(Genesis)
    BY GenesisCash
  <2>2. QED
    BY <1>2, <1>3, <2>1
<1> HIDE DEF q
<1>6. /\ records' \in Seq(RecordRow) /\ Distinct(records')
      /\ ToSet(records') = {MarkRow(d, ToSet(q.ins), "Active") :
                              d \in {d \in ToSet(records) : d.cash \notin ToSet(q.outs)}}
      /\ CashOf(records') = CashOf(records) \ ToSet(q.outs)
      /\ CashOf(records) = {e.cash : e \in ToSet(records)}
      /\ CashOf(records') = {e.cash : e \in ToSet(records')}
      /\ ToSet(records) \subseteq RecordRow
  <2>1. records \in Seq(RecordRow) /\ Distinct(records)
    BY <1>2 DEF RecordsOK
  <2>2. /\ records' \in Seq(RecordRow) /\ Distinct(records')
        /\ ToSet(records') = {MarkRow(d, ToSet(q.ins), "Active") :
                                d \in {d \in ToSet(records) : d.cash \notin ToSet(q.outs)}}
        /\ CashOf(records') = CashOf(records) \ ToSet(q.outs)
    BY <1>1, <2>1, RolledBackRows
  <2>3. QED
    BY <2>1, <2>2, RowsOf
<1>7. \A d \in ToSet(records) : d.cash \notin Named(q) => d \in ToSet(records')
  BY <1>6 DEF MarkRow, Named
<1>8. \A e \in ToSet(records') : e.cash \notin ToSet(q.ins) => e \in ToSet(records)
  BY <1>6 DEF MarkRow, RecordRow
<1>9. WalletTyped'
  <2>1. RecordsOK(records)' /\ RecordsOK(saved)' /\ OrdersOK' /\ WitnessOK'
    BY <1>1, <1>2, <1>6 DEF RecordsOK, OrdersOK, OrderRow, WitnessOK
  <2>2. RequestsOK'
    BY <1>1, <1>2 DEF RequestsOK
  <2>3. QED
    BY <1>1, <1>2, <2>1, <2>2 DEF WalletTyped
<1>10. ASSUME WalletHeld, FlushResults = {TRUE}
       PROVE  WalletHeld'
  <2>0. StoresOK /\ GenesisHeld /\ OrdersHeld /\ CashIsAccounted
    BY <1>10 DEF WalletHeld
  <2>1. StoresOK'
    <3>1. ASSUME NEW r \in reported
          PROVE  Staging(ToSet(records'), r) /\ Staging(ToSet(saved), r)
      <4>1. /\ r \in requests /\ r # q /\ Staging(ToSet(records), r) /\ Staging(ToSet(saved), r)
            /\ ToSet(q.ins) \cap Paid(r) = {}
        BY <1>2, <2>0 DEF RequestsOK, StoresOK, q
      <4>2. RequestOK(r) /\ Paid(r) \subseteq Named(r) /\ ToSet(q.outs) \cap Named(r) = {}
        BY <1>2, <2>0, <1>4, <4>1, RequestFacts, RequestAges
      <4>3. \A c \in Named(r) : \E e \in ToSet(records') : e.cash = c
        <5>1. \A c \in Named(r) : c \in CashOf(records)
          BY <1>6, <4>1 DEF Staging
        <5>2. QED
          BY <1>6, <4>2, <5>1
      <4>4. \A e \in ToSet(records') : e.cash \in Paid(r) => e \in ToSet(records)
        BY <1>8, <4>1
      <4>5. \A d \in ToSet(records) : d.cash \in Paid(r) /\ d.status # "Active" =>
              Carries(ToSet(records'), d.cash, d.order)
        BY <1>7, <4>1, <4>2 DEF Carries, Named
      <4>6. Staging(ToSet(records'), r)
        <5> DEFINE rows == ToSet(records)
                   rows2 == ToSet(records')
        <5>1. \A e \in rows2 : e.cash \in Paid(r) /\ e.status = "Active" =>
                \E d \in rows : d.cash \in Paid(r) /\ d.status = "Active"
          BY <4>4
        <5> HIDE DEF rows, rows2
        <5>2. QED
          BY <4>1, <4>2, <4>3, <4>5, <5>1, StagingKept DEF rows, rows2
      <4>7. QED
        BY <4>1, <4>6
    <3>2. \A c \in CashOf(saved) : c \in CashOf(records')
            \/ \E r \in requests \ reported : c \in ToSet(r.outs)
      <4>1. \A c \in CashOf(saved) : c \in CashOf(records)
              \/ \E r \in requests \ reported : c \in ToSet(r.outs)
        BY <1>2, <2>0 DEF StoresOK
      <4>2. QED
        BY <1>2, <2>0, <1>6, <4>1
    <3>3. QED
      BY <1>1, <3>1, <3>2 DEF StoresOK
  <2>2. GenesisHeld'
    BY <1>1, <1>2, <2>0, <1>5, <1>6 DEF GenesisHeld
  <2>3. OrdersHeld'
    <3> SUFFICES ASSUME NEW o \in DOMAIN orders, orders[o].open, orders[o].req \in reported
                 PROVE  AsPlaced(o)' \/ (Len(orders[o].inputs) = 1 /\ (ToBook(o)' \/ Kept(o)'))
      BY <1>1 DEF OrdersHeld
    <3>1. AsPlaced(o) \/ (Len(orders[o].inputs) = 1 /\ (ToBook(o) \/ Kept(o)))
      BY <1>2, <2>0 DEF OrdersHeld
    <3>2. AsPlaced(o) => AsPlaced(o)'
      BY <1>1 DEF AsPlaced
    <3>3. ToBook(o) => ToBook(o)'
      BY <1>1 DEF ToBook
    <3>4. ASSUME Kept(o)
          PROVE  Kept(o)'
      <4> DEFINE c == orders[o].inputs[1]
                 opening == orders[o].amount
      <4>1. PICK d \in ToSet(records) : d.cash = c /\ d.order = opening /\ d.status # "Active"
        BY <3>4 DEF Kept, Carries
      <4>2. c \notin Named(q) /\ Carries(ToSet(saved), c, opening)
        BY <3>4 DEF Kept, q
      <4>3. Carries(ToSet(records'), c, opening)
        BY <1>7, <4>1, <4>2 DEF Carries
      <4>4. QED
        BY <1>1, <4>2, <4>3 DEF Kept
    <3>5. QED
      BY <3>1, <3>2, <3>3, <3>4
  <2>4. CashIsAccounted'
    BY <1>1, <1>2, <2>0 DEF CashIsAccounted, Ledger!Unspent
  <2>5. QED
    BY <2>1, <2>2, <2>3, <2>4 DEF WalletHeld
<1>11. QED
  BY <1>9, <1>10

\* The rows that spending and minting leave unspent.
LEMMA SpendUnspent ==
  ASSUME NEW t, NEW cs, NEW os
  PROVE  /\ DOMAIN Ledger!SpendCash(t, cs, os) = DOMAIN t
         /\ Ledger!Unspent(Ledger!SpendCash(t, cs, os)) \subseteq Ledger!Unspent(t)
  BY DEF Ledger!SpendCash, Ledger!Unspent, Ledger!SpentRow

\* The rows that locking leaves unspent.
LEMMA LockUnspent ==
  ASSUME NEW t, NEW cs, NEW o, Ledger!Lockable(t, cs)
  PROVE  /\ DOMAIN Ledger!LockCash(t, cs, o) = DOMAIN t
         /\ Ledger!Unspent(Ledger!LockCash(t, cs, o)) \subseteq Ledger!Unspent(t)
  BY DEF Ledger!LockCash, Ledger!Unspent, Ledger!LockedRow, Ledger!Lockable, Ledger!ActiveCash

\* Minting adds the outputs only.
LEMMA MintUnspent ==
  ASSUME NEW t, NEW outs, NEW ids, \A i \in 1 .. Len(outs) : outs[i].id \in ids
  PROVE  /\ DOMAIN Ledger!Mint(t, outs) \subseteq DOMAIN t \cup ids
         /\ Ledger!Unspent(Ledger!Mint(t, outs)) \subseteq Ledger!Unspent(t) \cup ids
<1> DEFINE n == Len(outs)
           m == Ledger!Mint(t, outs)
<1>1. DOMAIN m = DOMAIN t \cup {outs[i].id : i \in 1 .. n} /\ \A c \in DOMAIN t : m[c] = t[c]
  BY DEF Ledger!Mint, Ledger!Minted
<1> HIDE DEF m
<1>2. DOMAIN m \subseteq DOMAIN t \cup ids
  BY <1>1
<1>3. \A c \in DOMAIN m : m[c].status # "Spent" => c \in Ledger!Unspent(t) \cup ids
  BY <1>1, <1>2 DEF Ledger!Unspent
<1>4. Ledger!Unspent(m) = {c \in DOMAIN m : m[c].status # "Spent"}
  BY DEF Ledger!Unspent
<1>5. QED
  BY <1>2, <1>3, <1>4 DEF m

\* The order of a request is the first with its inputs; what it mints was never minted before.
LEMMA ExecuteSound ==
  ASSUME WalletTyped, NEW q \in pool, Execute(q)
  PROVE  WalletTyped' /\ (WalletHeld /\ FlushResults = {TRUE} => WalletHeld')
<1>1. /\ pool' = pool \ {q} /\ cash' = CashAfter(q) /\ Executable(q)
      /\ orders' = [o \in DOMAIN orders \cup {q.id} |-> IF o = q.id THEN Placed(q) ELSE orders[o]]
      /\ UNCHANGED <<records, saved, form, own, witness, draws, requests, reported, crashes>>
  BY DEF Execute, history
<1>2. /\ draws \in Nat /\ Len(Genesis) <= draws /\ draws <= MaxDraws
      /\ DOMAIN cash \subseteq Cashes /\ \A c \in DOMAIN cash : c.r <= draws
      /\ RecordsOK(records) /\ RecordsOK(saved) /\ RequestsOK /\ OrdersOK /\ WitnessOK
      /\ Len(Genesis) \in Nat
  BY WalletParts
<1>3. q \in requests
  BY <1>2 DEF RequestsOK
<1>4. /\ RequestOK(q) /\ Named(q) \subseteq Cashes
      /\ \A c \in Named(q) : c.r \in Nat /\ c.r <= draws
      /\ InputList(LockedBy(q)) /\ ToSet(q.outs) \subseteq Named(q)
  BY <1>2, <1>3, RequestFacts, RequestAges DEF Named
<1>5. q.id \notin DOMAIN orders /\ Ledger!Lockable(cash, ToSet(q.ins))
  BY <1>1 DEF Executable
<1>6. /\ DOMAIN cash' \subseteq DOMAIN cash \cup ToSet(q.outs)
      /\ Ledger!Unspent(cash') \subseteq Ledger!Unspent(cash) \cup ToSet(q.outs)
  <2>1. CASE q.outs = << >>
    <3>1. cash' = Ledger!LockCash(cash, ToSet(q.ins), q.id)
      BY <1>1, <2>1 DEF CashAfter
    <3>2. QED
      BY <1>5, <3>1, LockUnspent
  <2>2. CASE q.outs # << >>
    <3> DEFINE t == Ledger!SpendCash(cash, ToSet(q.ins), {q.id})
               a == Ledger!Output(q.outs[1], Ledger!LockedRow(q.id))
               b == Ledger!Output(q.outs[2], Ledger!ActiveRow)
               outs == <<a, b>>
    <3>1. ToSet(q.outs) = {q.outs[1], q.outs[2]}
      BY <1>4, <2>2, FewElements DEF RequestOK
    <3>2. \A i \in 1 .. Len(outs) : outs[i].id \in ToSet(q.outs)
      <4>1. a.id = q.outs[1] /\ b.id = q.outs[2]
        BY DEF Ledger!Output
      <4> HIDE DEF a, b
      <4>2. QED
        BY <3>1, <4>1
    <3>3. cash' = Ledger!Mint(t, outs)
      BY <1>1, <2>2 DEF CashAfter
    <3>4. DOMAIN t = DOMAIN cash /\ Ledger!Unspent(t) \subseteq Ledger!Unspent(cash)
      BY SpendUnspent
    <3> HIDE DEF t, outs
    <3>5. /\ DOMAIN Ledger!Mint(t, outs) \subseteq DOMAIN t \cup ToSet(q.outs)
          /\ Ledger!Unspent(Ledger!Mint(t, outs)) \subseteq Ledger!Unspent(t) \cup ToSet(q.outs)
      BY <3>2, MintUnspent
    <3>6. QED
      BY <3>3, <3>4, <3>5
  <2>3. QED
    BY <2>1, <2>2
<1>7. /\ DOMAIN orders' = DOMAIN orders \cup {q.id} /\ orders'[q.id] = Placed(q)
      /\ \A o \in DOMAIN orders : orders'[o] = orders[o]
  BY <1>1, <1>5
<1>8. /\ Placed(q).req = q /\ Placed(q).inputs = LockedBy(q) /\ Placed(q).amount = q.amount
      /\ Placed(q).price = q.price /\ Placed(q).side = q.side /\ Placed(q).open = TRUE
      /\ Placed(q) \in OrderRow
  <2>1. LockedBy(q) \in Seq(Cashes)
    BY <1>4 DEF InputList
  <2>2. QED
    BY <1>3, <1>4, <2>1 DEF Placed, OrderRow, RequestOK
<1>9. WalletTyped'
  <2>1. RecordsOK(records)' /\ RecordsOK(saved)'
    BY <1>1, <1>2 DEF RecordsOK
  <2>2. RequestsOK'
    BY <1>1, <1>2 DEF RequestsOK
  <2>3. WitnessOK'
    BY <1>1, <1>2, <1>7 DEF WitnessOK
  <2>4. OrdersOK'
    <3> SUFFICES ASSUME NEW o \in DOMAIN orders'
                 PROVE  /\ orders'[o] \in OrderRow /\ orders'[o].req.id = o
                        /\ InputList(orders'[o].inputs)
                        /\ Worth2(orders'[o].inputs)
                             = Scale(orders'[o].amount[1], orders'[o].price,
                                     orders'[o].side = "Buy")
                        /\ Worth2(orders'[o].inputs) <= MaxAmount
      BY <1>1 DEF OrdersOK, OrderRow
    <3>1. CASE o = q.id
      BY <1>4, <1>7, <1>8, <3>1 DEF RequestOK
    <3>2. CASE o # q.id
      BY <1>2, <1>7, <3>2 DEF OrdersOK
    <3>3. QED
      BY <3>1, <3>2
  <2>5. DOMAIN cash' \subseteq Cashes /\ \A c \in DOMAIN cash' : c.r <= draws
    BY <1>2, <1>4, <1>6
  <2>6. QED
    BY <1>1, <1>2, <2>1, <2>2, <2>3, <2>4, <2>5 DEF WalletTyped
<1>10. ASSUME WalletHeld, FlushResults = {TRUE}
       PROVE  WalletHeld'
  <2>0. StoresOK /\ GenesisHeld /\ OrdersHeld /\ CashIsAccounted
    BY <1>10 DEF WalletHeld
  <2>1. StoresOK'
    BY <1>1, <1>2, <2>0 DEF StoresOK
  <2>2. GenesisHeld'
    BY <1>1, <1>2, <2>0, <1>3 DEF GenesisHeld
  <2>3. OrdersHeld'
    <3> SUFFICES ASSUME NEW o \in DOMAIN orders', orders'[o].open
                 PROVE  /\ orders'[o].req \in reported =>
                             \/ AsPlaced(o)'
                             \/ Len(orders'[o].inputs) = 1 /\ (ToBook(o)' \/ Kept(o)')
                        /\ (\E f \in form : f.req = orders'[o].req) => AsPlaced(o)'
      BY <1>1 DEF OrdersHeld
    <3>1. CASE o = q.id
      BY <1>7, <1>8, <3>1 DEF AsPlaced
    <3>2. CASE o # q.id
      <4>1. o \in DOMAIN orders /\ orders'[o] = orders[o]
        BY <1>7, <3>2
      <4>2. (AsPlaced(o) => AsPlaced(o)') /\ (ToBook(o) => ToBook(o)') /\ (Kept(o) => Kept(o)')
        BY <1>1, <4>1 DEF AsPlaced, ToBook, Kept
      <4>3. QED
        BY <1>2, <2>0, <4>1, <4>2 DEF OrdersHeld
    <3>3. QED
      BY <3>1, <3>2
  <2>4. CashIsAccounted'
    <3> SUFFICES ASSUME NEW c \in Ledger!Unspent(cash')
                 PROVE  \/ c \in CashOf(saved) \/ (saved = << >> /\ c \in ToSet(Genesis))
                        \/ \E w \in witness : \E e \in ToSet(w.add) : e.cash = c
                        \/ \E r \in requests \ reported : c \in ToSet(r.outs)
      BY <1>1 DEF CashIsAccounted, Ledger!Unspent
    <3>1. CASE c \in Ledger!Unspent(cash)
      BY <1>2, <2>0, <3>1 DEF CashIsAccounted
    <3>2. CASE c \in ToSet(q.outs) /\ q \notin reported
      BY <1>3, <3>2
    <3>3. CASE c \in ToSet(q.outs) /\ q \in reported
      <4>1. \E e \in ToSet(saved) : e.cash = c
        BY <1>2, <2>0, <1>4, <3>3 DEF StoresOK, Staging
      <4>2. QED
        BY <1>2, <2>0, <4>1, RowsOf DEF RecordsOK
    <3>4. QED
      BY <1>6, <3>1, <3>2, <3>3
  <2>5. QED
    BY <2>1, <2>2, <2>3, <2>4 DEF WalletHeld
<1>11. QED
  BY <1>9, <1>10

\* The file has what the invariant asks of the records.
LEMMA CrashSound ==
  ASSUME WalletTyped, Crash
  PROVE  WalletTyped' /\ (WalletHeld /\ FlushResults = {TRUE} => WalletHeld')
<1>1. /\ records' = saved /\ form' = {} /\ own' = {}
      /\ UNCHANGED <<cash, orders, pool, saved, witness, draws, requests, reported>>
  BY DEF Crash, chain
<1>2. /\ draws \in Nat /\ Len(Genesis) <= draws /\ draws <= MaxDraws
      /\ DOMAIN cash \subseteq Cashes /\ \A c \in DOMAIN cash : c.r <= draws
      /\ RecordsOK(records) /\ RecordsOK(saved) /\ RequestsOK /\ OrdersOK /\ WitnessOK
  BY WalletParts
<1>3. WalletTyped'
  <2>1. RecordsOK(records)' /\ RecordsOK(saved)' /\ OrdersOK' /\ WitnessOK'
    BY <1>1, <1>2 DEF RecordsOK, OrdersOK, OrderRow, WitnessOK
  <2>2. RequestsOK'
    BY <1>1, <1>2 DEF RequestsOK
  <2>3. QED
    BY <1>1, <1>2, <2>1, <2>2 DEF WalletTyped
<1>4. ASSUME WalletHeld, FlushResults = {TRUE}
      PROVE  WalletHeld'
  <2>0. StoresOK /\ GenesisHeld /\ OrdersHeld /\ CashIsAccounted
    BY <1>4 DEF WalletHeld
  <2>1. StoresOK' /\ GenesisHeld' /\ CashIsAccounted'
    BY <1>1, <1>2, <2>0 DEF StoresOK, GenesisHeld, CashIsAccounted, Ledger!Unspent
  <2>2. OrdersHeld'
    BY <1>1, <1>2, <2>0 DEF OrdersHeld, AsPlaced, ToBook, Kept
  <2>3. QED
    BY <2>1, <2>2 DEF WalletHeld
<1>5. QED
  BY <1>3, <1>4

\* Booking closes the inputs of one order and adds what its settlement minted.
LEMMA BookSound ==
  ASSUME WalletTyped, NEW w \in witness, Book(w)
  PROVE  WalletTyped' /\ (WalletHeld /\ FlushResults = {TRUE} => WalletHeld')
<1>1. /\ records' = Booked(records, w) /\ saved' \in {records', saved} /\ witness' = {}
      /\ FlushResults = {TRUE} => saved' = records'
      /\ UNCHANGED <<cash, orders, pool, form, own, draws, requests, reported, crashes>>
  <2>1. PICK ok \in FlushResults : saved' = IF ok THEN records' ELSE saved
    BY DEF Book, Flush
  <2>2. ok \in BOOLEAN
    BY FlushAssumption
  <2>3. saved' \in {records', saved} /\ (FlushResults = {TRUE} => saved' = records')
    BY <2>1, <2>2
  <2>4. QED
    BY <2>3 DEF Book, chain, history
<1>2. /\ draws \in Nat /\ Len(Genesis) <= draws /\ draws <= MaxDraws
      /\ DOMAIN cash \subseteq Cashes /\ \A c \in DOMAIN cash : c.r <= draws
      /\ RecordsOK(records) /\ RecordsOK(saved) /\ RequestsOK /\ OrdersOK /\ WitnessOK
      /\ requests # {}
  BY WalletParts
<1>3. /\ records \in Seq(RecordRow) /\ Distinct(records) /\ \A c \in CashOf(records) : c.r <= draws
      /\ w.add \in Seq(RecordRow) /\ Distinct(w.add)
      /\ \A c \in CashOf(w.add) : c.r <= draws /\ c \notin CashOf(records)
      /\ \A v \in witness : v = w
  BY <1>2 DEF RecordsOK, WitnessOK
<1>4. /\ records' \in Seq(RecordRow) /\ Distinct(records')
      /\ ToSet(records') = {MarkRow(d, w.spent, "Spent") : d \in ToSet(records)}
                           \cup {e \in ToSet(w.add) : e.cash \notin CashOf(records)}
      /\ CashOf(records') = CashOf(records) \cup CashOf(w.add)
      /\ CashOf(records) = {e.cash : e \in ToSet(records)}
      /\ CashOf(records') = {e.cash : e \in ToSet(records')}
      /\ CashOf(w.add) = {e.cash : e \in ToSet(w.add)}
      /\ ToSet(records) \subseteq RecordRow
  <2>1. /\ records' \in Seq(RecordRow) /\ Distinct(records')
        /\ ToSet(records') = {MarkRow(d, w.spent, "Spent") : d \in ToSet(records)}
                             \cup {e \in ToSet(w.add) : e.cash \notin CashOf(records)}
        /\ CashOf(records') = CashOf(records) \cup CashOf(w.add)
    BY <1>1, <1>3, BookedRows
  <2>2. QED
    BY <1>3, <2>1, RowsOf
<1>5. /\ \A e \in ToSet(records') : \/ e.cash \in CashOf(w.add)
                                   \/ e \in ToSet(records)
                                   \/ e.status = "Spent"
      /\ ToSet(w.add) \subseteq ToSet(records')
      /\ \A d \in ToSet(records) : d.status # "Active" =>
           Carries(ToSet(records'), d.cash, d.order)
  <2>1. \A d \in ToSet(records) :
          /\ MarkRow(d, w.spent, "Spent").cash = d.cash
          /\ MarkRow(d, w.spent, "Spent").order = d.order
          /\ MarkRow(d, w.spent, "Spent") = d \/ MarkRow(d, w.spent, "Spent").status = "Spent"
    BY <1>4 DEF MarkRow, RecordRow
  <2>2. \A d \in ToSet(records) : MarkRow(d, w.spent, "Spent") \in ToSet(records')
    BY <1>4
  <2>3. ASSUME NEW d \in ToSet(records), d.status # "Active"
        PROVE  Carries(ToSet(records'), d.cash, d.order)
    <3> DEFINE e == MarkRow(d, w.spent, "Spent")
    <3>1. e \in ToSet(records') /\ e.cash = d.cash /\ e.order = d.order /\ e.status # "Active"
      BY <2>1, <2>2, <2>3
    <3> HIDE DEF e
    <3>2. QED
      BY <3>1 DEF Carries
  <2>4. ToSet(w.add) \subseteq ToSet(records')
    <3>1. \A e \in ToSet(w.add) : e.cash \notin CashOf(records)
      BY <1>3, <1>4
    <3>2. QED
      BY <1>4, <3>1
  <2>5. ASSUME NEW e \in ToSet(records'), e.cash \notin CashOf(w.add)
        PROVE  e \in ToSet(records) \/ e.status = "Spent"
    <3>1. PICK d \in ToSet(records) : e = MarkRow(d, w.spent, "Spent")
      BY <1>4, <2>5
    <3>2. QED
      BY <2>1, <3>1
  <2>6. QED
    BY <2>3, <2>4, <2>5
<1>6. WalletTyped'
  <2>1. RecordsOK(records)' /\ RecordsOK(saved)'
    BY <1>1, <1>2, <1>3, <1>4 DEF RecordsOK
  <2>2. RequestsOK' /\ OrdersOK' /\ WitnessOK'
    BY <1>1, <1>2 DEF RequestsOK, OrdersOK, OrderRow, WitnessOK
  <2>3. QED
    BY <1>1, <1>2, <2>1, <2>2 DEF WalletTyped
<1>7. ASSUME WalletHeld, FlushResults = {TRUE}
      PROVE  WalletHeld'
  <2>0. StoresOK /\ GenesisHeld /\ OrdersHeld /\ CashIsAccounted /\ saved' = records'
    BY <1>7, <1>1 DEF WalletHeld
  <2>1. ASSUME NEW q \in requests, Staging(ToSet(records), q)
        PROVE  Staging(ToSet(records'), q) /\ Named(q) \subseteq CashOf(records)
    <3>1. RequestOK(q) /\ Paid(q) \subseteq Named(q)
      BY <1>2, <2>0, RequestFacts, RequestAges
    <3>2. Named(q) \subseteq CashOf(records)
      BY <1>4, <2>1 DEF Staging
    <3> DEFINE rows == ToSet(records)
               rows2 == ToSet(records')
    <3>3. \A c \in Named(q) : \E e \in rows2 : e.cash = c
      BY <1>4, <3>2
    <3>4. \A e \in rows2 : e.cash \in Paid(q) /\ e.status = "Active" =>
            \E d \in rows : d.cash \in Paid(q) /\ d.status = "Active"
      BY <1>3, <1>5, <3>1, <3>2
    <3>5. \A d \in rows :
            d.cash \in Paid(q) /\ d.status # "Active" => Carries(rows2, d.cash, d.order)
      BY <1>5
    <3> HIDE DEF rows, rows2
    <3>6. Staging(rows2, q)
      BY <2>1, <3>1, <3>3, <3>4, <3>5, StagingKept DEF rows, rows2
    <3>7. QED
      BY <3>2, <3>6 DEF rows2
  <2>2. StoresOK'
    <3>1. \A q \in reported : Staging(ToSet(records'), q)
      BY <1>2, <2>0, <2>1 DEF StoresOK, RequestsOK
    <3>2. \A f \in form : Staging(ToSet(records'), f.req)
      BY <2>1, <1>2, <2>0, WalletParts DEF StoresOK
    <3>3. QED
      BY <1>1, <2>0, <1>2, <3>1, <3>2 DEF StoresOK
  <2>3. GenesisHeld'
    BY <1>1, <2>0, <1>2, <1>4 DEF GenesisHeld
  <2>4. OrdersHeld'
    <3> SUFFICES ASSUME NEW o \in DOMAIN orders, orders[o].open
                 PROVE  /\ orders[o].req \in reported =>
                             AsPlaced(o)' \/ (Len(orders[o].inputs) = 1 /\ Kept(o)')
                        /\ (\E f \in form : f.req = orders[o].req) => AsPlaced(o)'
      BY <1>1, <2>0 DEF OrdersHeld
    <3> DEFINE c == orders[o].inputs[1]
               opening == orders[o].amount
    <3>1. AsPlaced(o) => AsPlaced(o)'
      BY <1>1, <2>0 DEF AsPlaced
    <3>2. ASSUME Kept(o)
          PROVE  Kept(o)'
      <4>1. PICK d \in ToSet(records) : d.cash = c /\ d.order = opening /\ d.status # "Active"
        BY <3>2 DEF Kept, Carries
      <4>2. Carries(ToSet(records'), c, opening)
        BY <1>5, <4>1
      <4>3. QED
        BY <1>1, <2>0, <3>2, <4>2 DEF Kept
    <3>3. ASSUME ToBook(o)
          PROVE  Kept(o)'
      <4>1. Len(w.add) = 2 /\ w.add[2] = Record(c, "Locked", opening)
        BY <1>3, <3>3 DEF ToBook
      <4>2. w.add[2] \in ToSet(w.add)
        BY <1>3, <4>1, FewElements DEF ToSet
      <4>3. Carries(ToSet(records'), c, opening)
        <5>1. Record(c, "Locked", opening) \in ToSet(records')
          BY <1>5, <4>1, <4>2
        <5>2. QED
          BY <5>1 DEF Carries, Record
      <4>4. c \notin CashOf(records)
        <5>1. w.add[2].cash = c
          BY <4>1 DEF Record
        <5>2. QED
          BY <1>3, <1>4, <4>2, <5>1
      <4>5. \A f \in form : Named(f.req) \subseteq CashOf(records)
        BY <1>2, <2>0, <2>1, WalletParts DEF StoresOK
      <4>6. QED
        BY <1>1, <2>0, <4>3, <4>4, <4>5 DEF Kept
    <3>4. QED
      BY <1>2, <2>0, <3>1, <3>2, <3>3 DEF OrdersHeld
  <2>5. CashIsAccounted'
    <3> SUFFICES ASSUME NEW c \in Ledger!Unspent(cash)
                 PROVE  \/ c \in CashOf(records')
                        \/ \E q \in requests \ reported : c \in ToSet(q.outs)
      BY <1>1, <2>0 DEF CashIsAccounted, Ledger!Unspent
    <3>1. \/ c \in CashOf(saved) \/ c \in ToSet(Genesis)
          \/ \E e \in ToSet(w.add) : e.cash = c
          \/ \E q \in requests \ reported : c \in ToSet(q.outs)
      BY <1>2, <2>0, <1>3 DEF CashIsAccounted
    <3>2. c \in CashOf(saved) =>
            c \in CashOf(records) \/ \E q \in requests \ reported : c \in ToSet(q.outs)
      BY <1>2, <2>0 DEF StoresOK
    <3>3. c \in ToSet(Genesis) => c \in CashOf(records)
      BY <1>2, <2>0 DEF GenesisHeld
    <3>4. QED
      BY <1>4, <3>1, <3>2, <3>3
  <2>6. QED
    BY <2>2, <2>3, <2>4, <2>5 DEF WalletHeld
<1>8. QED
  BY <1>6, <1>7

\* A list of one and a list of one.
LEMMA PairOf ==
  ASSUME NEW x, NEW y
  PROVE  <<x>> \o <<y>> = <<x, y>>
<1> DEFINE T == {x, y}
<1>1. <<x>> \in Seq(T) /\ <<y>> \in Seq(T) /\ Len(<<x>>) = 1 /\ Len(<<y>>) = 1
  OBVIOUS
<1> DEFINE u == <<x>> \o <<y>>
<1>2. u \in Seq(T) /\ Len(u) = 2 /\ u[1] = x /\ u[2] = y
  <2>1. u \in Seq(T) /\ Len(u) = Len(<<x>>) + Len(<<y>>)
        /\ \A k \in 1 .. Len(<<x>>) + Len(<<y>>) :
             u[k] = IF k <= Len(<<x>>) THEN <<x>>[k] ELSE <<y>>[k - Len(<<x>>)]
    BY <1>1, ConcatProperties
  <2> HIDE DEF u
  <2>2. QED
    BY <1>1, <2>1
<1> HIDE DEF u, T
<1>3. u = <<x, y>>
  BY <1>2
<1>4. QED
  BY <1>3 DEF u

\* A settlement mints under fresh blindings, and its outcome is in the witness until it is booked.
LEMMA SettleSound ==
  ASSUME WalletTyped, NEW o \in DOMAIN orders, NEW m \in Counterquantities(o),
         NEW maker \in BOOLEAN, Settle(o, m, maker)
  PROVE  WalletTyped' /\ (WalletHeld /\ FlushResults = {TRUE} => WalletHeld')
<1>1. /\ draws \in Nat /\ Len(Genesis) <= draws /\ draws <= MaxDraws
      /\ DOMAIN cash \subseteq Cashes /\ \A c \in DOMAIN cash : c.r <= draws
      /\ RecordsOK(records) /\ RecordsOK(saved) /\ RequestsOK /\ OrdersOK /\ WitnessOK
  BY WalletParts
<1>2. /\ orders[o].open /\ o \in own /\ witness = {} /\ draws + 3 <= MaxDraws
      /\ draws' = draws + 3
      /\ UNCHANGED <<pool, records, saved, form, own, requests, reported, crashes>>
  BY DEF Settle, Due, history
<1> DEFINE i == IF maker THEN 1 ELSE 2
<1>3. PICK s \in BuildMyPrivate(o) :
        /\ Opens(o, s)
        /\ \E st \in Settlements(o, s, Counterparty(o, m), maker) :
            LET recv == Received(o, st, i)
                rest == Remainder(o, st, i)
                spent == Ledger!SpendCash(cash, ToSet(Inputs(o)), {o})
            IN  /\ cash' = Ledger!Mint(spent,
                     <<Ledger!Output(recv.cash, Ledger!ActiveRow)>>
                     \o [k \in DOMAIN rest |-> Ledger!Output(rest[k].cash, Ledger!LockedRow(o))])
                /\ orders' = IF rest = << >> THEN [orders EXCEPT ![o].open = FALSE]
                             ELSE [orders EXCEPT ![o].inputs = <<rest[1].cash>>,
                                                 ![o].amount = st.newOrder[i]]
                /\ witness' = {SettleOutcome(o, recv, rest)}
  BY DEF Settle
<1>4. PICK st \in Settlements(o, s, Counterparty(o, m), maker) :
            LET recv == Received(o, st, i)
                rest == Remainder(o, st, i)
                spent == Ledger!SpendCash(cash, ToSet(Inputs(o)), {o})
            IN  /\ cash' = Ledger!Mint(spent,
                     <<Ledger!Output(recv.cash, Ledger!ActiveRow)>>
                     \o [k \in DOMAIN rest |-> Ledger!Output(rest[k].cash, Ledger!LockedRow(o))])
                /\ orders' = IF rest = << >> THEN [orders EXCEPT ![o].open = FALSE]
                             ELSE [orders EXCEPT ![o].inputs = <<rest[1].cash>>,
                                                 ![o].amount = st.newOrder[i]]
                /\ witness' = {SettleOutcome(o, recv, rest)}
  BY <1>3
<1> DEFINE recv == Received(o, st, i)
           rest == Remainder(o, st, i)
           spent == Ledger!SpendCash(cash, ToSet(Inputs(o)), {o})
           minted == [k \in DOMAIN rest |-> Ledger!Output(rest[k].cash, Ledger!LockedRow(o))]
           outs == <<Ledger!Output(recv.cash, Ledger!ActiveRow)>> \o minted
           opening == st.newOrder[i]
           w == SettleOutcome(o, recv, rest)
<1>5. /\ cash' = Ledger!Mint(spent, outs)
      /\ orders' = IF rest = << >> THEN [orders EXCEPT ![o].open = FALSE]
                   ELSE [orders EXCEPT ![o].inputs = <<rest[1].cash>>, ![o].amount = opening]
      /\ witness' = {w}
  BY <1>4
<1>6. /\ orders[o] \in OrderRow /\ orders[o].req.id = o /\ orders[o].req \in requests
      /\ InputList(orders[o].inputs)
      /\ Worth2(orders[o].inputs)
           = Scale(orders[o].amount[1], orders[o].price, orders[o].side = "Buy")
      /\ Worth2(orders[o].inputs) <= MaxAmount
  BY <1>1 DEF OrdersOK, OrderRow
<1>7. /\ recv \in RecordRow /\ recv.cash.r = draws + 3
      /\ \/ rest = << >>
         \/ /\ rest[1] \in RecordRow /\ rest = <<rest[1]>> /\ rest[1].cash.r = draws + 2
            /\ rest[1].status = "Locked" /\ rest[1].order = opening
            /\ rest[1].order \in Commitments
            /\ rest[1].cash.amt = Scale(opening[1], orders[o].price, orders[o].side = "Buy")
  <2>1. m \in 1 .. MaxAmount
    BY DEF Counterquantities
  <2>2. MaxDraws \in Nat
    BY WalletAssumption
  <2>3. QED
    BY <1>1, <1>2, <1>3, <1>6, <2>1, <2>2, SettledRecords
<1> HIDE DEF i, recv, rest, spent, outs, opening, w
<1>8. /\ w.order = o /\ w.add = <<recv>> \o rest
  BY DEF w, SettleOutcome
<1>9. /\ w.add \in Seq(RecordRow) /\ Len(w.add) \in 1 .. 2 /\ Distinct(w.add)
      /\ \A c \in CashOf(w.add) : draws < c.r /\ c.r <= draws + 3 /\ c \in Cashes
      /\ recv.cash \in CashOf(w.add)
      /\ rest # << >> => /\ rest[1].cash \in CashOf(w.add) /\ Len(w.add) = 2
                         /\ w.add[2] = rest[1]
  <2>0. \A d \in RecordRow : d.cash \in Cashes
    BY DEF RecordRow
  <2>1. CASE rest = << >>
    <3>1. w.add = <<recv>>
      BY <1>8, <2>1
    <3>2. w.add \in Seq(RecordRow) /\ Len(w.add) = 1 /\ DOMAIN w.add = {1} /\ w.add[1] = recv
      BY <1>7, <3>1
    <3>3. CashOf(w.add) = {recv.cash} /\ Distinct(w.add)
      BY <3>2 DEF CashOf, Distinct
    <3>4. QED
      BY <1>1, <1>7, <2>0, <2>1, <3>2, <3>3
  <2>2. CASE rest # << >>
    <3> DEFINE d == rest[1]
    <3>1. d \in RecordRow /\ rest = <<d>> /\ d.cash.r = draws + 2
      BY <1>7, <2>2
    <3> HIDE DEF d
    <3>2. w.add = <<recv, d>>
      BY <1>8, <3>1, PairOf
    <3>3. /\ w.add \in Seq(RecordRow) /\ Len(w.add) = 2 /\ DOMAIN w.add = {1, 2}
          /\ w.add[1] = recv /\ w.add[2] = d
      BY <1>7, <3>1, <3>2
    <3>4. CashOf(w.add) = {recv.cash, d.cash} /\ recv.cash # d.cash
      BY <1>1, <1>7, <3>1, <3>3 DEF CashOf
    <3>5. Distinct(w.add)
      BY <3>3, <3>4 DEF Distinct
    <3>6. QED
      BY <1>1, <1>7, <2>0, <3>1, <3>3, <3>4, <3>5 DEF d
  <2>3. QED
    BY <2>1, <2>2
<1>10. /\ DOMAIN cash' \subseteq DOMAIN cash \cup CashOf(w.add)
       /\ Ledger!Unspent(cash') \subseteq Ledger!Unspent(cash) \cup CashOf(w.add)
  <2> DEFINE a == Ledger!Output(recv.cash, Ledger!ActiveRow)
  <2>1. a.id = recv.cash
    BY DEF Ledger!Output
  <2>2. minted = << >> \/ (rest # << >> /\ minted = <<minted[1]>> /\ minted[1].id = rest[1].cash)
    <3>1. CASE rest = << >>
      <4>1. DOMAIN rest = {}
        BY <3>1
      <4>2. QED
        BY <4>1
    <3>2. CASE rest # << >>
      <4> DEFINE d == rest[1]
                 b == Ledger!Output(d.cash, Ledger!LockedRow(o))
      <4>1. rest = <<d>>
        BY <1>7, <3>2
      <4>2. b.id = d.cash
        BY DEF Ledger!Output
      <4>3. DOMAIN rest = 1 .. 1
        BY <4>1
      <4>4. minted = [k \in 1 .. 1 |-> b]
        BY <4>3
      <4> HIDE DEF b, d, minted
      <4>5. minted = <<b>>
        BY <4>4
      <4>6. QED
        BY <3>2, <4>2, <4>5 DEF d
    <3>3. QED
      BY <3>1, <3>2
  <2> HIDE DEF minted, a
  <2>3. \A k \in 1 .. Len(outs) : outs[k].id \in CashOf(w.add)
    <3>1. outs = <<a>> \o minted
      BY DEF outs, a
    <3>2. CASE minted = << >>
      <4>1. outs = <<a>>
        BY <3>1, <3>2
      <4>2. QED
        BY <1>9, <2>1, <4>1
    <3>3. CASE minted # << >>
      <4> DEFINE b == minted[1]
      <4>1. minted = <<b>> /\ b.id \in CashOf(w.add)
        BY <1>9, <2>2, <3>3
      <4> HIDE DEF b
      <4>2. outs = <<a, b>>
        BY <3>1, <4>1, PairOf
      <4>3. QED
        BY <1>9, <2>1, <4>1, <4>2
    <3>4. QED
      BY <3>2, <3>3
  <2>4. DOMAIN spent = DOMAIN cash /\ Ledger!Unspent(spent) \subseteq Ledger!Unspent(cash)
    BY SpendUnspent DEF spent
  <2>5. /\ DOMAIN Ledger!Mint(spent, outs) \subseteq DOMAIN spent \cup CashOf(w.add)
        /\ Ledger!Unspent(Ledger!Mint(spent, outs))
             \subseteq Ledger!Unspent(spent) \cup CashOf(w.add)
    BY <2>3, MintUnspent
  <2>6. QED
    BY <1>5, <2>4, <2>5
<1> HIDE DEF minted
<1>11. /\ DOMAIN orders' = DOMAIN orders
       /\ \A p \in DOMAIN orders : p # o => orders'[p] = orders[p]
       /\ orders'[o].req = orders[o].req
       /\ rest = << >> => orders'[o] = [orders[o] EXCEPT !.open = FALSE]
       /\ rest # << >> =>
            orders'[o] = [orders[o] EXCEPT !.inputs = <<rest[1].cash>>, !.amount = opening]
  <2>1. CASE rest = << >>
    <3>1. orders' = [orders EXCEPT ![o].open = FALSE]
      BY <1>5, <2>1
    <3>2. QED
      BY <1>6, <2>1, <3>1 DEF OrderRow
  <2>2. CASE rest # << >>
    <3>1. orders' = [orders EXCEPT ![o].inputs = <<rest[1].cash>>, ![o].amount = opening]
      BY <1>5, <2>2
    <3>2. QED
      BY <1>6, <2>2, <3>1 DEF OrderRow
  <2>3. QED
    BY <2>1, <2>2
<1>12. WalletTyped'
  <2>1. draws' \in Nat /\ Len(Genesis) <= draws' /\ draws' <= MaxDraws
    BY <1>1, <1>2, GenesisCash
  <2>2. DOMAIN cash' \subseteq Cashes /\ \A c \in DOMAIN cash' : c.r <= draws'
    <3>1. \A c \in Cashes : c.r \in Nat
      BY DEF Cashes
    <3>2. QED
      BY <1>1, <1>2, <1>9, <1>10, <3>1
  <2>3. RecordsOK(records)' /\ RecordsOK(saved)'
    <3>1. \A c \in CashOf(records) \cup CashOf(saved) : c.r \in Nat
      BY <1>1, RowsOf DEF RecordsOK, Cashes
    <3>2. QED
      BY <1>1, <1>2, <3>1 DEF RecordsOK
  <2>4. RequestsOK'
    <3>1. \A q \in requests : q.amount[2] + 2 <= draws /\ q.amount[2] \in Nat
      BY <1>1, RequestAges DEF RequestsOK
    <3>2. \A q \in requests : q.amount[2] + 2 <= draws'
      BY <1>1, <1>2, <3>1
    <3>3. QED
      BY <1>1, <1>2, <3>2 DEF RequestsOK
  <2>5. OrdersOK'
    <3> SUFFICES ASSUME NEW p \in DOMAIN orders
                 PROVE  /\ orders'[p] \in OrderRow /\ orders'[p].req.id = p
                        /\ InputList(orders'[p].inputs)
                        /\ Worth2(orders'[p].inputs)
                             = Scale(orders'[p].amount[1], orders'[p].price,
                                     orders'[p].side = "Buy")
                        /\ Worth2(orders'[p].inputs) <= MaxAmount
      BY <1>2, <1>11 DEF OrdersOK, OrderRow
    <3>1. CASE p # o
      BY <1>1, <1>11, <3>1 DEF OrdersOK
    <3>2. CASE p = o /\ rest = << >>
      <4>1. /\ orders'[o] \in OrderRow /\ orders'[o].amount = orders[o].amount
            /\ orders'[o].inputs = orders[o].inputs /\ orders'[o].price = orders[o].price
            /\ orders'[o].side = orders[o].side
        BY <1>6, <1>11, <3>2 DEF OrderRow
      <4>2. QED
        BY <1>6, <1>11, <3>2, <4>1
    <3>3. CASE p = o /\ rest # << >>
      <4> DEFINE c == rest[1].cash
      <4>1. c \in Cashes /\ c.amt = Scale(opening[1], orders[o].price, orders[o].side = "Buy")
            /\ opening \in Commitments
        BY <1>7, <3>3 DEF RecordRow
      <4>2. c.amt \in Int /\ c.amt <= MaxAmount
        BY <4>1, WidthIsInt DEF Cashes
      <4>3. orders'[o] = [orders[o] EXCEPT !.inputs = <<c>>, !.amount = opening]
        BY <1>11, <3>3
      <4> HIDE DEF c
      <4>4. InputList(<<c>>) /\ Worth2(<<c>>) = c.amt /\ <<c>> \in Seq(Cashes)
        BY <4>1, <4>2 DEF InputList, Different, Worth2
      <4>5. /\ orders'[o] \in OrderRow /\ orders'[o].amount = opening
            /\ orders'[o].inputs = <<c>> /\ orders'[o].price = orders[o].price
            /\ orders'[o].side = orders[o].side
        BY <1>6, <4>1, <4>3, <4>4 DEF OrderRow
      <4>6. QED
        BY <1>6, <1>11, <3>3, <4>1, <4>2, <4>4, <4>5
    <3>4. QED
      BY <3>1, <3>2, <3>3
  <2>6. WitnessOK'
    <3>1. \A c \in CashOf(records) \cup CashOf(saved) : c.r \in Nat /\ c.r <= draws
      BY <1>1, RowsOf DEF RecordsOK, Cashes
    <3>2. \A c \in CashOf(w.add) : /\ Len(Genesis) < c.r /\ c.r <= draws'
                                   /\ c \notin CashOf(records') \cup CashOf(saved')
      <4>1. Len(Genesis) \in Nat /\ \A c \in CashOf(w.add) : c.r \in Int
        BY <1>9, GenesisCash DEF Cashes
      <4>2. QED
        BY <1>1, <1>2, <1>9, <3>1, <4>1
    <3>3. QED
      BY <1>5, <1>8, <1>9, <1>11, <3>2 DEF WitnessOK
  <2>7. QED
    BY <2>1, <2>2, <2>3, <2>4, <2>5, <2>6 DEF WalletTyped
<1>13. ASSUME WalletHeld, FlushResults = {TRUE}
       PROVE  WalletHeld'
  <2>0. StoresOK /\ GenesisHeld /\ OrdersHeld /\ CashIsAccounted
    BY <1>13 DEF WalletHeld
  <2>1. StoresOK'
    BY <1>1, <2>0, <1>2 DEF StoresOK
  <2>2. GenesisHeld'
    BY <1>1, <2>0, <1>2, <1>6 DEF GenesisHeld
  <2>3. OrdersHeld'
    <3> SUFFICES ASSUME NEW p \in DOMAIN orders, orders'[p].open
                 PROVE  /\ orders'[p].req \in reported =>
                             \/ AsPlaced(p)'
                             \/ Len(orders'[p].inputs) = 1 /\ (ToBook(p)' \/ Kept(p)')
                        /\ (\E f \in form : f.req = orders'[p].req) => AsPlaced(p)'
      BY <1>2, <1>11 DEF OrdersHeld
    <3>1. CASE p # o
      <4>1. orders'[p] = orders[p]
        BY <1>11, <3>1
      <4>2. (AsPlaced(p) => AsPlaced(p)') /\ (Kept(p) => Kept(p)') /\ ~ToBook(p)
        BY <1>2, <4>1 DEF AsPlaced, ToBook, Kept
      <4>3. QED
        BY <1>1, <2>0, <4>1, <4>2 DEF OrdersHeld
    <3>2. CASE p = o
      <4>1. rest # << >>
        <5>1. rest = << >> => orders'[o].open = FALSE
          BY <1>6, <1>11 DEF OrderRow
        <5>2. QED
          BY <3>2, <5>1
      <4> DEFINE d == rest[1]
                 c == d.cash
      <4>2. orders'[o] = [orders[o] EXCEPT !.inputs = <<c>>, !.amount = opening]
        BY <1>11, <4>1
      <4>3. d \in RecordRow /\ d.status = "Locked" /\ d.order = opening /\ w.add[2] = d
        BY <1>7, <1>9, <4>1
      <4> HIDE DEF d
      <4>8. d = Record(c, "Locked", opening)
        BY <4>3 DEF RecordRow, Record
      <4> HIDE DEF c
      <4>9. orders'[o].inputs = <<c>> /\ orders'[o].amount = opening
        BY <1>6, <4>2 DEF OrderRow
      <4>10. orders'[o].inputs[1] = c
        BY <4>9
      <4>4. ToBook(o)'
        BY <1>5, <1>8, <1>9, <4>1, <4>3, <4>8, <4>9, <4>10 DEF ToBook
      <4>5. ASSUME NEW f \in form, f.req = orders'[o].req
            PROVE  FALSE
        <5>1. PICK q \in reported : q.id = o
          BY <1>1, <2>0, <1>2 DEF RequestsOK
        <5>2. q \in requests /\ RequestOK(q) /\ RequestOK(f.req) /\ f.req.id = o
          BY <1>1, <2>0, <1>6, <1>11, <4>5, <5>1, WalletParts DEF RequestsOK
        <5>3. f.req.ins = q.ins
          BY <5>1, <5>2 DEF RequestOK
        <5>4. ToSet(f.req.ins) \cap Paid(q) = {}
          BY <1>1, <2>0, <5>1 DEF StoresOK
        <5>5. ToSet(q.ins) \subseteq Paid(q) /\ ToSet(q.ins) # {}
          BY <5>2, RequestAges
        <5>6. QED
          BY <5>3, <5>4, <5>5
      <4>6. Len(orders'[o].inputs) = 1
        BY <4>9
      <4>7. QED
        BY <3>2, <4>4, <4>5, <4>6
    <3>3. QED
      BY <3>1, <3>2
  <2>4. CashIsAccounted'
    <3> SUFFICES ASSUME NEW c \in Ledger!Unspent(cash')
                 PROVE  \/ c \in CashOf(saved) \/ (saved = << >> /\ c \in ToSet(Genesis))
                        \/ \E e \in ToSet(w.add) : e.cash = c
                        \/ \E r \in requests \ reported : c \in ToSet(r.outs)
      BY <1>2, <1>5 DEF CashIsAccounted, Ledger!Unspent
    <3>1. CASE c \in Ledger!Unspent(cash)
      BY <1>1, <2>0, <1>2, <3>1 DEF CashIsAccounted
    <3>2. CASE c \in CashOf(w.add)
      BY <1>9, <3>2, RowsOf
    <3>3. QED
      BY <1>10, <3>1, <3>2
  <2>5. QED
    BY <2>1, <2>2, <2>3, <2>4 DEF WalletHeld
<1>14. QED
  BY <1>12, <1>13

\* Every step keeps the types and bounds, whether the saves succeed or not.
LEMMA StepTyped ==
  ASSUME WalletTyped, [Next]_walletVars
  PROVE  WalletTyped'
<1>1. CASE Import
  BY <1>1, ImportSound
<1>2. CASE \E side \in Sides, price \in Prices, qty \in Quantities : Submit(side, price, qty)
  BY <1>2, SubmitSound
<1>3. CASE \E f \in form : Take(f) \/ ReplyOk(f) \/ ReplyErr(f)
  BY <1>3, TakeSound, ReplyOkSound, ReplyErrSound
<1>4. CASE \E q \in pool : Execute(q) \/ Refuse(q)
  BY <1>4, ExecuteSound, RefuseSound
<1>5. CASE \E o \in DOMAIN orders : \E m \in Counterquantities(o), maker \in BOOLEAN :
             Settle(o, m, maker)
  BY <1>5, SettleSound
<1>6. CASE \E w \in witness : Book(w)
  BY <1>6, BookSound
<1>7. CASE Crash
  BY <1>7, CrashSound
<1>8. CASE UNCHANGED walletVars
  <2>1. UNCHANGED <<cash, orders, pool, records, saved, form, own, witness, draws, requests,
                    reported, crashes>>
    BY <1>8 DEF walletVars, chain, history
  <2>2. QED
    BY <2>1 DEF WalletTyped, RecordsOK, RequestsOK, OrdersOK, OrderRow, WitnessOK
<1>9. QED
  BY <1>1, <1>2, <1>3, <1>4, <1>5, <1>6, <1>7, <1>8 DEF Next

\* When no save fails, every step keeps what the stores hold.
LEMMA StepHeld ==
  ASSUME WalletTyped, WalletHeld, FlushResults = {TRUE}, [Next]_walletVars
  PROVE  WalletHeld'
<1>1. CASE Import
  BY <1>1, ImportSound
<1>2. CASE \E side \in Sides, price \in Prices, qty \in Quantities : Submit(side, price, qty)
  BY <1>2, SubmitSound
<1>3. CASE \E f \in form : Take(f) \/ ReplyOk(f) \/ ReplyErr(f)
  BY <1>3, TakeSound, ReplyOkSound, ReplyErrSound
<1>4. CASE \E q \in pool : Execute(q) \/ Refuse(q)
  BY <1>4, ExecuteSound, RefuseSound
<1>5. CASE \E o \in DOMAIN orders : \E m \in Counterquantities(o), maker \in BOOLEAN :
             Settle(o, m, maker)
  BY <1>5, SettleSound
<1>6. CASE \E w \in witness : Book(w)
  BY <1>6, BookSound
<1>7. CASE Crash
  BY <1>7, CrashSound
<1>8. CASE UNCHANGED walletVars
  <2>1. UNCHANGED <<cash, orders, pool, records, saved, form, own, witness, draws, requests,
                    reported, crashes>>
    BY <1>8 DEF walletVars, chain, history
  <2>2. StoresOK' /\ GenesisHeld' /\ OrdersHeld' /\ CashIsAccounted'
    BY <2>1 DEF WalletHeld, StoresOK, GenesisHeld, OrdersHeld, AsPlaced, ToBook, Kept,
                CashIsAccounted, Ledger!Unspent
  <2>3. QED
    BY <2>2 DEF WalletHeld
<1>9. QED
  BY <1>1, <1>2, <1>3, <1>4, <1>5, <1>6, <1>7, <1>8 DEF Next

\* The types and bounds, for every cash file, any prices and quantities, any number of
\* requests, settlements and crashes, whatever saves fail.
THEOREM WalletKeepsItsForm == Spec => []WalletTyped
<1>1. Init => WalletTyped
  BY InitSound DEF WalletSound
<1>2. WalletTyped /\ [Next]_walletVars => WalletTyped'
  BY StepTyped
<1>3. QED
  BY <1>1, <1>2, PTL DEF Spec

\* With what the stores hold, as long as the saves of the cash file do not fail.
THEOREM WalletIsSound == ASSUME FlushResults = {TRUE} PROVE Spec => []WalletSound
<1>1. Init => WalletSound
  BY InitSound
<1>2. WalletSound /\ [Next]_walletVars => WalletSound'
  BY StepTyped, StepHeld DEF WalletSound
<1>3. QED
  BY <1>1, <1>2, PTL DEF Spec

-----------------------------------------------------------------------------
(* What the invariant says of the properties. *)

\* Rows that carry the opening of an order for all of its inputs open it: the first row found
\* is the one, and what the inputs are worth is what the order needs.
LEMMA CarriedOrderOpens ==
  ASSUME WalletTyped, NEW o \in DOMAIN orders,
         \A c \in ToSet(orders[o].inputs) : Carries(ToSet(records), c, orders[o].amount)
  PROVE  \E s \in BuildMyPrivate(o) : Opens(o, s)
<1> DEFINE ins == orders[o].inputs
           amount == orders[o].amount
           price == orders[o].price
           s == SidePrivate(amount[1], amount[2], Notes(ins), draws + 1, draws + 2, draws + 3)
<1>1. /\ orders[o].side \in Sides /\ price \in 1 .. MaxAmount /\ amount \in Commitments
      /\ InputList(ins) /\ Worth2(ins) = Scale(amount[1], price, orders[o].side = "Buy")
      /\ records \in Seq(RecordRow) /\ Distinct(records)
  BY DEF WalletTyped, OrdersOK, OrderRow, RecordsOK
<1>2. /\ ins \in Seq(Cashes) /\ Len(ins) \in 1 .. 2 /\ ins[1] \in ToSet(ins) /\ ins[1] \in Cashes
      /\ DOMAIN ins = 1 .. Len(ins)
      /\ Len(ins) = 1 => DOMAIN ins = {1}
      /\ Len(ins) = 2 => DOMAIN ins = {1, 2} /\ ins[2] \in Cashes
  BY <1>1, FewElements, LenProperties DEF InputList, ToSet
<1>3. amount = <<amount[1], amount[2]>> /\ amount # NoOpening
  BY <1>1 DEF Commitments, NoOpening
<1>4. ToSet(ins) \subseteq CashOf(records)
  BY <1>1, RowsOf DEF Carries
<1>5. RecordOf(records, ins[1]).order = amount
  <2> DEFINE k == CHOOSE k \in DOMAIN records : records[k].cash = ins[1]
  <2>1. PICK e \in ToSet(records) : e.cash = ins[1] /\ e.order = amount
    BY <1>2 DEF Carries
  <2>2. \E j \in DOMAIN records : records[j].cash = ins[1]
    BY <2>1 DEF ToSet
  <2>3. k \in DOMAIN records /\ records[k].cash = ins[1] /\ RecordOf(records, ins[1]) = records[k]
    BY <2>2 DEF RecordOf
  <2> HIDE DEF k
  <2>4. records[k] = e
    BY <1>1, <2>1, <2>3, RowOf DEF ToSet
  <2>5. QED
    BY <2>1, <2>3, <2>4
<1>6. s \in BuildMyPrivate(o)
  BY <1>3, <1>4, <1>5 DEF BuildMyPrivate, Inputs
<1> DEFINE locked == Notes(ins)
<1>7. /\ s.amount = amount[1] /\ s.rOrder = amount[2] /\ s.locked = locked
      /\ DOMAIN locked = DOMAIN ins /\ Len(locked) = Len(ins)
      /\ \A k \in DOMAIN ins : locked[k] = CashCommit(ins[k]) /\ locked[k][1] = ins[k].amt
  <2>1. s.amount = amount[1] /\ s.rOrder = amount[2] /\ s.locked = locked
    BY DEF SidePrivate
  <2>2. locked = [k \in 1 .. Len(ins) |-> CashCommit(ins[k])]
    BY <1>2 DEF Notes
  <2>3. Len(locked) = Len(ins) /\ DOMAIN locked = DOMAIN ins
    BY <1>2, <2>2
  <2>4. \A k \in DOMAIN ins : locked[k] = CashCommit(ins[k]) /\ locked[k][1] = ins[k].amt
    BY <1>2, <2>2 DEF CashCommit, Commit
  <2>5. QED
    BY <2>1, <2>3, <2>4
<1> HIDE DEF s, locked
<1>8. LockedHashes(s) = LockedOnChain(o)
  BY <1>7 DEF LockedHashes, Slot, LockedOnChain, Inputs
<1>9. LockedSum(s) = Worth2(ins)
  <2>1. ZeroCommit[1] = 0
    BY DEF ZeroCommit, Commit
  <2>2. \A c \in Cashes : c.amt \in Nat
    BY DEF Cashes
  <2>3. Slot(s, 1)[1] = ins[1].amt
    BY <1>2, <1>7 DEF Slot
  <2>4. Slot(s, 2)[1] = IF Len(ins) = 2 THEN ins[2].amt ELSE 0
    BY <1>2, <1>7, <2>1 DEF Slot
  <2>5. QED
    BY <2>3, <2>4 DEF LockedSum, Worth2
<1>10. Needed(s.amount, price, Seller(o)) = Scale(amount[1], price, orders[o].side = "Buy")
  <2>1. (~Seller(o)) = (orders[o].side = "Buy")
    BY <1>1 DEF Seller, Sides
  <2>2. QED
    BY <1>7, <2>1 DEF Needed
<1>11. Opens(o, s)
  BY <1>1, <1>2, <1>3, <1>7, <1>8, <1>9, <1>10 DEF Opens, SanityCheckInput, Commit, MaxLocked
<1>12. QED
  BY <1>6, <1>11

\* An order has the rows of its request, or those of its last settlement, or has an outcome to book.
LEMMA SoundOrdersOpen == WalletSound => ReportedOrdersOpen
<1> SUFFICES ASSUME WalletSound, NEW o \in DOMAIN orders, orders[o].open,
                    orders[o].req \in reported
             PROVE  \/ \E w \in witness : w.order = o
                    \/ \E s \in BuildMyPrivate(o) : Opens(o, s)
  BY DEF ReportedOrdersOpen
<1>1. WalletTyped /\ StoresOK /\ OrdersHeld /\ OrdersOK
  BY DEF WalletSound, WalletHeld, WalletTyped
<1>2. AsPlaced(o) \/ (Len(orders[o].inputs) = 1 /\ (ToBook(o) \/ Kept(o)))
  BY <1>1 DEF OrdersHeld
<1>3. CASE AsPlaced(o)
  <2>1. Staging(ToSet(records), orders[o].req)
    BY <1>1 DEF StoresOK
  <2>2. \A c \in ToSet(orders[o].inputs) : Carries(ToSet(records), c, orders[o].amount)
    BY <1>3, <2>1 DEF AsPlaced, Staging
  <2>3. QED
    BY <1>1, <2>2, CarriedOrderOpens
<1>4. CASE Len(orders[o].inputs) = 1 /\ Kept(o)
  <2>1. ToSet(orders[o].inputs) = {orders[o].inputs[1]}
    BY <1>1, <1>4, FewElements DEF OrdersOK, InputList
  <2>2. \A c \in ToSet(orders[o].inputs) : Carries(ToSet(records), c, orders[o].amount)
    BY <1>4, <2>1 DEF Kept
  <2>3. QED
    BY <1>1, <2>2, CarriedOrderOpens
<1>5. CASE ToBook(o)
  BY <1>5 DEF ToBook
<1>6. QED
  BY <1>2, <1>3, <1>4, <1>5

\* The form never pays twice with the same cash (trade_form.rs: the records are staged before
\* the request is sent, rolled back when the node refuses it, and cash_store.rs saves them), for
\* every cash file and any number of requests, settlements and crashes, as long as no save fails.
THEOREM CashIsPaidOnce == ASSUME FlushResults = {TRUE} PROVE Spec => []NoCashTwice
<1>1. WalletSound => NoCashTwice
  BY DEF WalletSound, WalletHeld, StoresOK, NoCashTwice, Paid
<1>2. QED
  BY <1>1, WalletIsSound, PTL

\* The wallet can open every open order it reported, from the records alone (settle.rs
\* build_my_private, session.rs sanity_check_input), under the same assumption.
THEOREM ReportedOrdersCanSettle == ASSUME FlushResults = {TRUE} PROVE Spec => []ReportedOrdersOpen
  BY SoundOrdersOpen, WalletIsSound, PTL

\* The wallet can reach every cash of its own that is unspent on the chain (trade_form.rs,
\* settle.rs apply_local_settle_outcome, recover at startup), under the same assumption.
THEOREM NoCashIsLost == ASSUME FlushResults = {TRUE} PROVE Spec => []CashIsAccounted
<1>1. WalletSound => CashIsAccounted
  BY DEF WalletSound, WalletHeld
<1>2. QED
  BY <1>1, WalletIsSound, PTL

\* One or two cash as notes.
LEMMA NotesOf ==
  ASSUME NEW cs, cs \in Seq(Cashes), Len(cs) \in 1 .. 2
  PROVE  /\ Fitting(Notes(cs)) /\ Len(Notes(cs)) = Len(cs) /\ DOMAIN Notes(cs) = DOMAIN cs
         /\ DOMAIN cs = 1 .. Len(cs) /\ \A i \in DOMAIN cs : cs[i] \in Cashes
         /\ \A i \in DOMAIN cs : Notes(cs)[i] = <<cs[i].amt, cs[i].r>>
         /\ NotesWorth(Notes(cs)) = Worth2(cs)
<1> DEFINE notes == Notes(cs)
<1>1. DOMAIN cs = 1 .. Len(cs) /\ Len(cs) \in 1 .. 2 /\ \A i \in DOMAIN cs : cs[i] \in Cashes
  BY LenProperties
<1>2. notes = [i \in 1 .. Len(cs) |-> CashCommit(cs[i])]
  BY <1>1 DEF Notes
<1>3. Len(notes) = Len(cs) /\ DOMAIN notes = 1 .. Len(cs)
  BY <1>1, <1>2
<1>4. \A i \in DOMAIN cs : notes[i] = <<cs[i].amt, cs[i].r>>
  BY <1>1, <1>2 DEF CashCommit, Commit
<1>5. \A c \in Cashes : c.amt \in 0 .. MaxAmount /\ c.r \in Int /\ c.amt \in Int
  BY WidthIsInt DEF Cashes
<1> HIDE DEF notes
<1>6. Fitting(notes)
  <2>1. ASSUME NEW i \in DOMAIN notes
        PROVE  notes[i] \in (0 .. MaxAmount) \X Int
    <3>1. i \in DOMAIN cs /\ cs[i] \in Cashes
      BY <1>1, <1>3
    <3>2. cs[i].amt \in 0 .. MaxAmount /\ cs[i].r \in Int /\ notes[i] = <<cs[i].amt, cs[i].r>>
      BY <1>4, <1>5, <3>1
    <3>3. QED
      BY <3>2
  <2>2. Len(notes) \in 1 .. 2 /\ DOMAIN notes = 1 .. Len(notes)
    BY <1>1, <1>3
  <2>3. QED
    BY <2>1, <2>2 DEF Fitting, Fits, Slots
<1>7. NotesWorth(notes) = Worth2(cs)
  <2> DEFINE slots == PadTo(notes, ZeroCommit)
  <2>1. slots = [i \in 1 .. 2 |-> IF i \in DOMAIN notes THEN notes[i] ELSE ZeroCommit]
    BY DEF PadTo, Slots
  <2>2. slots[1] = notes[1] /\ slots[2] = IF Len(cs) = 2 THEN notes[2] ELSE ZeroCommit
    BY <1>1, <1>3, <2>1
  <2>3. ZeroCommit[1] = 0
    BY DEF ZeroCommit, Commit
  <2> HIDE DEF slots
  <2>4. slots[1][1] = cs[1].amt /\ slots[2][1] = IF Len(cs) = 2 THEN cs[2].amt ELSE 0
    BY <1>1, <1>4, <2>2, <2>3
  <2>5. QED
    BY <2>4 DEF NotesWorth, Worth2, slots
<1>8. QED
  BY <1>1, <1>3, <1>4, <1>6, <1>7 DEF notes

\* What build_my_private hands to the provers, past sanity_check_input, they can use.
LEMMA OrderReady ==
  ASSUME WalletTyped, NEW o \in DOMAIN orders, NEW s \in BuildMyPrivate(o), Opens(o, s)
  PROVE  /\ Ready(s, orders[o].price, Seller(o)) /\ s.locked = Notes(Inputs(o))
         /\ LockedSum(s) = Worth2(Inputs(o)) /\ InputList(Inputs(o))
         /\ s.amount \in 1 .. MaxAmount /\ orders[o].price \in 1 .. MaxAmount
<1> DEFINE ins == Inputs(o)
           price == orders[o].price
<1>1. /\ orders[o].side \in Sides /\ price \in 1 .. MaxAmount /\ orders[o].amount \in Commitments
      /\ InputList(ins) /\ Worth2(ins) <= MaxAmount
      /\ ins \in Seq(Cashes) /\ Len(ins) \in 1 .. 2
  BY DEF WalletTyped, OrdersOK, OrderRow, InputList, Inputs
<1>2. PICK x, y : s = SidePrivate(x, y, Notes(ins), draws + 1, draws + 2, draws + 3)
  BY DEF BuildMyPrivate
<1>3. s = SidePrivate(s.amount, s.rOrder, s.locked, s.rOrderNew, s.rLockedNew, s.rRecv)
      /\ s.locked = Notes(ins)
  BY <1>2 DEF SidePrivate
<1>4. <<s.amount, s.rOrder>> = orders[o].amount /\ LockedSum(s) = Needed(s.amount, price, Seller(o))
  BY DEF Opens, SanityCheckInput, Commit
<1>5. s.amount \in 1 .. MaxAmount /\ s.amount \in 0 .. MaxAmount
  BY <1>1, <1>4, WidthIsInt DEF Commitments
<1> HIDE DEF ins, price
<1>6. Fitting(s.locked) /\ NotesWorth(s.locked) = Worth2(ins)
  BY <1>1, <1>3, NotesOf
<1>7. LockedSum(s) = NotesWorth(s.locked)
  BY DEF LockedSum, NotesWorth, Slot, PadTo, Slots
<1>8. Ready(s, price, Seller(o))
  BY <1>1, <1>3, <1>4, <1>5, <1>6, <1>7 DEF Ready
<1>9. QED
  BY <1>1, <1>3, <1>5, <1>6, <1>7, <1>8 DEF ins, price

\* So they can what the counterparties of the model put in.
LEMMA CounterpartyReady ==
  ASSUME NEW o, orders[o].price \in 1 .. MaxAmount, NEW m \in Counterquantities(o)
  PROVE  /\ Ready(Counterparty(o, m), orders[o].price, ~Seller(o)) /\ m \in 1 .. MaxAmount
         /\ Counterparty(o, m).amount = m
<1> DEFINE price == orders[o].price
           need == Needed(m, price, ~Seller(o))
           t == Counterparty(o, m)
           note == Commit(need, -2)
<1>1. m \in 1 .. MaxAmount /\ need <= MaxAmount /\ price \in 1 .. MaxAmount /\ MaxAmount \in Nat
  BY WidthIsInt DEF Counterquantities
<1>2. need \in 0 .. MaxAmount
  <2>1. m * price \in Nat
    BY <1>1, ProductGrows
  <2>2. need = m \/ need = m * price
    BY DEF Needed, Scale
  <2>3. QED
    BY <1>1, <2>1, <2>2
<1>3. t = SidePrivate(m, -1, <<note>>, -3, -4, -5)
  BY DEF Counterparty
<1> HIDE DEF t, need
<1>4. t.amount = m /\ t.locked = <<note>> /\ note[1] = need /\ note \in (0 .. MaxAmount) \X Int
      /\ t = SidePrivate(t.amount, t.rOrder, t.locked, t.rOrderNew, t.rLockedNew, t.rRecv)
  BY <1>2, <1>3 DEF SidePrivate, Commit
<1> HIDE DEF note
<1>5. Fitting(t.locked) /\ PadTo(t.locked, ZeroCommit) = <<note, ZeroCommit>>
  BY <1>4, FittingNotes
<1>6. LockedSum(t) = need
  <2>1. LockedSum(t) = PadTo(t.locked, ZeroCommit)[1][1] + PadTo(t.locked, ZeroCommit)[2][1]
    BY DEF LockedSum, Slot, PadTo, Slots
  <2>2. ZeroCommit[1] = 0
    BY DEF ZeroCommit, Commit
  <2>3. QED
    BY <1>2, <1>4, <1>5, <2>1, <2>2
<1>7. Ready(t, price, ~Seller(o))
  <2> HIDE DEF price
  <2>1. t.amount \in 0 .. MaxAmount
    BY <1>1, <1>4
  <2>2. LockedSum(t) = Needed(t.amount, price, ~Seller(o))
    BY <1>4, <1>6 DEF need
  <2>3. LockedSum(t) <= MaxAmount
    BY <1>1, <1>6
  <2>4. QED
    BY <1>4, <1>5, <2>1, <2>2, <2>3 DEF Ready
<1>8. QED
  BY <1>1, <1>4, <1>7 DEF t

\* The two sides by role, ready for their roles.
LEMMA SidesReady ==
  ASSUME NEW o, NEW s, NEW t, NEW maker \in BOOLEAN, NEW price,
         Ready(s, price, Seller(o)), Ready(t, price, ~Seller(o))
  PROVE  /\ Ready(SideA(s, t, maker), price, ASells(o, maker))
         /\ Ready(SideB(s, t, maker), price, ~ASells(o, maker))
         /\ ASells(o, maker) \in BOOLEAN
<1>1. Seller(o) \in BOOLEAN
  BY DEF Seller
<1>2. CASE maker
  <2>1. SideA(s, t, maker) = s /\ SideB(s, t, maker) = t /\ ASells(o, maker) = Seller(o)
    BY <1>1, <1>2 DEF SideA, SideB, ASells
  <2>2. QED
    BY <1>1, <2>1
<1>3. CASE ~maker
  <2>1. SideA(s, t, maker) = t /\ SideB(s, t, maker) = s /\ ASells(o, maker) = ~Seller(o)
        /\ (~ASells(o, maker)) = Seller(o)
    BY <1>1, <1>3 DEF SideA, SideB, ASells
  <2>2. QED
    BY <1>1, <2>1
<1>4. QED
  BY <1>2, <1>3

\* Both provers of the joint settlement, the collaborative one under every mask its comparisons
\* may draw (cozk2p mpc_compare.rs, session.rs) and the single one (lib/zk/src/wallet.rs
\* prove_settle_cozk), make the one statement compute_public has, for every order a wallet
\* can open, against every counterparty, at every width of the amounts.
THEOREM ProversAlwaysAgree == Spec => []ProversAgree
<1>1. ASSUME WalletTyped, NEW o \in DOMAIN orders, NEW s \in BuildMyPrivate(o), Opens(o, s),
             NEW m \in Counterquantities(o), NEW maker \in BOOLEAN
      PROVE  LET a == SideA(s, Counterparty(o, m), maker)
                 b == SideB(s, Counterparty(o, m), maker)
                 p == orders[o].price
                 st == ComputePublic(a, b, p, ASells(o, maker))
             IN  /\ Cardinality(st) = 1
                 /\ {} \notin CompareThreeWay(a.amount, b.amount)
                 /\ SessionStatements(a, b, p, ASells(o, maker)) = st
                 /\ ProveSettleCoZk(a, b, p, ASells(o, maker)) = st
                 /\ \A x \in st : SettleRelation(x, a, b)
  <2> DEFINE t == Counterparty(o, m)
             a == SideA(s, t, maker)
             b == SideB(s, t, maker)
             p == orders[o].price
             aSells == ASells(o, maker)
             x == Statement(a, b, p, aSells)
  <2>1. p \in 1 .. MaxAmount /\ Ready(s, p, Seller(o))
    BY <1>1, OrderReady
  <2>2. Ready(t, p, ~Seller(o))
    BY <2>1, CounterpartyReady
  <2>3. Ready(a, p, aSells) /\ Ready(b, p, ~aSells) /\ aSells \in BOOLEAN
    <3> HIDE DEF t, p
    <3>1. QED
      BY <2>1, <2>2, SidesReady
  <2>4. /\ CompareThreeWay(a.amount, b.amount) = {{Sign(a.amount, b.amount)}}
        /\ ComputePublic(a, b, p, aSells) = {x}
        /\ SessionStatements(a, b, p, aSells) = {x}
        /\ ProveSettleCoZk(a, b, p, aSells) = {x}
        /\ SettleRelation(x, a, b)
    <3> HIDE DEF t, p, a, b, aSells
    <3>1. QED
      BY <2>1, <2>3, ProversMakeOneStatement
  <2> HIDE DEF x
  <2>5. Cardinality({x}) = 1
    BY FS_Singleton
  <2>6. {} \notin {{Sign(a.amount, b.amount)}}
    OBVIOUS
  <2>7. QED
    BY <2>4, <2>5, <2>6
<1>2. WalletTyped => ProversAgree
  BY <1>1 DEF ProversAgree
<1>3. QED
  BY <1>2, WalletKeepsItsForm, PTL

\* The one or two Active cash a withdrawal takes.
LEMMA WithdrawableCash ==
  ASSUME RecordsOK(records), NEW cs \in Withdrawable
  PROVE  InputList(cs)
<1>1. PICK t \in {Token1, Token2} :
        cs \in LET us == Usable(records, t) IN
               {<<us[i]>> : i \in DOMAIN us} \cup
               {<<us[p[1]], us[p[2]]>> : p \in {p \in (DOMAIN us) \X (DOMAIN us) : p[1] # p[2]}}
  BY DEF Withdrawable
<1> DEFINE us == Usable(records, t)
<1>2. us \in Seq(Cashes) /\ Different(us)
  BY UsableCash DEF RecordsOK
<1>3. \A i \in DOMAIN us : us[i] \in Cashes
  BY <1>2, LenProperties
<1>4. (\E i \in DOMAIN us : cs = <<us[i]>>)
      \/ \E i, j \in DOMAIN us : i # j /\ cs = <<us[i], us[j]>>
  BY <1>1
<1> HIDE DEF us
<1>5. ASSUME NEW i \in DOMAIN us, cs = <<us[i]>>
      PROVE  InputList(cs)
  BY <1>3, <1>5 DEF InputList, Different
<1>6. ASSUME NEW i \in DOMAIN us, NEW j \in DOMAIN us, i # j, cs = <<us[i], us[j]>>
      PROVE  InputList(cs)
  <2>1. us[i] \in Cashes /\ us[j] \in Cashes /\ us[i] # us[j]
    BY <1>2, <1>3, <1>6 DEF Different
  <2>2. cs \in Seq(Cashes) /\ Len(cs) = 2 /\ DOMAIN cs = {1, 2} /\ cs[1] = us[i] /\ cs[2] = us[j]
    BY <1>6, <2>1
  <2>3. QED
    BY <2>1, <2>2 DEF InputList, Different
<1>7. QED
  BY <1>4, <1>5, <1>6

\* Every withdrawal and every deposit of the client (lib/chain/src/chain.rs deposit, withdraw)
\* carries a proof for the vector the chain rebuilds, balances, and reports its change, for
\* every cash file and width of the amounts, in every state of a wallet.
THEOREM WithdrawalsAlwaysVerify == Spec => []WithdrawalsVerify
<1>1. ASSUME WalletTyped, NEW cs \in Withdrawable, Worth(cs) <= MaxAmount,
             NEW amount \in 1 .. Worth(cs)
      PROVE  LET reqs == ClientWithdraw(amount, Notes(cs), draws)
                 deps == ClientDeposit(amount, draws)
             IN  /\ Cardinality(reqs) = 1 /\ Cardinality(deps) = 1
                 /\ \A w \in reqs :
                      LET q == w.params IN
                      /\ q.proof = WithdrawSignals(q.bridge, Notes(cs), q.outputs)
                      /\ q.bridge[1] + q.outputs[1][1] + q.outputs[2][1] = Worth(cs)
                      /\ w.reported = {out \in ToSet(q.outputs) : out[1] # 0}
                 /\ \A q \in deps : q.proof = DepositSignals(q.bridge, q.output)
  <2> DEFINE reqs == ClientWithdraw(amount, Notes(cs), draws)
             deps == ClientDeposit(amount, draws)
             worth == Worth(cs)
             rest == worth - amount
             bridge == Commit(amount, draws + 1)
             change == Commit(rest, draws + 2)
             outputs == <<change, ZeroCommit>>
             reported_ == IF rest = 0 THEN {} ELSE {change}
             params == WithdrawParams(bridge, outputs, WithdrawSignals(bridge, Notes(cs), outputs))
             request == [params |-> params, reported |-> reported_]
             dbridge == Commit(amount, draws + 2)
             doutput == Commit(amount, draws + 1)
             deposit == DepositParams(dbridge, doutput, DepositSignals(dbridge, doutput))
  <2>1. draws \in Nat /\ InputList(cs) /\ cs \in Seq(Cashes) /\ Len(cs) \in 1 .. 2
    BY <1>1, WithdrawableCash DEF WalletTyped, InputList
  <2>2. Fitting(Notes(cs)) /\ NotesWorth(Notes(cs)) = worth /\ worth \in Nat /\ MaxAmount \in Nat
    BY <2>1, NotesOf, WorthIsWorth2, WidthIsInt
  <2>3. amount \in 0 .. worth /\ amount \in 0 .. MaxAmount /\ worth <= MaxAmount
    BY <1>1, <2>2
  <2>4. reqs = {request}
    <3> DEFINE notes == Notes(cs)
               Result(value) ==
                 LET left == value - amount
                     paid == Commit(amount, draws + 1)
                     back == Commit(left, draws + 2)
                 IN  {[params |-> WithdrawParams(paid, <<back, ZeroCommit>>,
                                    WithdrawSignals(paid, notes, <<back, ZeroCommit>>)),
                       reported |-> IF left = 0 THEN {} ELSE {back}]}
    <3>1. reqs = ClientWithdraw(amount, notes, draws) /\ {request} = Result(worth)
      OBVIOUS
    <3> HIDE DEF worth, notes, reqs, request
    <3>2. ClientWithdraw(amount, notes, draws) = Result(NotesWorth(notes))
      <4>1. /\ Fitting(notes) /\ NotesWorth(notes) <= MaxAmount
            /\ amount \in 0 .. NotesWorth(notes) /\ draws \in Nat
        BY <2>1, <2>2, <2>3 DEF notes
      <4>2. QED
        BY <4>1, WithdrawalVerifies
    <3> HIDE DEF Result
    <3>3. QED
      BY <2>2, <3>1, <3>2 DEF notes
  <2>5. deps = {deposit}
    BY <2>1, <2>3, DepositVerifies
  <2> HIDE DEF reqs, deps
  <2>6. Cardinality(reqs) = 1 /\ Cardinality(deps) = 1
    <3> HIDE DEF request, deposit
    <3>1. QED
      BY <2>4, <2>5, FS_Singleton
  <2>7. /\ params.bridge = bridge /\ params.outputs = outputs
        /\ params.proof = WithdrawSignals(bridge, Notes(cs), outputs)
    BY DEF WithdrawParams
  <2>8. /\ deposit.bridge = dbridge /\ deposit.output = doutput
        /\ deposit.proof = DepositSignals(dbridge, doutput)
    BY DEF DepositParams
  <2>9. bridge[1] + outputs[1][1] + outputs[2][1] = worth
    <3>1. bridge[1] = amount /\ outputs[1][1] = rest /\ outputs[2][1] = 0
      BY DEF Commit, ZeroCommit
    <3> HIDE DEF bridge, outputs, worth
    <3>2. QED
      BY <2>2, <2>3, <3>1
  <2>10. reported_ = {out \in ToSet(outputs) : out[1] # 0}
    <3>1. ToSet(outputs) = {change, ZeroCommit}
      <4> DEFINE zero == ZeroCommit
      <4> HIDE DEF change, zero
      <4>1. DOMAIN <<change, zero>> = {1, 2}
        OBVIOUS
      <4>2. QED
        BY <4>1 DEF ToSet, zero
    <3>2. change[1] = rest /\ ZeroCommit[1] = 0
      BY DEF Commit, ZeroCommit
    <3> HIDE DEF change, rest, outputs
    <3>3. QED
      BY <3>1, <3>2
  <2> HIDE DEF params, deposit, reported_
  <2>11. request.params = params /\ request.reported = reported_
    OBVIOUS
  <2> HIDE DEF request, bridge, outputs, dbridge, doutput, worth
  <2>12. \A w \in reqs :
           LET q == w.params IN
           /\ q.proof = WithdrawSignals(q.bridge, Notes(cs), q.outputs)
           /\ q.bridge[1] + q.outputs[1][1] + q.outputs[2][1] = worth
           /\ w.reported = {out \in ToSet(q.outputs) : out[1] # 0}
    BY <2>4, <2>7, <2>9, <2>10, <2>11
  <2>13. \A q \in deps : q.proof = DepositSignals(q.bridge, q.output)
    BY <2>5, <2>8
  <2>14. QED
    BY <2>6, <2>12, <2>13 DEF reqs, deps, worth
<1>2. WalletTyped => WithdrawalsVerify
  BY <1>1 DEF WithdrawalsVerify
<1>3. QED
  BY <1>2, WalletKeepsItsForm, PTL

\* Both legs of a legacy settlement (lib/zk/src/wallet.rs prove_settle_larger and
\* prove_settle_smaller) prove the fill for the vectors the chain rebuilds, for every order a
\* wallet can open, against every counterparty, at every width of the amounts.
THEOREM LegsAlwaysVerify == Spec => []LegsVerify
<1>1. ASSUME WalletTyped, NEW o \in DOMAIN orders, NEW s \in BuildMyPrivate(o), Opens(o, s),
             NEW m \in Counterquantities(o)
      PROVE  LET price == orders[o].price
                 fill == Smaller(s.amount, m)
                 mine == Needed(fill, price, Seller(o))
                 other == Needed(fill, price, ~Seller(o))
                 change == Commit(Worth(Inputs(o)) - mine, draws + 1)
                 recv == Commit(mine, -1)
             IN  IF fill < s.amount
                 THEN ProveSettleLarger(draws + 2, other, -2, price, ~Seller(o), s.locked, change,
                                        recv)
                      = {SettleLargerSignals(Commit(mine, draws + 2), Commit(other, -2), price,
                                             ~Seller(o), Hashes(s.locked), change, recv)}
                 ELSE ProveSettleSmaller(draws + 2, s.locked, recv)
                      = {<<Commit(mine, draws + 2)>> \o InputSignals(Hashes(s.locked))
                         \o <<recv>>}
  <2> DEFINE price == orders[o].price
             seller == Seller(o)
             t == Counterparty(o, m)
             fill == Smaller(s.amount, m)
             mine == Needed(fill, price, seller)
             other == Needed(fill, price, ~seller)
             change == Commit(LockedSum(s) - mine, draws + 1)
             recv == Commit(mine, -1)
  <2>1. /\ Ready(s, price, seller) /\ LockedSum(s) = Worth(Inputs(o))
        /\ s.amount \in 1 .. MaxAmount /\ price \in 1 .. MaxAmount
    BY <1>1, OrderReady, WorthIsWorth2
  <2>2. Ready(t, price, ~seller) /\ t.amount = m /\ m \in 1 .. MaxAmount
    BY <2>1, CounterpartyReady
  <2>3. seller \in BOOLEAN
    BY DEF Seller
  <2> HIDE DEF price, seller, t
  <2>4. fill \in 0 .. s.amount /\ fill * price <= MaxAmount
    BY <2>1, <2>2, <2>3, FillFits
  <2>5. ~(fill < s.amount) => fill = s.amount
    BY <2>1, <2>2, <2>4 DEF Smaller
  <2> HIDE DEF fill
  <2>6. /\ LargerLeg(s.locked, mine, draws + 2, other, -2, price, ~seller, change, recv)
        /\ fill = s.amount => SmallerLeg(s.locked, mine, draws + 2, recv)
    <3> HIDE DEF recv
    <3>1. QED
      BY <2>1, <2>3, <2>4, LegsAreProved
  <2>7. QED
    BY <2>1, <2>5, <2>6 DEF LargerLeg, SmallerLeg, price, seller, fill
<1>2. WalletTyped => LegsVerify
  BY <1>1 DEF LegsVerify
<1>3. QED
  BY <1>2, WalletKeepsItsForm, PTL
=============================================================================
