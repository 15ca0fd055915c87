----------------------- MODULE PaperWalletSerial_proofs -----------------------
(***************************************************************************)
(* Theorems about PaperWallet when the operations on one wallet do not     *)
(* overlap (SerialSpec): the books balance, no instrument is held twice,   *)
(* and the wallet implements the account of PaperAccount.                  *)
(***************************************************************************)
EXTENDS PaperWallet_proofs, FiniteSetTheorems

-----------------------------------------------------------------------------
(* Sums over a finite set.  SumFunctionOnSet adds the values in the order   *)
(* in which CHOOSE picks the elements; the lemmas show that it exists and   *)
(* that the order does not matter.                                          *)

\* g gives the sum of h over every subset of S.
Additive(g, h, S) ==
    /\ g \in [SUBSET S -> Nat]
    /\ g[{}] = 0
    /\ \A T \in SUBSET S, x \in S : x \in T => g[T] = h[x] + g[T \ {x}]

\* A non-empty family of subsets of a finite set has a minimal member.
LEMMA MinimalSubset ==
    ASSUME NEW S, IsFiniteSet(S), NEW F, F \subseteq SUBSET S, F # {}
    PROVE  \E T \in F : \A U \in F : ~(U \subseteq T /\ U # T)
<1>1. FiniteSubsetsOf(S) = SUBSET S
  BY FS_FiniteSubsetsOfFinite
<1>2. IsWellFoundedOn(StrictSubsetOrdering(S), SUBSET S)
  BY <1>1, FS_StrictSubsetOrderingWellFounded
<1>3. PICK T \in F : \A U \in F : ~(<<U, T>> \in StrictSubsetOrdering(S))
  BY <1>2, WFMin
<1>4. ASSUME NEW U \in F, U \subseteq T, U # T
      PROVE  <<U, T>> \in StrictSubsetOrdering(S)
  <2>1. <<U, T>> \in (SUBSET S) \X (SUBSET S)
    BY <1>4
  <2>. QED BY <2>1, <1>4 DEF StrictSubsetOrdering
<1>5. \A U \in F : ~(U \subseteq T /\ U # T)
  BY <1>3, <1>4
<1>. QED BY <1>5

LEMMA AdditiveExists ==
    ASSUME NEW S, IsFiniteSet(S), NEW h, \A x \in S : h[x] \in Nat
    PROVE  \E g : Additive(g, h, S)
<1>. DEFINE F == {T \in SUBSET S : ~ \E g : Additive(g, h, T)}
<1>1. SUFFICES ASSUME F # {} PROVE FALSE
  OBVIOUS
<1>2. PICK T \in F : \A U \in F : ~(U \subseteq T /\ U # T)
  <2>1. F \subseteq SUBSET S
    OBVIOUS
  <2>. HIDE DEF F
  <2>. QED BY <1>1, <2>1, MinimalSubset
<1>3. T \in SUBSET S /\ ~ \E g : Additive(g, h, T)
  BY <1>2
<1>4. CASE T = {}
  <2>. DEFINE g == [U \in SUBSET T |-> 0]
  <2>1. Additive(g, h, T)
    BY <1>4 DEF Additive
  <2>. QED BY <1>3, <2>1
<1>5. CASE T # {}
  <2>1. PICK x \in T : TRUE
    BY <1>5
  <2>. DEFINE V == T \ {x}
  <2>2. PICK f : Additive(f, h, V)
    <3>1. V \notin F
      BY <1>2, <2>1
    <3>. QED BY <1>3, <3>1
  <2>. DEFINE g == [U \in SUBSET T |-> IF x \in U THEN h[x] + f[U \ {x}] ELSE f[U]]
  <2>3. h[x] \in Nat /\ f \in [SUBSET V -> Nat]
    BY <1>3, <2>1, <2>2 DEF Additive
  <2>4. \A U \in SUBSET T : U \ {x} \in SUBSET V /\ (x \notin U => U \in SUBSET V)
    OBVIOUS
  <2>5. g \in [SUBSET T -> Nat]
    BY <2>3, <2>4
  <2>6. g[{}] = 0
    BY <2>2 DEF Additive
  <2>7. ASSUME NEW U \in SUBSET T, NEW y \in T, y \in U
        PROVE  g[U] = h[y] + g[U \ {y}]
    <3>1. U \ {y} \in SUBSET T
      OBVIOUS
    <3>2. CASE y = x
      BY <2>7, <3>1, <3>2
    <3>3. CASE y # x /\ x \notin U
      BY <2>2, <2>4, <2>7, <3>1, <3>3 DEF Additive
    <3>4. CASE y # x /\ x \in U
      <4>. DEFINE rest == f[(U \ {y}) \ {x}]
      <4>1. (U \ {x}) \ {y} = (U \ {y}) \ {x}
        OBVIOUS
      <4>2. f[U \ {x}] = h[y] + rest
        BY <2>2, <2>4, <2>7, <3>4, <4>1 DEF Additive
      <4>3. g[U] = h[x] + f[U \ {x}] /\ g[U \ {y}] = h[x] + rest
        BY <3>1, <3>4
      <4>4. h[y] \in Nat /\ rest \in Nat /\ h[x] \in Nat
        BY <1>3, <2>3, <2>4, <3>1
      <4>. HIDE DEF g, rest
      <4>5. h[x] + (h[y] + rest) = h[y] + (h[x] + rest)
        BY <4>4
      <4>. QED BY <4>2, <4>3, <4>5
    <3>. QED BY <3>2, <3>3, <3>4
  <2>8. Additive(g, h, T)
    BY <2>5, <2>6, <2>7 DEF Additive
  <2>. QED BY <1>3, <2>8
<1>. QED BY <1>4, <1>5

\* The library's sum is that function's value.
LEMMA SumIsAdditive ==
    ASSUME NEW S, IsFiniteSet(S), NEW h, NEW g, Additive(g, h, S)
    PROVE  SumFunctionOnSet(h, S) = g[S]
<1>. DEFINE pick(T) == CHOOSE x \in T : TRUE
            eq(it) == it = [T \in SUBSET S |-> IF T = {} THEN 0
                                               ELSE h[pick(T)] + it[T \ {pick(T)}]]
            iter == CHOOSE it : eq(it)
<1>1. SumFunctionOnSet(h, S) = iter[S]
  BY DEF SumFunctionOnSet, FoldFunctionOnSet, MapThenFoldSet
<1>2. \A T \in SUBSET S : T # {} => pick(T) \in T
  OBVIOUS
<1>. HIDE DEF pick
<1>3. eq(g)
  <2>1. ASSUME NEW T \in SUBSET S
        PROVE  g[T] = IF T = {} THEN 0 ELSE h[pick(T)] + g[T \ {pick(T)}]
    BY <1>2 DEF Additive
  <2>2. g = [T \in SUBSET S |-> g[T]]
    BY DEF Additive
  <2>. QED BY <2>1, <2>2
<1>4. eq(iter)
  BY <1>3
<1>. HIDE DEF iter
<1>5. iter = g
  <2>. DEFINE F == {T \in SUBSET S : iter[T] # g[T]}
  <2>1. SUFFICES F = {}
    <3>1. \A T \in SUBSET S : iter[T] = g[T]
      BY <2>1
    <3>2. iter = [T \in SUBSET S |-> iter[T]] /\ g = [T \in SUBSET S |-> g[T]]
      BY <1>3, <1>4
    <3>. QED BY <3>1, <3>2
  <2>2. SUFFICES ASSUME F # {} PROVE FALSE
    OBVIOUS
  <2>3. PICK T \in F : \A U \in F : ~(U \subseteq T /\ U # T)
    <3>1. F \subseteq SUBSET S
      OBVIOUS
    <3>. HIDE DEF F
    <3>. QED BY <2>2, <3>1, MinimalSubset
  <2>4. /\ iter[T] = IF T = {} THEN 0 ELSE h[pick(T)] + iter[T \ {pick(T)}]
        /\ g[T]    = IF T = {} THEN 0 ELSE h[pick(T)] + g[T \ {pick(T)}]
    BY <1>3, <1>4, <2>3
  <2>5. T # {} => iter[T \ {pick(T)}] = g[T \ {pick(T)}]
    BY <1>2, <2>3
  <2>. QED BY <2>3, <2>4, <2>5
<1>. QED BY <1>1, <1>5

LEMMA SumOfNone == ASSUME NEW h PROVE SumFunctionOnSet(h, {}) = 0
<1>1. IsFiniteSet({})
  BY FS_EmptySet
<1>2. PICK g : Additive(g, h, {})
  BY <1>1, AdditiveExists
<1>. QED BY <1>1, <1>2, SumIsAdditive DEF Additive

\* One element taken out of the sum.
LEMMA SumSplit ==
    ASSUME NEW S, IsFiniteSet(S), NEW h, \A y \in S : h[y] \in Nat, NEW x \in S
    PROVE  /\ SumFunctionOnSet(h, S) = h[x] + SumFunctionOnSet(h, S \ {x})
           /\ SumFunctionOnSet(h, S \ {x}) \in Nat
<1>1. PICK g : Additive(g, h, S)
  BY AdditiveExists
<1>. DEFINE R == S \ {x}
            f == [T \in SUBSET R |-> g[T]]
<1>2. IsFiniteSet(R)
  BY FS_RemoveElement
<1>3. Additive(f, h, R)
  <2>1. SUBSET R \subseteq SUBSET S
    OBVIOUS
  <2>2. f \in [SUBSET R -> Nat] /\ f[{}] = 0
    BY <1>1, <2>1 DEF Additive
  <2>3. ASSUME NEW T \in SUBSET R, NEW y \in R, y \in T
        PROVE  f[T] = h[y] + f[T \ {y}]
    <3>1. T \in SUBSET S /\ y \in S /\ T \ {y} \in SUBSET R
      OBVIOUS
    <3>2. g[T] = h[y] + g[T \ {y}]
      BY <1>1, <2>3, <3>1 DEF Additive
    <3>. QED BY <3>1, <3>2
  <2>. QED BY <2>2, <2>3 DEF Additive
<1>4. SumFunctionOnSet(h, S) = g[S] /\ SumFunctionOnSet(h, R) = f[R]
  <2>. HIDE DEF R, f
  <2>. QED BY <1>1, <1>2, <1>3, SumIsAdditive
<1>5. g[S] = h[x] + g[R] /\ g[R] \in Nat /\ f[R] = g[R]
  BY <1>1 DEF Additive
<1>. QED BY <1>4, <1>5

\* A sum depends only on the values it adds.
LEMMA SumAgrees ==
    ASSUME NEW S, IsFiniteSet(S), NEW h, NEW k,
           \A y \in S : h[y] \in Nat /\ k[y] = h[y]
    PROVE  SumFunctionOnSet(k, S) = SumFunctionOnSet(h, S)
<1>1. PICK g : Additive(g, h, S)
  BY AdditiveExists
<1>2. Additive(g, k, S)
  BY <1>1 DEF Additive
<1>. QED BY <1>1, <1>2, SumIsAdditive

-----------------------------------------------------------------------------
(* The inductive invariant.  The balances alone are not inductive: a write  *)
(* uses copies of the row and of the wallet made steps before.  Serial      *)
(* operations keep those copies true (FreshLoc), at most one caller being   *)
(* inside an operation (OneBusy), while ticks begin and end, flags flip and *)
(* days pass around it.                                                     *)

OneBusy == \A c, d \in Callers : Quiet(c) \/ Quiet(d) \/ c = d

\* Shares are held by open rows only; there is no row before the funding.
BookSound ==
    /\ \A p \in Pos \ Open : pos[p].qty = 0
    /\ ~wallet.funded => Open \cup Closed = {}

\* Row q is no obstacle to a new open row r.
Apart(r, q) ==
    Inst(pos[q]) = Inst(r) => Inst(r) \in Intraday /\ pos[q].key[2] # r.key[2]

FreshLoc(l) ==
    /\ l.at \notin {"idle", "fund"} => wallet.funded
    /\ l.at \in {"close", "closeTx", "partial", "partialTx"} => l.p \in Open /\ l.row = pos[l.p]
    /\ l.at \in {"partial", "partialTx"} => 0 < l.sell
    /\ l.at \in {"closeTx", "partialTx", "openTx", "voidTx"} => l.w = wallet
    /\ l.at \in {"open", "openTx"} => \A q \in Open : Apart(l.row, q)
    /\ l.at = "openTx" => Held(l.row) <= l.w.cash
    /\ l.at \in {"archive", "reset"} => Open = {}

Balanced == Reconciled /\ ReservedBacked /\ LedgerExplains

SerialInv ==
    /\ RaceInv
    /\ BookSound
    /\ OneBusy
    /\ \A c \in Callers : FreshLoc(loc[c])
    /\ Balanced
    /\ OneOpenPerInstrument

Cost == [p \in Pos |-> Held(pos[p])]

LEMMA CostType ==
    ASSUME TypeOK
    PROVE  /\ \A p \in Pos : pos[p] \in Row /\ Cost[p] = Held(pos[p]) /\ Cost[p] \in Nat
           /\ IsFiniteSet(Pos) /\ IsFiniteSet(Open) /\ Open \subseteq Pos
<1>1. \A p \in Pos : pos[p] \in Row
  BY DEF TypeOK
<1>2. \A p \in Pos : Held(pos[p]) \in Nat
  BY <1>1, HeldType
<1>3. IsFiniteSet(Pos)
  <2>1. 1 \in Int /\ MaxPos \in Int
    BY AmountsAreNumbers
  <2>. QED BY <2>1, FS_Interval DEF Pos
<1>4. Open \subseteq Pos
  BY DEF Open
<1>5. IsFiniteSet(Open)
  BY <1>3, <1>4, FS_Subset
<1>. QED BY <1>1, <1>2, <1>3, <1>4, <1>5 DEF Cost

\* The reserve covers every open row.
LEMMA ReserveCovers ==
    ASSUME TypeOK, ReservedBacked, NEW p \in Open
    PROVE  Held(pos[p]) <= wallet.reserved
<1>. DEFINE rest == SumFunctionOnSet(Cost, Open \ {p})
<1>1. /\ \A q \in Open : Cost[q] \in Nat
      /\ IsFiniteSet(Open) /\ Cost[p] = Held(pos[p])
  BY CostType
<1>2. SumFunctionOnSet(Cost, Open) = Cost[p] + rest /\ rest \in Nat
  BY <1>1, SumSplit
<1>3. wallet.reserved = SumFunctionOnSet(Cost, Open)
  BY DEF ReservedBacked, Cost
<1>. HIDE DEF rest
<1>. QED BY <1>1, <1>2, <1>3

-----------------------------------------------------------------------------
(* What the writes do to the books when their copies are true.              *)

Sold(p, cost, net) ==
    /\ p \in Open /\ wallet.funded
    /\ cost \in Nat /\ net \in Int /\ 0 < cost /\ cost <= Held(pos[p])
    /\ wallet'.funded = wallet.funded
    /\ wallet'.cash = wallet.cash + cost + net
    /\ wallet'.reserved = wallet.reserved - cost
    /\ wallet'.realized = wallet.realized + net
    /\ ledgerPnl' = ledgerPnl + net
    /\ \A q \in Pos \ {p} : pos'[q] = pos[q]
    /\ Held(pos'[p]) = Held(pos[p]) - cost
    /\ pos'[p].key = pos[p].key
    /\ \/ pos'[p].status = "open"
       \/ pos'[p].status = "closed" /\ pos'[p].qty = 0

Bought(p, cost) ==
    /\ p \in Pos \ Open /\ wallet.funded
    /\ cost \in Nat /\ 0 < cost /\ cost <= wallet.cash
    /\ wallet'.funded = wallet.funded
    /\ wallet'.cash = wallet.cash - cost
    /\ wallet'.reserved = wallet.reserved + cost
    /\ wallet'.realized = wallet.realized
    /\ ledgerPnl' = ledgerPnl
    /\ \A q \in Pos \ {p} : pos'[q] = pos[q]
    /\ Held(pos'[p]) = cost
    /\ pos'[p].status = "open"
    /\ \A q \in Open : Apart(pos'[p], q)

\* Money is proportional to shares.
LEMMA PriceOfParts ==
    ASSUME NEW a \in Nat, NEW b \in Nat, b <= a
    PROVE  /\ Price * a \in Nat /\ Price * b \in Nat
           /\ Price * (a - b) = Price * a - Price * b
           /\ Price * b <= Price * a
           /\ 0 < b => 0 < Price * b
BY AmountsAreNumbers

LEMMA CreditExact ==
    ASSUME wallet \in Wallet, NEW cost \in Nat, NEW net \in Int,
           cost <= wallet.reserved, Credit(wallet, cost, net)
    PROVE  /\ wallet'.funded = wallet.funded
           /\ wallet'.cash = wallet.cash + cost + net
           /\ wallet'.reserved = wallet.reserved - cost
           /\ wallet'.realized = wallet.realized + net
<1>1. wallet.reserved \in Nat
  BY DEF Wallet
<1>2. (IF wallet.reserved > cost THEN wallet.reserved - cost ELSE 0) = wallet.reserved - cost
  BY <1>1
<1>. QED BY <1>2 DEF Credit, Wallet

LEMMA CloseSells ==
    ASSUME SerialInv, NEW c \in Callers, CloseWrite(c)
    PROVE  \E p \in Pos, cost \in Nat, net \in Int : Sold(p, cost, net)
<1>. DEFINE l == loc[c]
            p == l.p
            row == pos[p]
<1>1. /\ TypeOK /\ p \in Open /\ p \in Pos /\ l.row = row /\ l.w = wallet
      /\ row \in Row /\ wallet.funded /\ wallet \in Wallet
  BY DEF SerialInv, RaceInv, TypeOK, FreshLoc, CloseWrite, Loc, Open
<1>2. PICK m \in Moves, mark \in {"compatible", "edge"} :
         /\ Credit(l.w, Held(l.row), m * l.row.qty)
         /\ pos' = [pos EXCEPT ![l.p].status = "closed", ![l.p].qty = 0,
                               ![l.p].pnl = l.row.pnl + m * l.row.qty,
                               ![l.p].closedOn = day, ![l.p].mark = mark]
         /\ ledgerPnl' = ledgerPnl + m * l.row.qty
  BY DEF CloseWrite
<1>. DEFINE net == m * row.qty
            cost == Held(row)
<1>3. row.qty \in Nat /\ 0 < row.qty
  BY <1>1 DEF SerialInv, RaceInv, RowSound, Open, Row
<1>4. cost \in Nat /\ 0 < cost /\ net \in Int
  <2>1. cost = Price * row.qty
    BY DEF Held
  <2>2. m \in Int
    BY AmountsAreNumbers
  <2>. HIDE DEF row, cost
  <2>3. net \in Int
    BY <1>3, <2>2
  <2>. QED BY <1>3, <2>1, <2>3, PriceOfParts
<1>5. cost <= wallet.reserved
  BY <1>1, ReserveCovers DEF SerialInv, Balanced
<1>6. Credit(wallet, cost, net) /\ ledgerPnl' = ledgerPnl + net
  BY <1>1, <1>2
<1>7. /\ \A q \in Pos \ {p} : pos'[q] = pos[q]
      /\ pos'[p].key = pos[p].key /\ pos'[p].status = "closed" /\ pos'[p].qty = 0
  BY <1>1, <1>2 DEF TypeOK, Row
<1>8. Held(pos'[p]) = Held(pos[p]) - cost
  <2>1. Held(pos'[p]) = Price * 0
    BY <1>7 DEF Held
  <2>2. Price * 0 = 0 /\ Held(pos[p]) - cost = 0
    BY <1>4, AmountsAreNumbers
  <2>. QED BY <2>1, <2>2
<1>9. /\ wallet'.funded = wallet.funded
      /\ wallet'.cash = wallet.cash + cost + net
      /\ wallet'.reserved = wallet.reserved - cost
      /\ wallet'.realized = wallet.realized + net
  <2>. HIDE DEF cost, net
  <2>. QED BY <1>1, <1>4, <1>5, <1>6, CreditExact
<1>10. cost <= Held(pos[p])
  BY <1>4
<1>11. Sold(p, cost, net)
  <2>. HIDE DEF cost, net, p
  <2>. QED BY <1>1, <1>4, <1>6, <1>7, <1>8, <1>9, <1>10 DEF Sold
<1>. HIDE DEF cost, net, p
<1>. QED BY <1>1, <1>4, <1>11

LEMMA PartialSells ==
    ASSUME SerialInv, NEW c \in Callers, PartialWrite(c)
    PROVE  \E p \in Pos, cost \in Nat, net \in Int : Sold(p, cost, net)
<1>. DEFINE l == loc[c]
            p == l.p
            row == pos[p]
            sell == l.sell
<1>1. /\ TypeOK /\ p \in Open /\ p \in Pos /\ l.row = row /\ l.w = wallet
      /\ row \in Row /\ wallet.funded /\ wallet \in Wallet
      /\ sell \in Nat /\ 0 < sell /\ sell < row.qty
  BY DEF SerialInv, RaceInv, TypeOK, FreshLoc, LocSound, PartialWrite, Loc, Open
<1>2. PICK m \in Moves :
         /\ Credit(l.w, Price * l.sell, m * l.sell)
         /\ pos' = [pos EXCEPT ![l.p].qty = l.row.qty - l.sell,
                               ![l.p].pnl = l.row.pnl + m * l.sell,
                               ![l.p].t1 = l.row.t1 \/ l.target = "PARTIAL_T1",
                               ![l.p].t2 = l.row.t2 \/ l.target = "PARTIAL_T2"]
         /\ ledgerPnl' = ledgerPnl + m * l.sell
  BY DEF PartialWrite
<1>. DEFINE net == m * sell
            cost == Price * sell
<1>3. row.qty \in Nat
  BY <1>1 DEF Row
<1>4. /\ cost \in Nat /\ 0 < cost /\ net \in Int
      /\ cost <= Price * row.qty /\ Price * (row.qty - sell) = Price * row.qty - cost
  <2>1. m \in Int
    BY AmountsAreNumbers
  <2>2. sell \in Nat /\ 0 < sell /\ sell <= row.qty
    BY <1>1, <1>3
  <2>. HIDE DEF row, sell
  <2>3. net \in Int
    BY <2>1, <2>2
  <2>. QED BY <1>3, <2>2, <2>3, PriceOfParts
<1>5. Held(pos[p]) = Price * row.qty
  BY DEF Held
<1>6. cost <= wallet.reserved
  <2>1. Held(pos[p]) <= wallet.reserved
    BY <1>1, ReserveCovers DEF SerialInv, Balanced
  <2>2. Price * row.qty \in Nat /\ wallet.reserved \in Nat
    BY <1>1, <1>3, AmountsAreNumbers DEF Wallet
  <2>. HIDE DEF cost, row
  <2>. QED BY <1>4, <1>5, <2>1, <2>2
<1>7. Credit(wallet, cost, net) /\ ledgerPnl' = ledgerPnl + net
  BY <1>1, <1>2
<1>8. /\ \A q \in Pos \ {p} : pos'[q] = pos[q]
      /\ pos'[p].key = pos[p].key /\ pos'[p].status = pos[p].status
      /\ pos'[p].qty = row.qty - sell
  BY <1>1, <1>2 DEF TypeOK, Row
<1>9. Held(pos'[p]) = Held(pos[p]) - cost /\ cost <= Held(pos[p])
  BY <1>4, <1>5, <1>8 DEF Held
<1>10. /\ wallet'.funded = wallet.funded
       /\ wallet'.cash = wallet.cash + cost + net
       /\ wallet'.reserved = wallet.reserved - cost
       /\ wallet'.realized = wallet.realized + net
  <2>. HIDE DEF cost, net
  <2>. QED BY <1>1, <1>4, <1>6, <1>7, CreditExact
<1>11. pos'[p].status = "open"
  BY <1>1, <1>8 DEF Open
<1>12. Sold(p, cost, net)
  <2>. HIDE DEF cost, net, p
  <2>. QED BY <1>1, <1>4, <1>7, <1>8, <1>9, <1>10, <1>11 DEF Sold
<1>. HIDE DEF cost, net, p
<1>. QED BY <1>1, <1>4, <1>12

LEMMA OpenBuys ==
    ASSUME SerialInv, NEW c \in Callers, OpenWrite(c)
    PROVE  \E p \in Pos, cost \in Nat : Bought(p, cost)
<1>. DEFINE l == loc[c]
            cost == Held(l.row)
<1>1. /\ TypeOK /\ l.w = wallet /\ l.row \in Row /\ wallet.funded /\ wallet \in Wallet
      /\ l.row.status = "open" /\ 0 < l.row.qty /\ l.row.qty \in Nat
      /\ cost <= wallet.cash /\ \A q \in Open : Apart(l.row, q)
  BY DEF SerialInv, RaceInv, TypeOK, FreshLoc, LocSound, OpenWrite, Loc, Row
<1>2. PICK p \in Pos : pos[p].status = "none" /\ pos' = [pos EXCEPT ![p] = l.row]
  BY DEF OpenWrite
<1>3. cost \in Nat /\ 0 < cost
  <2>1. cost = Price * l.row.qty
    BY DEF Held
  <2>. HIDE DEF l, cost
  <2>. QED BY <1>1, <2>1, PriceOfParts
<1>4. /\ wallet' = [wallet EXCEPT !.cash = wallet.cash - cost,
                                  !.reserved = wallet.reserved + cost]
      /\ ledgerPnl' = ledgerPnl
  BY <1>1 DEF OpenWrite
<1>5. /\ wallet'.funded = wallet.funded /\ wallet'.cash = wallet.cash - cost
      /\ wallet'.reserved = wallet.reserved + cost /\ wallet'.realized = wallet.realized
  <2>. HIDE DEF cost
  <2>. QED BY <1>1, <1>4 DEF Wallet
<1>6. pos'[p] = l.row /\ p \in Pos \ Open /\ \A q \in Pos \ {p} : pos'[q] = pos[q]
  BY <1>1, <1>2 DEF TypeOK, Open
<1>7. /\ Held(pos'[p]) = cost /\ pos'[p].status = "open"
      /\ \A q \in Open : Apart(pos'[p], q)
  BY <1>1, <1>6
<1>8. Bought(p, cost)
  <2>. HIDE DEF cost
  <2>. QED BY <1>1, <1>3, <1>4, <1>5, <1>6, <1>7 DEF Bought
<1>. HIDE DEF cost
<1>. QED BY <1>3, <1>8

Accounts == BookSound /\ Balanced /\ OneOpenPerInstrument

\* A sale of part or all of one row keeps the books.
LEMMA SoldKeeps ==
    ASSUME SerialInv, TypeOK', NEW p \in Pos, NEW cost, NEW net, Sold(p, cost, net)
    PROVE  Accounts'
<1>1. /\ TypeOK /\ BookSound /\ Balanced /\ OneOpenPerInstrument /\ wallet \in Wallet
  BY DEF SerialInv, RaceInv, TypeOK
<1>2. /\ \A q \in Pos : pos[q] \in Row /\ Cost[q] = Held(pos[q]) /\ Cost[q] \in Nat
      /\ IsFiniteSet(Pos) /\ IsFiniteSet(Open) /\ Open \subseteq Pos
  BY <1>1, CostType
<1>3. /\ pos' \in [Pos -> Row] /\ wallet' \in Wallet
  BY DEF TypeOK
<1>4. \A q \in Pos : Cost'[q] = Held(pos'[q]) /\ Cost'[q] \in Nat
  <2>1. \A q \in Pos : Held(pos'[q]) \in Nat
    BY <1>3, HeldType
  <2>. QED BY <2>1 DEF Cost
<1>5. /\ \A q \in Pos \ {p} : Cost'[q] = Cost[q]
      /\ Cost'[p] = Cost[p] - cost
  BY <1>2, <1>4 DEF Sold
<1>6. \/ Open' = Open
      \/ Open' = Open \ {p} /\ pos'[p].qty = 0
  BY DEF Sold, Open
<1>7. BookSound'
  <2>1. \A q \in Pos \ Open' : pos'[q].qty = 0
    <3>1. ASSUME NEW q \in Pos \ Open' PROVE pos'[q].qty = 0
      <4>1. CASE q = p
        BY <1>6, <3>1, <4>1 DEF Sold
      <4>2. CASE q # p
        BY <1>1, <1>6, <3>1, <4>2 DEF Sold, BookSound
      <4>. QED BY <4>1, <4>2
    <3>. QED BY <3>1
  <2>2. ~wallet'.funded => Open' \cup Closed' = {}
    BY DEF Sold
  <2>. QED BY <2>1, <2>2 DEF BookSound
<1>8. Reconciled' /\ LedgerExplains'
  <2>1. /\ wallet.cash + wallet.reserved = Opening + wallet.realized
        /\ wallet.realized = ledgerPnl
    BY <1>1 DEF Sold, Balanced, Reconciled, LedgerExplains
  <2>2. /\ wallet.cash \in Int /\ wallet.reserved \in Int /\ wallet.realized \in Int
        /\ cost \in Int /\ net \in Int /\ Opening \in Int
    BY <1>1, AmountsAreNumbers DEF Wallet, Sold
  <2>. DEFINE cash == wallet.cash
              reserved == wallet.reserved
              realized == wallet.realized
  <2>3. /\ cash \in Int /\ reserved \in Int /\ realized \in Int
        /\ cash + reserved = Opening + realized
    BY <2>1, <2>2
  <2>4. (cash + cost + net) + (reserved - cost) = Opening + (realized + net)
    <3>. HIDE DEF cash, reserved, realized
    <3>. QED BY <2>2, <2>3
  <2>. QED BY <2>1, <2>4 DEF Sold, Reconciled, LedgerExplains
<1>9. ReservedBacked'
  <2>. DEFINE rest == SumFunctionOnSet(Cost, Open \ {p})
  <2>0. p \in Open
    BY DEF Sold
  <2>1. SumFunctionOnSet(Cost, Open) = Cost[p] + rest /\ rest \in Nat
    BY <1>2, <2>0, SumSplit
  <2>2. wallet.reserved = Cost[p] + rest
    BY <1>1, <2>1 DEF Balanced, ReservedBacked, Cost
  <2>3. IsFiniteSet(Open \ {p})
    BY <1>2, FS_RemoveElement
  <2>4. SumFunctionOnSet(Cost', Open \ {p}) = rest
    <3>1. \A q \in Open \ {p} : Cost[q] \in Nat /\ Cost'[q] = Cost[q]
      BY <1>2, <1>5
    <3>. QED BY <2>3, <3>1, SumAgrees
  <2>5. SumFunctionOnSet(Cost', Open') = Cost'[p] + rest
    <3>1. CASE Open' = Open
      <4>1. \A q \in Open : Cost'[q] \in Nat
        BY <1>2, <1>4
      <4>2. SumFunctionOnSet(Cost', Open) = Cost'[p] + SumFunctionOnSet(Cost', Open \ {p})
        BY <1>2, <2>0, <4>1, SumSplit
      <4>. QED BY <2>4, <3>1, <4>2
    <3>2. CASE Open' = Open \ {p} /\ pos'[p].qty = 0
      <4>1. Cost'[p] = 0
        <5>1. Cost'[p] = Price * 0
          BY <1>4, <3>2 DEF Held
        <5>. QED BY <5>1, AmountsAreNumbers
      <4>. HIDE DEF rest
      <4>. QED BY <2>1, <2>4, <3>2, <4>1
    <3>. QED BY <1>6, <3>1, <3>2
  <2>. HIDE DEF rest
  <2>6. wallet'.reserved = Cost'[p] + rest
    <3>1. Cost[p] \in Nat /\ Cost'[p] \in Nat /\ cost \in Nat
      BY <1>2, <1>4 DEF Sold
    <3>2. (Cost[p] + rest) - cost = (Cost[p] - cost) + rest
      BY <2>1, <3>1
    <3>. QED BY <1>5, <2>2, <3>2 DEF Sold
  <2>. QED BY <2>5, <2>6 DEF ReservedBacked, Cost
<1>10. OneOpenPerInstrument'
  <2>1. \A q \in Pos : pos'[q].key = pos[q].key
    BY DEF Sold
  <2>2. Open' \subseteq Open
    BY <1>6
  <2>3. \A q \in Pos : Inst(pos'[q]) = Inst(pos[q])
    BY <2>1 DEF Inst
  <2>4. Open \subseteq Pos
    BY <1>2
  <2>. QED BY <1>1, <2>1, <2>2, <2>3, <2>4 DEF OneOpenPerInstrument
<1>. QED BY <1>7, <1>8, <1>9, <1>10 DEF Accounts, Balanced

\* So does a fill.
LEMMA BoughtKeeps ==
    ASSUME SerialInv, TypeOK', NEW p \in Pos, NEW cost, Bought(p, cost)
    PROVE  Accounts'
<1>1. /\ TypeOK /\ BookSound /\ Balanced /\ OneOpenPerInstrument /\ wallet \in Wallet
  BY DEF SerialInv, RaceInv, TypeOK
<1>2. /\ \A q \in Pos : pos[q] \in Row /\ Cost[q] = Held(pos[q]) /\ Cost[q] \in Nat
      /\ IsFiniteSet(Pos) /\ IsFiniteSet(Open) /\ Open \subseteq Pos
  BY <1>1, CostType
<1>3. /\ pos' \in [Pos -> Row] /\ wallet' \in Wallet
  BY DEF TypeOK
<1>4. \A q \in Pos : Cost'[q] = Held(pos'[q]) /\ Cost'[q] \in Nat
  <2>1. \A q \in Pos : Held(pos'[q]) \in Nat
    BY <1>3, HeldType
  <2>. QED BY <2>1 DEF Cost
<1>5. /\ p \notin Open /\ Open' = Open \cup {p}
      /\ \A q \in Open : pos'[q] = pos[q] /\ Cost'[q] = Cost[q]
      /\ Cost'[p] = cost
  <2>1. p \notin Open /\ Open' = Open \cup {p}
    BY DEF Bought, Open
  <2>2. \A q \in Open : pos'[q] = pos[q]
    BY <1>2 DEF Bought
  <2>. QED BY <1>2, <1>4, <2>1, <2>2 DEF Bought
<1>6. BookSound'
  BY <1>1, <1>5 DEF Bought, BookSound
<1>7. Reconciled' /\ LedgerExplains'
  <2>1. /\ wallet.cash + wallet.reserved = Opening + wallet.realized
        /\ wallet.realized = ledgerPnl
    BY <1>1 DEF Bought, Balanced, Reconciled, LedgerExplains
  <2>2. /\ wallet.cash \in Int /\ wallet.reserved \in Int /\ cost \in Int
    BY <1>1 DEF Wallet, Bought
  <2>3. (wallet.cash - cost) + (wallet.reserved + cost) = wallet.cash + wallet.reserved
    BY <2>2
  <2>. QED BY <2>1, <2>3 DEF Bought, Reconciled, LedgerExplains
<1>8. ReservedBacked'
  <2>. DEFINE old == SumFunctionOnSet(Cost, Open)
  <2>1. IsFiniteSet(Open \cup {p})
    BY <1>2, FS_AddElement
  <2>2. \A q \in Open \cup {p} : Cost'[q] \in Nat
    BY <1>2, <1>4
  <2>3. SumFunctionOnSet(Cost', Open \cup {p})
           = Cost'[p] + SumFunctionOnSet(Cost', (Open \cup {p}) \ {p})
    <3>1. p \in Open \cup {p}
      OBVIOUS
    <3>. QED BY <2>1, <2>2, <3>1, SumSplit
  <2>4. (Open \cup {p}) \ {p} = Open
    BY <1>5
  <2>5. SumFunctionOnSet(Cost', Open) = old
    <3>1. \A q \in Open : Cost[q] \in Nat /\ Cost'[q] = Cost[q]
      BY <1>2, <1>5
    <3>. QED BY <1>2, <3>1, SumAgrees
  <2>6. wallet.reserved = old
    BY <1>1 DEF Balanced, ReservedBacked, Cost
  <2>. HIDE DEF old
  <2>7. SumFunctionOnSet(Cost', Open') = cost + old
    BY <1>5, <2>3, <2>4, <2>5
  <2>8. cost \in Int /\ old \in Int
    BY <1>1, <2>6 DEF Bought, Wallet
  <2>9. wallet'.reserved = cost + old
    BY <2>6, <2>8 DEF Bought
  <2>. QED BY <2>7, <2>9 DEF ReservedBacked, Cost
<1>9. OneOpenPerInstrument'
  <2> SUFFICES ASSUME NEW q \in Open', NEW r \in Open', q # r,
                      Inst(pos'[q]) = Inst(pos'[r])
               PROVE  Inst(pos'[q]) \in Intraday /\ pos'[q].key[2] # pos'[r].key[2]
    BY DEF OneOpenPerInstrument
  <2>1. CASE q # p /\ r # p
    BY <1>1, <1>5, <2>1 DEF OneOpenPerInstrument
  <2>2. CASE q = p
    BY <1>5, <2>2 DEF Bought, Apart
  <2>3. CASE r = p
    BY <1>5, <2>3 DEF Bought, Apart
  <2>. QED BY <2>1, <2>2, <2>3
<1>. QED BY <1>6, <1>7, <1>8, <1>9 DEF Accounts, Balanced

\* A step that leaves the rows alone and moves cash, realised P&L and ledger
\* together.
LEMMA RowsAlone ==
    ASSUME SerialInv,
           wallet'.funded = wallet.funded, wallet'.reserved = wallet.reserved,
           Reconciled', LedgerExplains',
           Cost' = Cost, Open' = Open, Closed' = Closed,
           \A q \in Pos : pos'[q].qty = pos[q].qty /\ pos'[q].key = pos[q].key
    PROVE  Accounts'
<1>1. BookSound /\ Balanced /\ OneOpenPerInstrument /\ Open \subseteq Pos
  BY DEF SerialInv, Open
<1>2. BookSound'
  BY <1>1 DEF BookSound
<1>3. ReservedBacked'
  BY <1>1 DEF Balanced, ReservedBacked, Cost
<1>4. OneOpenPerInstrument'
  BY <1>1 DEF OneOpenPerInstrument, Inst
<1>. QED BY <1>2, <1>3, <1>4 DEF Accounts, Balanced

-----------------------------------------------------------------------------
(* The invariant is preserved.                                              *)

\* A step that writes nothing but caller c's position in the code.
LEMMA CalmStep ==
    ASSUME SerialInv, RaceInv', UNCHANGED <<wallet, pos, ledgerPnl>>,
           NEW c \in Callers, \A d \in Callers \ {c} : loc'[d] = loc[d],
           FreshLoc(loc[c])',
           Quiet(c)' \/ \A d \in Callers \ {c} : Quiet(d)
    PROVE  SerialInv'
<1>1. BookSound' /\ Balanced' /\ OneOpenPerInstrument'
  BY DEF SerialInv, BookSound, Balanced, Reconciled, ReservedBacked, LedgerExplains,
         OneOpenPerInstrument, Open, Closed
<1>2. ASSUME NEW d \in Callers PROVE FreshLoc(loc[d])'
  <2>1. CASE d = c
    BY <2>1
  <2>2. CASE d # c
    <3>1. FreshLoc(loc[d]) /\ loc'[d] = loc[d]
      BY <2>2 DEF SerialInv
    <3>. QED BY <3>1 DEF FreshLoc, Open, Apart
  <2>. QED BY <2>1, <2>2
<1>3. OneBusy'
  BY DEF SerialInv, OneBusy, Quiet
<1>. QED BY <1>1, <1>2, <1>3 DEF SerialInv

\* A step that ends caller c's operation, the others being between two.
LEMMA DoneStep ==
    ASSUME SerialInv, RaceInv', Accounts', NEW c \in Callers, Done(c),
           \A d \in Callers \ {c} : Quiet(d), wallet'.funded = TRUE
    PROVE  SerialInv'
<1>1. /\ loc'[c].at \in {"idle", "tick"}
      /\ \A d \in Callers \ {c} : loc'[d] = loc[d]
  BY DoneType DEF SerialInv, RaceInv
<1>2. \A d \in Callers : loc'[d].at \in {"idle", "tick"}
  BY <1>1 DEF Quiet
<1>3. (\A d \in Callers : FreshLoc(loc[d]))'
  BY <1>2 DEF FreshLoc
<1>4. OneBusy'
  BY <1>2 DEF OneBusy, Quiet
<1>. QED BY <1>3, <1>4 DEF SerialInv, Accounts

LEMMA SerialInit == Init => SerialInv
<1> SUFFICES ASSUME Init PROVE SerialInv
  OBVIOUS
<1>1. Open = {} /\ BookSound /\ OneOpenPerInstrument
  BY DEF Init, Open, Closed, NoRow, BookSound, OneOpenPerInstrument
<1>2. OneBusy /\ \A c \in Callers : FreshLoc(loc[c])
  BY DEF Init, OneBusy, Quiet, FreshLoc, Idle
<1>3. Balanced
  BY <1>1, SumOfNone DEF Init, NoWallet, Balanced, Reconciled, ReservedBacked, LedgerExplains
<1>. QED BY RaceInit, <1>1, <1>2, <1>3 DEF SerialInv

\* The reads and the control steps of an operation.
LEMMA SerialFind ==
    ASSUME SerialInv, RaceInv', NEW c \in Callers, \A d \in Callers \ {c} : Quiet(d),
           \/ EnsureFind(c) \/ Fail(c) \/ Refind(c)
           \/ \E p \in Pos : CloseFind(c, p) \/ VoidFind(c, p)
           \/ \E p \in Pos, t \in Targets : PartialFind(c, p, t)
           \/ \E i \in Intraday \cup Swing, q \in Qtys, t \in Tags : OpenFind(c, i, q, t)
           \/ CloseRead(c) \/ PartialRead(c) \/ OpenRead(c) \/ VoidRead(c)
           \/ ArchiveFind(c) \/ ArchiveDisarm(c)
    PROVE  SerialInv'
<1>0. /\ TypeOK /\ loc \in [Callers -> Loc] /\ loc[c] \in Loc
      /\ BookSound /\ FreshLoc(loc[c]) /\ LocSound(loc[c])
      /\ \A p \in Pos : pos[p] \in Row /\ RowSound(pos[p])
  BY DEF SerialInv, RaceInv, TypeOK
<1>. DEFINE moves == /\ UNCHANGED <<wallet, pos, ledgerPnl>>
                     /\ \A d \in Callers \ {c} : loc'[d] = loc[d]
                     /\ FreshLoc(loc[c])'
<1>a. SUFFICES moves
  BY CalmStep
<1>b. ASSUME Done(c), wallet' = wallet, wallet.funded = TRUE
      PROVE  (\A d \in Callers \ {c} : loc'[d] = loc[d]) /\ FreshLoc(loc[c])'
  BY <1>0, <1>b, DoneType DEF FreshLoc
<1>1. CASE EnsureFind(c)
  BY <1>0, <1>1 DEF EnsureFind, FreshLoc, Loc
<1>2. CASE Fail(c)
  <2>1. UNCHANGED <<wallet, pos, ledgerPnl>>
    BY <1>2 DEF Fail
  <2>2. CASE loc' = [loc EXCEPT ![c] = Idle]
    BY <1>0, <2>1, <2>2 DEF FreshLoc, Idle
  <2>3. CASE Done(c) /\ loc[c].at \in {"open", "openTx"}
    <3>1. wallet.funded = TRUE
      BY <1>0, <2>3 DEF FreshLoc, TypeOK, Wallet
    <3>. QED BY <1>b, <2>1, <2>3, <3>1
  <2>. QED BY <1>2, <2>2, <2>3 DEF Fail
<1>3. CASE Refind(c)
  <2>1. UNCHANGED <<wallet, pos, ledgerPnl>> /\ wallet.funded = TRUE
    BY <1>0, <1>3 DEF Refind, FreshLoc, TypeOK, Wallet
  <2>2. CASE loc[c].p \in Open
    <3>1. loc' = [loc EXCEPT ![c].at = "close", ![c].row = pos[loc[c].p]]
      BY <1>3, <2>2 DEF Refind
    <3>. QED BY <1>0, <2>1, <2>2, <3>1 DEF FreshLoc, Loc, Open
  <2>3. CASE loc[c].p \notin Open
    BY <1>3, <1>b, <2>1, <2>3 DEF Refind
  <2>. QED BY <2>2, <2>3
<1>4. ASSUME NEW p \in Pos, CloseFind(c, p)
      PROVE  moves
  <2>1. UNCHANGED <<wallet, pos, ledgerPnl>> /\ p \in Open /\ wallet.funded
    BY <1>0, <1>4 DEF CloseFind, BookSound
  <2>2. loc' = [loc EXCEPT ![c].at = "close", ![c].p = p, ![c].row = pos[p]]
    BY <1>4 DEF CloseFind
  <2>. QED BY <1>0, <2>1, <2>2 DEF FreshLoc, Loc, Open
<1>6. ASSUME NEW p \in Pos, NEW t \in Targets, PartialFind(c, p, t)
      PROVE  moves
  <2>. DEFINE sell == SharesFor(pos[p].orig, pos[p].qty, Weight(pos[p], t))
  <2>1. UNCHANGED <<wallet, pos, ledgerPnl>> /\ p \in Open /\ wallet.funded
    BY <1>0, <1>6 DEF PartialFind, BookSound
  <2>2. 0 < sell
    <3>1. pos[p].orig \in Nat /\ pos[p].qty \in Nat /\ pos[p].qty > 0
      BY <1>0, <2>1 DEF Row, RowSound, Open
    <3>2. Weight(pos[p], t) \in Nat
      BY WeightType
    <3>. QED BY <3>1, <3>2, SharesForBounds
  <2>3. \/ loc' = [loc EXCEPT ![c].at = "refind", ![c].p = p]
        \/ loc' = [loc EXCEPT ![c].at = "partial", ![c].p = p, ![c].row = pos[p],
                              ![c].target = t, ![c].sell = sell]
    BY <1>6 DEF PartialFind
  <2>. HIDE DEF sell
  <2>. QED BY <1>0, <2>1, <2>2, <2>3 DEF FreshLoc, Loc, Open
<1>7. ASSUME NEW i \in Intraday \cup Swing, NEW q \in Qtys, NEW t \in Tags, OpenFind(c, i, q, t)
      PROVE  moves
  <2>. DEFINE new == [NoRow EXCEPT !.status = "open", !.key = <<i, day, t>>,
                                   !.qty = q, !.orig = q]
  <2>1. UNCHANGED <<wallet, pos, ledgerPnl>> /\ wallet.funded
    BY <1>0, <1>7 DEF OpenFind, FreshLoc
  <2>2. loc' = [loc EXCEPT ![c].at = "open", ![c].row = new]
    BY <1>7 DEF OpenFind
  <2>3. new.key = <<i, day, t>>
    BY DEF NoRow
  <2>. HIDE DEF new
  <2>4. ASSUME NEW r \in Open PROVE Apart(new, r)
    <3>1. ~Duplicate(i)
      BY <1>7 DEF OpenFind
    <3>2. Inst(pos[r]) = i => i \in Intraday /\ pos[r].key[2] # day
      BY <3>1 DEF Duplicate
    <3>3. Inst(new) = i /\ new.key[2] = day
      BY <2>3 DEF Inst
    <3>. QED BY <3>2, <3>3 DEF Apart
  <2>5. /\ \A d \in Callers \ {c} : loc'[d] = loc[d]
        /\ loc'[c].at = "open" /\ loc'[c].row = new
    BY <1>0, <2>2 DEF Loc
  <2>6. (\A r \in Open : Apart(loc[c].row, r))'
    BY <2>1, <2>4, <2>5 DEF Open, Apart
  <2>. QED BY <2>1, <2>5, <2>6 DEF FreshLoc
<1>8. CASE CloseRead(c) \/ PartialRead(c) \/ OpenRead(c) \/ VoidRead(c)
  BY <1>0, <1>8 DEF CloseRead, PartialRead, OpenRead, VoidRead, ReadWallet,
                    FreshLoc, Loc, Open, Apart
<1>9. CASE ArchiveFind(c) \/ ArchiveDisarm(c)
  BY <1>0, <1>9 DEF ArchiveFind, ArchiveDisarm, FreshLoc, Loc, Open
<1>10. ASSUME NEW p \in Pos, VoidFind(c, p)
       PROVE  moves
  BY <1>0, <1>10 DEF VoidFind, BookSound, FreshLoc, Loc
<1>. QED BY <1>1, <1>2, <1>3, <1>4, <1>6, <1>7, <1>8, <1>9, <1>10

\* The steps that write no row: funding and reset.
Reopened ==
    /\ wallet'.funded = TRUE /\ wallet'.cash = Opening
    /\ wallet'.reserved = 0 /\ wallet'.realized = 0
    /\ ledgerPnl' = 0 /\ pos' = pos /\ Open = {}

LEMMA ReopenedKeeps == ASSUME SerialInv, Reopened PROVE Accounts'
<1>1. Open' = {} /\ BookSound
  BY DEF Reopened, Open, SerialInv
<1>2. BookSound'
  BY <1>1 DEF BookSound, Reopened
<1>3. Reconciled' /\ LedgerExplains'
  BY AmountsAreNumbers DEF Reconciled, LedgerExplains, Reopened
<1>4. ReservedBacked'
  BY <1>1, SumOfNone DEF ReservedBacked, Reopened
<1>5. OneOpenPerInstrument'
  BY <1>1 DEF OneOpenPerInstrument
<1>. QED BY <1>2, <1>3, <1>4, <1>5 DEF Accounts, Balanced

LEMMA FundReopens ==
    ASSUME SerialInv, NEW c \in Callers, EnsureCreate(c), ~wallet.funded
    PROVE  Reopened
<1>1. wallet' = [NoWallet EXCEPT !.funded = TRUE, !.cash = Opening] /\ ledgerPnl' = 0
  BY DEF EnsureCreate
<1>2. Open = {} /\ pos' = pos
  BY DEF SerialInv, BookSound, EnsureCreate
<1>. QED BY <1>1, <1>2 DEF NoWallet, Reopened

LEMMA ResetReopens ==
    ASSUME SerialInv, NEW c \in Callers, ArchiveReset(c)
    PROVE  Reopened
<1>1. FreshLoc(loc[c]) /\ loc[c].at = "reset" /\ wallet \in Wallet
  BY DEF SerialInv, ArchiveReset, RaceInv, TypeOK
<1>2. wallet.funded = TRUE /\ Open = {}
  BY <1>1 DEF FreshLoc, Wallet
<1>. QED BY <1>1, <1>2 DEF ArchiveReset, Wallet, Reopened

\* A void moves cash, realised P&L and ledger together.
LEMMA VoidMoves ==
    ASSUME SerialInv, NEW c \in Callers, VoidWrite(c)
    PROVE  /\ wallet.funded = TRUE /\ wallet'.funded = TRUE
           /\ wallet'.reserved = wallet.reserved
           /\ wallet'.cash - wallet.cash = wallet'.realized - wallet.realized
           /\ wallet'.realized - wallet.realized = ledgerPnl' - ledgerPnl
           /\ Cost' = Cost /\ Open' = Open /\ Closed' = Closed
           /\ \A q \in Pos : pos'[q].qty = pos[q].qty /\ pos'[q].key = pos[q].key
<1>. DEFINE l == loc[c]
            pnl == l.row.pnl
<1>1. /\ TypeOK /\ FreshLoc(l) /\ l.at = "voidTx" /\ l.p \in Pos
      /\ pnl \in Int /\ wallet \in Wallet /\ ledgerPnl \in Int
  BY DEF SerialInv, RaceInv, TypeOK, VoidWrite, Loc, Row
<1>2. wallet.funded = TRUE /\ l.w = wallet
  BY <1>1 DEF FreshLoc, Wallet
<1>3. /\ wallet' = [wallet EXCEPT !.cash = wallet.cash - pnl, !.realized = wallet.realized - pnl]
      /\ ledgerPnl' = ledgerPnl - pnl
      /\ pos' = [pos EXCEPT ![l.p].pnl = 0, ![l.p].mark = "void"]
  BY <1>2 DEF VoidWrite
<1>. HIDE DEF pnl
<1>4. /\ wallet'.funded = TRUE /\ wallet'.reserved = wallet.reserved
      /\ wallet'.cash = wallet.cash - pnl /\ wallet'.realized = wallet.realized - pnl
  BY <1>1, <1>2, <1>3 DEF Wallet
<1>5. /\ wallet'.cash - wallet.cash = wallet'.realized - wallet.realized
      /\ wallet'.realized - wallet.realized = ledgerPnl' - ledgerPnl
  BY <1>1, <1>3, <1>4 DEF Wallet
<1>6. \A q \in Pos : /\ pos'[q].qty = pos[q].qty /\ pos'[q].key = pos[q].key
                     /\ pos'[q].status = pos[q].status
  BY <1>1, <1>3 DEF TypeOK, Row
<1>7. Cost' = Cost /\ Open' = Open /\ Closed' = Closed
  BY <1>6 DEF Cost, Open, Closed, Held
<1>. QED BY <1>2, <1>4, <1>5, <1>6, <1>7

LEMMA VoidKeeps ==
    ASSUME SerialInv, TypeOK', NEW c \in Callers, VoidWrite(c)
    PROVE  Accounts'
<1>. DEFINE cash == wallet.cash
            reserved == wallet.reserved
            realized == wallet.realized
<1>1. /\ wallet \in Wallet /\ wallet' \in Wallet /\ ledgerPnl \in Int /\ ledgerPnl' \in Int
      /\ Reconciled /\ LedgerExplains
  BY DEF SerialInv, RaceInv, TypeOK, Balanced
<1>a. /\ wallet.funded = TRUE /\ reserved' = reserved
      /\ cash' - cash = realized' - realized
      /\ realized' - realized = ledgerPnl' - ledgerPnl
  BY VoidMoves
<1>2. /\ cash \in Int /\ reserved \in Int /\ realized \in Int
      /\ cash' \in Int /\ realized' \in Int /\ Opening \in Int
      /\ cash + reserved = Opening + realized /\ realized = ledgerPnl
  BY <1>1, <1>a, AmountsAreNumbers DEF Wallet, Reconciled, LedgerExplains
<1>3. cash' + reserved' = Opening + realized' /\ realized' = ledgerPnl'
  <2>. HIDE DEF cash, reserved, realized
  <2>. QED BY <1>1, <1>a, <1>2
<1>4. Reconciled' /\ LedgerExplains'
  BY <1>3 DEF Reconciled, LedgerExplains
<1>. QED BY <1>4, VoidMoves, RowsAlone

LEMMA SerialWrite ==
    ASSUME SerialInv, RaceInv', NEW c \in Callers, \A d \in Callers \ {c} : Quiet(d),
           \/ EnsureCreate(c) \/ ArchiveReset(c)
           \/ CloseWrite(c) \/ PartialWrite(c) \/ OpenWrite(c) \/ VoidWrite(c)
    PROVE  SerialInv'
<1>0. TypeOK' /\ wallet \in Wallet /\ wallet' \in Wallet /\ FreshLoc(loc[c])
  BY DEF SerialInv, RaceInv, TypeOK
<1>1. CASE CloseWrite(c) \/ PartialWrite(c)
  <2>1. PICK p \in Pos, cost \in Nat, net \in Int : Sold(p, cost, net)
    BY <1>1, CloseSells, PartialSells
  <2>2. Accounts'
    BY <1>0, <2>1, SoldKeeps
  <2>3. wallet'.funded = TRUE
    BY <1>0, <2>1 DEF Sold, Wallet
  <2>4. Done(c)
    BY <1>1 DEF CloseWrite, PartialWrite
  <2>. QED BY <2>2, <2>3, <2>4, DoneStep
<1>2. CASE OpenWrite(c)
  <2>1. PICK p \in Pos, cost \in Nat : Bought(p, cost)
    BY <1>2, OpenBuys
  <2>2. Accounts'
    BY <1>0, <2>1, BoughtKeeps
  <2>3. wallet'.funded = TRUE
    BY <1>0, <2>1 DEF Bought, Wallet
  <2>4. Done(c)
    BY <1>2 DEF OpenWrite
  <2>. QED BY <2>2, <2>3, <2>4, DoneStep
<1>3. CASE VoidWrite(c)
  <2>1. Accounts' /\ wallet'.funded = TRUE
    BY <1>0, <1>3, VoidKeeps, VoidMoves
  <2>2. Done(c)
    BY <1>3 DEF VoidWrite
  <2>. QED BY <2>1, <2>2, DoneStep
<1>4. CASE ArchiveReset(c) \/ (EnsureCreate(c) /\ ~wallet.funded)
  <2>1. Reopened
    BY <1>4, FundReopens, ResetReopens
  <2>2. Accounts' /\ wallet'.funded = TRUE
    BY <2>1, ReopenedKeeps DEF Reopened
  <2>3. Done(c)
    BY <1>4 DEF ArchiveReset, EnsureCreate
  <2>. QED BY <2>2, <2>3, DoneStep
<1>5. CASE EnsureCreate(c) /\ wallet.funded
  <2>1. UNCHANGED <<wallet, pos, ledgerPnl>> /\ Done(c)
    BY <1>5 DEF EnsureCreate
  <2>2. Accounts'
    BY <2>1 DEF SerialInv, Accounts, BookSound, Balanced, Reconciled, ReservedBacked,
                LedgerExplains, OneOpenPerInstrument, Open, Closed
  <2>3. wallet'.funded = TRUE
    BY <1>0, <1>5, <2>1 DEF Wallet
  <2>. QED BY <2>1, <2>2, <2>3, DoneStep
<1>6. CASE EnsureCreate(c)
  BY <1>4, <1>5, <1>6
<1>. QED BY <1>1, <1>2, <1>3, <1>4, <1>6

LEMMA SerialStep == SerialInv /\ [SerialNext]_vars => SerialInv'
<1> SUFFICES ASSUME SerialInv, [SerialNext]_vars
             PROVE  SerialInv'
  OBVIOUS
<1>0. RaceInv'
  <2>1. [Next]_vars
    BY DEF SerialNext, Next
  <2>. QED BY <2>1, RaceStep DEF SerialInv
<1>1. CASE Environment \/ UNCHANGED vars
  <2>1. UNCHANGED <<wallet, pos, ledgerPnl, loc>>
    BY <1>1 DEF Environment, NextDay, Arm, vars
  <2>. QED BY <1>0, <2>1
       DEF SerialInv, BookSound, OneBusy, Quiet, FreshLoc, Apart, Balanced, Reconciled,
           ReservedBacked, LedgerExplains, OneOpenPerInstrument, Open, Closed
<1>2. ASSUME NEW c \in Callers, Tick(c) PROVE SerialInv'
  <2>1. UNCHANGED <<wallet, pos, ledgerPnl>>
    BY <1>2 DEF Tick, TickBegin, TickEnd
  <2>2. loc \in [Callers -> Loc]
    BY DEF SerialInv, RaceInv, TypeOK
  <2>3. /\ \A d \in Callers \ {c} : loc'[d] = loc[d]
        /\ \/ loc'[c].at = "idle"
           \/ loc'[c].at = "tick" /\ wallet.funded
    <3>1. ASSUME TickEnd(c)
          PROVE  (\A d \in Callers \ {c} : loc'[d] = loc[d]) /\ loc'[c].at = "idle"
      BY <2>2, <3>1 DEF TickEnd, Idle
    <3>2. ASSUME NEW s \in Sources, TickBegin(c, s)
          PROVE  /\ \A d \in Callers \ {c} : loc'[d] = loc[d]
                 /\ loc'[c].at = "tick" /\ wallet.funded
      BY <2>2, <3>2 DEF TickBegin, Loc
    <3>. QED BY <1>2, <3>1, <3>2 DEF Tick
  <2>4. FreshLoc(loc[c])' /\ Quiet(c)'
    BY <2>1, <2>3 DEF FreshLoc, Quiet
  <2>. QED BY <1>0, <2>1, <2>3, <2>4, CalmStep
<1>3. ASSUME NEW c \in Callers, Operation(c), \A d \in Callers \ {c} : Quiet(d)
      PROVE  SerialInv'
  BY <1>0, <1>3, SerialFind, SerialWrite DEF Operation
<1>. QED BY <1>1, <1>2, <1>3 DEF SerialNext

LEMMA SerialInvariant == SerialSpec => []SerialInv
<1>. QED BY SerialInit, SerialStep, PTL DEF SerialSpec

-----------------------------------------------------------------------------
(* Theorems: what the wallet owes its user when operations do not overlap.  *)

\* Cash and reserve are the opening balance plus what was realised, through
\* every fill, partial, close, void and reset.
THEOREM BooksReconcile == SerialSpec => []Reconciled
<1>1. SerialInv => Reconciled
  BY DEF SerialInv, Balanced
<1>. QED BY <1>1, SerialInvariant, PTL

\* The reserve is the cost of the open rows: the floor at zero in the code
\* that frees a reserve never hides a shortfall.
THEOREM ReserveIsBacked == SerialSpec => []ReservedBacked
<1>1. SerialInv => ReservedBacked
  BY DEF SerialInv, Balanced
<1>. QED BY <1>1, SerialInvariant, PTL

\* The ledger rows since the last reset add up to the realised P&L.
THEOREM LedgerIsComplete == SerialSpec => []LedgerExplains
<1>1. SerialInv => LedgerExplains
  BY DEF SerialInv, Balanced
<1>. QED BY <1>1, SerialInvariant, PTL

\* No swing symbol is open twice, and no intraday instrument twice in one
\* session, although the day may change inside an entry.
THEOREM NoSecondOpen == SerialSpec => []OneOpenPerInstrument
<1>1. SerialInv => OneOpenPerInstrument
  BY DEF SerialInv
<1>. QED BY <1>1, SerialInvariant, PTL

-----------------------------------------------------------------------------
(* The wallet implements the account, event by event.                       *)

LEMMA SoldMaps ==
    ASSUME SerialInv, TypeOK', NEW p \in Pos, NEW cost, NEW net, Sold(p, cost, net)
    PROVE  Account!Sell(p)
<1>1. /\ \A q \in Pos : Cost[q] = Held(pos[q])
      /\ Cost[p] \in Nat /\ wallet \in Wallet /\ Open \subseteq Pos
  BY CostType DEF SerialInv, RaceInv, TypeOK
<1>2. \A q \in Pos : Cost'[q] = Held(pos'[q])
  BY DEF Cost
<1>3. /\ cost \in Nat /\ net \in Int /\ 0 < cost /\ cost <= Cost[p]
      /\ wallet.funded /\ wallet'.funded = wallet.funded
      /\ wallet'.cash = wallet.cash + cost + net
      /\ wallet'.reserved = wallet.reserved - cost
      /\ wallet'.realized = wallet.realized + net
      /\ Cost'[p] = Cost[p] - cost
  BY <1>1, <1>2 DEF Sold
<1>4. Cost[p] - Cost'[p] = cost
  BY <1>1, <1>3
<1>5. wallet'.realized - wallet.realized = net
  BY <1>1, <1>3 DEF Wallet
<1>6. Cost' = [Cost EXCEPT ![p] = Cost[p] - cost]
  <2>1. \A q \in Pos \ {p} : Cost'[q] = Cost[q]
    BY <1>1, <1>2 DEF Sold
  <2>. QED BY <1>3, <2>1 DEF Cost
<1>. QED BY <1>3, <1>4, <1>5, <1>6 DEF Account!Sell, Cost

LEMMA BoughtMaps ==
    ASSUME SerialInv, TypeOK', NEW p \in Pos, NEW cost, Bought(p, cost)
    PROVE  Account!Buy(p)
<1>1. /\ \A q \in Pos : Cost[q] = Held(pos[q])
      /\ wallet \in Wallet /\ p \in Pos \ Open /\ pos[p].qty = 0
  BY CostType DEF SerialInv, RaceInv, TypeOK, Bought, BookSound
<1>2. \A q \in Pos : Cost'[q] = Held(pos'[q])
  BY DEF Cost
<1>3. Cost[p] = 0
  <2>1. Cost[p] = Price * 0
    BY <1>1 DEF Held
  <2>. QED BY <2>1, AmountsAreNumbers
<1>4. /\ cost \in Nat /\ 0 < cost /\ cost <= wallet.cash
      /\ wallet.funded /\ wallet'.funded = wallet.funded
      /\ wallet'.cash = wallet.cash - cost
      /\ wallet'.reserved = wallet.reserved + cost
      /\ wallet'.realized = wallet.realized
      /\ Cost'[p] = cost
  BY <1>2 DEF Bought
<1>5. Cost' = [Cost EXCEPT ![p] = cost]
  <2>1. \A q \in Pos \ {p} : Cost'[q] = Cost[q]
    BY <1>1, <1>2 DEF Bought
  <2>. QED BY <1>4, <2>1 DEF Cost
<1>. QED BY <1>3, <1>4, <1>5 DEF Account!Buy, Cost

\* A step that writes neither the wallet nor a row is invisible.
LEMMA Invisible ==
    ASSUME wallet' = wallet, pos' = pos
    PROVE  UNCHANGED Account!avars
BY DEF Account!avars

LEMMA WritesMap ==
    ASSUME SerialInv, TypeOK', NEW c \in Callers,
           \/ EnsureCreate(c) \/ ArchiveReset(c)
           \/ CloseWrite(c) \/ PartialWrite(c) \/ OpenWrite(c) \/ VoidWrite(c)
    PROVE  Account!AccountNext \/ UNCHANGED Account!avars
<1>1. CASE CloseWrite(c) \/ PartialWrite(c)
  <2>1. PICK p \in Pos, cost \in Nat, net \in Int : Sold(p, cost, net)
    BY <1>1, CloseSells, PartialSells
  <2>2. Account!Sell(p)
    BY <2>1, SoldMaps
  <2>. QED BY <2>2 DEF Account!AccountNext
<1>2. CASE OpenWrite(c)
  <2>1. PICK p \in Pos, cost \in Nat : Bought(p, cost)
    BY <1>2, OpenBuys
  <2>2. Account!Buy(p)
    BY <2>1, BoughtMaps
  <2>. QED BY <2>2 DEF Account!AccountNext
<1>3. CASE VoidWrite(c)
  <2>1. Account!Reverse
    BY <1>3, VoidMoves DEF Account!Reverse, Cost
  <2>. QED BY <2>1 DEF Account!AccountNext
<1>4. CASE ArchiveReset(c)
  <2>1. Reopened /\ wallet.funded = TRUE
    BY <1>4, ResetReopens DEF SerialInv, FreshLoc, ArchiveReset, RaceInv, TypeOK, Wallet
  <2>2. \A p \in Pos : Cost[p] = 0
    <3>1. \A p \in Pos : pos[p].qty = 0
      BY <2>1 DEF SerialInv, BookSound, Reopened
    <3>2. \A p \in Pos : Cost[p] = Price * 0
      BY <3>1 DEF Cost, Held
    <3>. QED BY <3>2, AmountsAreNumbers
  <2>3. Account!Reset
    BY <2>1, <2>2 DEF Reopened, Account!Reset, Cost
  <2>. QED BY <2>3 DEF Account!AccountNext
<1>5. CASE EnsureCreate(c) /\ ~wallet.funded
  <2>1. Reopened
    BY <1>5, FundReopens
  <2>2. Account!Fund
    BY <1>5, <2>1 DEF Reopened, Account!Fund
  <2>. QED BY <2>2 DEF Account!AccountNext
<1>6. CASE EnsureCreate(c) /\ wallet.funded
  BY <1>6, Invisible DEF EnsureCreate
<1>7. CASE EnsureCreate(c)
  BY <1>5, <1>6, <1>7
<1>. QED BY <1>1, <1>2, <1>3, <1>4, <1>7

\* Every step of the serialised wallet is one event of the account or leaves
\* it as it is.
LEMMA StepMaps ==
    SerialInv /\ SerialInv' /\ [SerialNext]_vars => [Account!AccountNext]_(Account!avars)
<1> SUFFICES ASSUME SerialInv, SerialInv', [SerialNext]_vars
             PROVE  Account!AccountNext \/ UNCHANGED Account!avars
  OBVIOUS
<1>0. TypeOK'
  BY DEF SerialInv, RaceInv
<1>1. CASE Environment \/ UNCHANGED vars
  BY <1>1, Invisible DEF Environment, NextDay, Arm, vars
<1>2. ASSUME NEW c \in Callers, Tick(c) \/ Operation(c)
      PROVE  Account!AccountNext \/ UNCHANGED Account!avars
  <2>1. CASE \/ EnsureCreate(c) \/ ArchiveReset(c)
             \/ CloseWrite(c) \/ PartialWrite(c) \/ OpenWrite(c) \/ VoidWrite(c)
    BY <1>0, <2>1, WritesMap
  <2>2. CASE Tick(c) \/ EnsureFind(c) \/ Refind(c) \/ Fail(c)
    BY <2>2, Invisible DEF Tick, TickBegin, TickEnd, EnsureFind, Refind, Fail
  <2>3. CASE \E p \in Pos : CloseFind(c, p) \/ VoidFind(c, p)
    BY <2>3, Invisible DEF CloseFind, VoidFind
  <2>4. CASE \E p \in Pos, t \in Targets : PartialFind(c, p, t)
    BY <2>4, Invisible DEF PartialFind
  <2>5. CASE \E i \in Intraday \cup Swing, q \in Qtys, t \in Tags : OpenFind(c, i, q, t)
    BY <2>5, Invisible DEF OpenFind
  <2>6. CASE CloseRead(c) \/ PartialRead(c) \/ OpenRead(c) \/ VoidRead(c)
    BY <2>6, Invisible DEF CloseRead, PartialRead, OpenRead, VoidRead, ReadWallet
  <2>7. CASE ArchiveFind(c) \/ ArchiveDisarm(c)
    BY <2>7, Invisible DEF ArchiveFind, ArchiveDisarm
  <2>. QED BY <1>2, <2>1, <2>2, <2>3, <2>4, <2>5, <2>6, <2>7 DEF Operation
<1>. QED BY <1>1, <1>2 DEF SerialNext

LEMMA InitMaps == Init => Account!AccountInit
<1> SUFFICES ASSUME Init PROVE Account!AccountInit
  OBVIOUS
<1>1. \A p \in Pos : Held(pos[p]) = 0
  <2>1. \A p \in Pos : Held(pos[p]) = Price * 0
    BY DEF Init, NoRow, Held
  <2>. QED BY <2>1, AmountsAreNumbers
<1>. QED BY <1>1 DEF Init, NoWallet, Account!AccountInit

\* The serialised wallet implements the account: a fill moves its notional
\* from cash to one idle row, a sale frees exactly the cost of what it sold,
\* a void only takes a result back, and the account is reset flat.
THEOREM WalletIsAnAccount == SerialSpec => AccountSpec
<1>1. SerialInv /\ [SerialNext]_vars /\ SerialInv' => [Account!AccountNext]_(Account!avars)
  BY StepMaps
<1>. QED BY <1>1, InitMaps, SerialInvariant, PTL
         DEF SerialSpec, AccountSpec, Account!AccountSpec

=============================================================================
