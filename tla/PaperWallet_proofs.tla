-------------------------- MODULE PaperWallet_proofs --------------------------
(***************************************************************************)
(* Theorems about PaperWallet for every number of callers, instruments,    *)
(* rows, days and every price.                                             *)
(***************************************************************************)
EXTENDS PaperWallet, TLAPS

-----------------------------------------------------------------------------
(* Lemmas on the operators. *)

LEMMA MaxOfTwo ==
    ASSUME NEW a \in Int, NEW b \in Int
    PROVE  /\ Max({a, b}) \in {a, b}
           /\ Max({a, b}) >= a /\ Max({a, b}) >= b
<1>1. \E x \in {a, b} : \A y \in {a, b} : x >= y
  OBVIOUS
<1>. QED BY <1>1 DEF Max

LEMMA MinOfTwo ==
    ASSUME NEW a \in Int, NEW b \in Int
    PROVE  /\ Min({a, b}) \in {a, b}
           /\ Min({a, b}) <= a /\ Min({a, b}) <= b
<1>1. \E x \in {a, b} : \A y \in {a, b} : x =< y
  OBVIOUS
<1>. QED BY <1>1 DEF Min

\* A partial sells at least one share of an open row and never more than it has.
LEMMA SharesForBounds ==
    ASSUME NEW orig \in Nat, NEW open \in Nat, NEW weight \in Nat
    PROVE  /\ SharesFor(orig, open, weight) \in Nat
           /\ SharesFor(orig, open, weight) <= open
           /\ open > 0 => SharesFor(orig, open, weight) > 0
<1>. DEFINE want == (orig * weight) \div 100
            atLeastOne == Max({1, want})
<1>1. want \in Int
  OBVIOUS
<1>2. atLeastOne \in Int /\ atLeastOne >= 1
  <2>. HIDE DEF want
  <2>. QED BY <1>1, MaxOfTwo
<1>3. /\ Min({open, atLeastOne}) \in {open, atLeastOne}
      /\ Min({open, atLeastOne}) <= open
  <2>. HIDE DEF atLeastOne
  <2>. QED BY <1>2, MinOfTwo
<1>4. SharesFor(orig, open, weight) = Min({open, atLeastOne})
  BY DEF SharesFor
<1>. HIDE DEF atLeastOne
<1>. QED BY <1>2, <1>3, <1>4

LEMMA WeightType == ASSUME NEW row, NEW target PROVE Weight(row, target) \in Nat
BY DEF Weight

LEMMA NoRowType == NoRow \in Row /\ Idle \in Loc /\ NoWallet \in Wallet
<1>1. Keys # {}
  <2>1. PICK i \in Intraday \cup Swing : TRUE
    BY BooksAreSound
  <2>2. PICK t \in Tags : TRUE
    BY BooksAreSound
  <2>3. 1 \in Days
    BY AmountsAreNumbers DEF Days
  <2>4. <<i, 1, t>> \in Keys
    BY <2>1, <2>2, <2>3 DEF Keys
  <2>. QED BY <2>4
<1>2. (CHOOSE k \in Keys : TRUE) \in Keys
  BY <1>1
<1>3. NoRow \in Row /\ NoWallet \in Wallet
  BY <1>2 DEF NoRow, Row, NoWallet, Wallet
<1>4. 1 \in Pos
  BY AmountsAreNumbers DEF Pos
<1>. QED BY <1>3, <1>4 DEF Idle, Loc, Sources, Targets

\* The reserve held by a row is a natural number.
LEMMA HeldType == ASSUME NEW row \in Row PROVE Held(row) \in Nat
BY AmountsAreNumbers DEF Row, Held

-----------------------------------------------------------------------------
(* The inductive invariant.  TypeOK is not inductive: a partial writes      *)
(* row.qty - sell, which is a share count only because the partial was      *)
(* planned to leave shares.  The invariant says what a caller between two   *)
(* steps may rely on although the rows and the wallet move under it.        *)

RowSound(r) ==
    /\ r.t2 => r.t1
    /\ r.status = "open" => 0 < r.qty /\ r.qty <= r.orig
    /\ r.status # "none" => r.key \in orders

LocSound(l) ==
    /\ l.at \in {"close", "closeTx", "partial", "partialTx"} => pos[l.p].status # "none"
    /\ l.at \in {"partial", "partialTx"} =>
          /\ l.row.t2 => l.row.t1
          /\ l.target = "PARTIAL_T2" => l.row.t1
          /\ l.sell < l.row.qty /\ l.row.qty <= l.row.orig
          /\ l.row.orig = pos[l.p].orig
    /\ l.at \in {"open", "openTx"} =>
          /\ l.row.status = "open" /\ ~l.row.t2
          /\ 0 < l.row.qty /\ l.row.qty <= l.row.orig

RaceInv ==
    /\ TypeOK
    /\ \A p \in Pos : RowSound(pos[p])
    /\ \A c \in Callers : LocSound(loc[c])
    /\ OneRowPerOrder


LEMMA DoneType ==
    ASSUME TypeOK, NEW c \in Callers, Done(c)
    PROVE  /\ loc' \in [Callers -> Loc]
           /\ loc'[c].at \in {"idle", "tick"}
           /\ \A d \in Callers \ {c} : loc'[d] = loc[d]
<1>1. loc[c].job \in Sources \cup {"none"}
  BY DEF TypeOK, Loc
<1>. QED BY <1>1, NoRowType DEF TypeOK, Done, Loc, Idle

LEMMA CreditType ==
    ASSUME TypeOK, NEW w \in Wallet, NEW cost \in Nat, NEW net \in Int,
           Credit(w, cost, net)
    PROVE  wallet' \in Wallet
<1>1. w.cash \in Int /\ w.reserved \in Nat /\ w.realized \in Int
  BY DEF Wallet
<1>2. (IF w.reserved > cost THEN w.reserved - cost ELSE 0) \in Nat
  BY <1>1
<1>3. /\ w.cash + cost + net \in Int
      /\ w.realized + net \in Int
  BY <1>1
<1>. QED BY <1>2, <1>3 DEF TypeOK, Wallet, Credit

\* A step that moves one caller only.
LEMMA CallerStep ==
    ASSUME RaceInv, NEW c \in Callers,
           UNCHANGED <<pos, orders, day>>,
           wallet' \in Wallet, ledgerPnl' \in Int, armed' \in [Sources -> BOOLEAN],
           loc' \in [Callers -> Loc],
           \A d \in Callers \ {c} : loc'[d] = loc[d],
           LocSound(loc'[c])
    PROVE  RaceInv'
<1>1. TypeOK'
  BY DEF RaceInv, TypeOK
<1>2. \A p \in Pos : RowSound(pos[p])'
  BY DEF RaceInv, RowSound
<1>3. ASSUME NEW d \in Callers PROVE LocSound(loc[d])'
  BY DEF RaceInv, LocSound, Held
<1>4. OneRowPerOrder'
  BY DEF RaceInv, OneRowPerOrder, Open, Closed, Inst
<1>. QED BY <1>1, <1>2, <1>3, <1>4 DEF RaceInv

\* A step that rewrites an existing row, keeping its key and its size, and
\* ends the caller's operation.
LEMMA RowStep ==
    ASSUME RaceInv, NEW c \in Callers, NEW p \in Pos, NEW r \in Row,
           pos' = [pos EXCEPT ![p] = r],
           r.status = "none" <=> pos[p].status = "none",
           r.key = pos[p].key, r.orig = pos[p].orig, RowSound(r),
           Done(c),
           UNCHANGED <<orders, armed, day>>,
           wallet' \in Wallet, ledgerPnl' \in Int
    PROVE  RaceInv'
<1>0. TypeOK
  BY DEF RaceInv
<1>1. /\ loc' \in [Callers -> Loc]
      /\ loc'[c].at \in {"idle", "tick"}
      /\ \A d \in Callers \ {c} : loc'[d] = loc[d]
  BY <1>0, DoneType
<1>2. /\ pos' \in [Pos -> Row]
      /\ \A q \in Pos : /\ pos'[q].status = "none" <=> pos[q].status = "none"
                        /\ pos'[q].key = pos[q].key
                        /\ pos'[q].orig = pos[q].orig
  BY <1>0 DEF TypeOK
<1>3. TypeOK'
  BY <1>0, <1>1, <1>2 DEF TypeOK
<1>4. ASSUME NEW q \in Pos PROVE RowSound(pos[q])'
  BY <1>0 DEF RaceInv, RowSound, TypeOK
<1>5. ASSUME NEW d \in Callers PROVE LocSound(loc[d])'
  <2>1. CASE d = c
    BY <1>1, <2>1 DEF LocSound
  <2>2. CASE d # c
    <3>1. loc'[d] = loc[d] /\ LocSound(loc[d]) /\ loc[d].p \in Pos
      BY <1>0, <1>1, <2>2 DEF RaceInv, TypeOK, Loc
    <3>. QED BY <1>2, <3>1 DEF LocSound, Held
  <2>. QED BY <2>1, <2>2
<1>6. OneRowPerOrder'
  <2>1. \A q \in Pos : (q \in Open \cup Closed)' <=> q \in Open \cup Closed
    BY <1>0, <1>2 DEF Open, Closed, TypeOK, Row
  <2>2. (Open \cup Closed)' \subseteq Pos
    BY DEF Open, Closed
  <2>. QED BY <1>2, <2>1, <2>2 DEF RaceInv, OneRowPerOrder
<1>. QED BY <1>3, <1>4, <1>5, <1>6 DEF RaceInv

LEMMA RaceInit == Init => RaceInv
<1> SUFFICES ASSUME Init PROVE RaceInv
  OBVIOUS
<1>1. TypeOK
  BY NoRowType, AmountsAreNumbers DEF Init, TypeOK, Days, Sources
<1>2. \A p \in Pos : RowSound(pos[p])
  BY DEF Init, RowSound, NoRow
<1>3. \A c \in Callers : LocSound(loc[c])
  BY DEF Init, LocSound, Idle
<1>4. OneRowPerOrder
  BY DEF Init, OneRowPerOrder, Open, Closed, NoRow
<1>. QED BY <1>1, <1>2, <1>3, <1>4 DEF RaceInv

\* The control steps, and every step before a transaction writes.
LEMMA FindStep ==
    ASSUME RaceInv, NEW c \in Callers,
           \/ Tick(c) \/ EnsureFind(c) \/ Fail(c) \/ Refind(c)
           \/ \E p \in Pos : CloseFind(c, p) \/ VoidFind(c, p)
           \/ \E p \in Pos, t \in Targets : PartialFind(c, p, t)
           \/ \E i \in Intraday \cup Swing, q \in Qtys, t \in Tags : OpenFind(c, i, q, t)
           \/ CloseRead(c) \/ PartialRead(c) \/ OpenRead(c) \/ VoidRead(c)
           \/ ArchiveFind(c) \/ ArchiveDisarm(c)
    PROVE  RaceInv'
<1>0. /\ TypeOK /\ loc[c] \in Loc /\ loc[c].row \in Row /\ loc[c].w \in Wallet
      /\ loc[c].p \in Pos /\ LocSound(loc[c])
  BY DEF RaceInv, TypeOK, Loc
<1>. DEFINE moves == /\ loc' \in [Callers -> Loc]
                     /\ \A d \in Callers \ {c} : loc'[d] = loc[d]
                     /\ LocSound(loc'[c])
<1>a. ASSUME UNCHANGED <<wallet, pos, orders, ledgerPnl, day>>,
             armed' \in [Sources -> BOOLEAN], moves
      PROVE  RaceInv'
  <2>1. wallet' \in Wallet /\ ledgerPnl' \in Int
    BY <1>0, <1>a DEF TypeOK
  <2>2. UNCHANGED <<pos, orders, day>>
    BY <1>a
  <2>. QED BY <1>a, <2>1, <2>2, CallerStep
<1>b. ASSUME Done(c) PROVE moves
  BY <1>0, <1>b, DoneType DEF LocSound
<1>c. ASSUME loc' = [loc EXCEPT ![c] = Idle] PROVE moves
  BY <1>0, <1>c, NoRowType DEF TypeOK, LocSound, Idle
<1>1. CASE Tick(c)
  <2>1. moves
    BY <1>0, <1>1, NoRowType DEF Tick, TickEnd, TickBegin, TypeOK, Loc, Sources, LocSound, Idle
  <2>. QED BY <1>0, <1>1, <1>a, <2>1 DEF Tick, TickEnd, TickBegin, TypeOK
<1>2. CASE EnsureFind(c)
  <2>1. moves
    BY <1>0, <1>2 DEF EnsureFind, TypeOK, Loc, LocSound
  <2>. QED BY <1>0, <1>2, <1>a, <2>1 DEF EnsureFind, TypeOK
<1>3. CASE Fail(c)
  <2>1. moves
    BY <1>3, <1>b, <1>c DEF Fail
  <2>. QED BY <1>0, <1>3, <1>a, <2>1 DEF Fail, TypeOK
<1>4. CASE Refind(c)
  <2>1. CASE loc[c].p \in Open
    <3>1. moves
      BY <1>0, <1>4, <2>1 DEF Refind, TypeOK, Loc, LocSound, Open
    <3>. QED BY <1>0, <1>4, <1>a, <3>1 DEF Refind, TypeOK
  <2>2. CASE loc[c].p \notin Open
    <3>1. moves
      BY <1>4, <2>2, <1>b DEF Refind
    <3>. QED BY <1>0, <1>4, <1>a, <3>1 DEF Refind, TypeOK
  <2>. QED BY <2>1, <2>2
<1>5. CASE \E p \in Pos : CloseFind(c, p) \/ VoidFind(c, p)
  <2>1. PICK p \in Pos : CloseFind(c, p) \/ VoidFind(c, p)
    BY <1>5
  <2>2. pos[p] \in Row
    BY <1>0 DEF TypeOK
  <2>3. CASE CloseFind(c, p)
    <3>1. moves
      BY <1>0, <2>2, <2>3 DEF CloseFind, TypeOK, Loc, LocSound, Open
    <3>. QED BY <1>0, <2>3, <1>a, <3>1 DEF CloseFind, TypeOK
  <2>4. CASE VoidFind(c, p)
    <3>1. moves
      BY <1>0, <2>2, <2>4 DEF VoidFind, TypeOK, Loc, LocSound
    <3>. QED BY <1>0, <2>4, <1>a, <3>1 DEF VoidFind, TypeOK
  <2>. QED BY <2>1, <2>3, <2>4
<1>6. CASE \E p \in Pos, t \in Targets : PartialFind(c, p, t)
  <2>1. PICK p \in Pos, t \in Targets : PartialFind(c, p, t)
    BY <1>6
  <2>. DEFINE sell == SharesFor(pos[p].orig, pos[p].qty, Weight(pos[p], t))
  <2>2. /\ pos[p] \in Row /\ sell \in Nat /\ RowSound(pos[p])
        /\ pos[p].orig \in Nat /\ pos[p].qty \in Nat
    <3>1. pos[p] \in Row /\ pos[p].orig \in Nat /\ pos[p].qty \in Nat /\ RowSound(pos[p])
      BY <1>0 DEF RaceInv, TypeOK, Row
    <3>. QED BY <3>1, WeightType, SharesForBounds
  <2>3. p \in Open /\ Bookable(pos[p], t)
    BY <2>1 DEF PartialFind
  <2>4. \/ loc' = [loc EXCEPT ![c].at = "refind", ![c].p = p]
        \/ /\ sell < pos[p].qty
           /\ loc' = [loc EXCEPT ![c].at = "partial", ![c].p = p, ![c].row = pos[p],
                                 ![c].target = t, ![c].sell = sell]
    <3>1. CASE sell >= pos[p].qty
      BY <2>1, <3>1 DEF PartialFind
    <3>2. CASE ~(sell >= pos[p].qty)
      <4>1. loc' = [loc EXCEPT ![c].at = "partial", ![c].p = p, ![c].row = pos[p],
                               ![c].target = t, ![c].sell = sell]
        BY <2>1, <3>2 DEF PartialFind
      <4>. HIDE DEF sell
      <4>2. sell < pos[p].qty
        BY <2>2, <3>2
      <4>. QED BY <4>1, <4>2
    <3>. QED BY <3>1, <3>2
  <2>. HIDE DEF sell
  <2>5. CASE loc' = [loc EXCEPT ![c].at = "refind", ![c].p = p]
    <3>1. moves
      BY <1>0, <2>5 DEF TypeOK, Loc, LocSound
    <3>. QED BY <1>0, <2>1, <1>a, <3>1 DEF PartialFind, TypeOK
  <2>6. CASE /\ sell < pos[p].qty
             /\ loc' = [loc EXCEPT ![c].at = "partial", ![c].p = p, ![c].row = pos[p],
                                   ![c].target = t, ![c].sell = sell]
    <3>1. loc' \in [Callers -> Loc] /\ \A d \in Callers \ {c} : loc'[d] = loc[d]
      BY <1>0, <2>2, <2>6 DEF TypeOK, Loc
    <3>2. /\ loc'[c].at = "partial" /\ loc'[c].p = p /\ loc'[c].row = pos[p]
          /\ loc'[c].target = t /\ loc'[c].sell = sell
      BY <1>0, <2>6 DEF TypeOK, Loc
    <3>3. LocSound(loc'[c])
      BY <2>2, <2>3, <2>6, <3>2 DEF LocSound, RowSound, Open, Bookable
    <3>. QED BY <1>0, <2>1, <1>a, <3>1, <3>3 DEF PartialFind, TypeOK
  <2>. QED BY <2>4, <2>5, <2>6
<1>7. CASE \E i \in Intraday \cup Swing, q \in Qtys, t \in Tags : OpenFind(c, i, q, t)
  <2>1. PICK i \in Intraday \cup Swing, q \in Qtys, t \in Tags : OpenFind(c, i, q, t)
    BY <1>7
  <2>. DEFINE new == [NoRow EXCEPT !.status = "open", !.key = <<i, day, t>>,
                                   !.qty = q, !.orig = q]
  <2>2. <<i, day, t>> \in Keys /\ q \in Nat \ {0}
    BY <1>0, AmountsAreNumbers DEF TypeOK, Keys
  <2>3. new \in Row /\ new.status = "open" /\ ~new.t2 /\ new.qty = q /\ new.orig = q
    BY <2>2, NoRowType DEF Row, NoRow
  <2>4. loc' = [loc EXCEPT ![c].at = "open", ![c].row = new]
    BY <2>1 DEF OpenFind
  <2>. HIDE DEF new
  <2>5. moves
    <3>1. loc' \in [Callers -> Loc] /\ \A d \in Callers \ {c} : loc'[d] = loc[d]
      BY <1>0, <2>3, <2>4 DEF TypeOK, Loc
    <3>2. loc'[c].at = "open" /\ loc'[c].row = new
      BY <1>0, <2>4 DEF TypeOK, Loc
    <3>. QED BY <2>2, <2>3, <3>1, <3>2 DEF LocSound
  <2>. QED BY <1>0, <2>1, <1>a, <2>5 DEF OpenFind, TypeOK
<1>8. CASE CloseRead(c) \/ PartialRead(c) \/ OpenRead(c) \/ VoidRead(c)
  <2>1. moves
    BY <1>0, <1>8 DEF CloseRead, PartialRead, OpenRead, VoidRead, ReadWallet,
                      TypeOK, Loc, LocSound
  <2>. QED BY <1>0, <1>8, <1>a, <2>1
           DEF CloseRead, PartialRead, OpenRead, VoidRead, ReadWallet, TypeOK
<1>9. CASE ArchiveFind(c) \/ ArchiveDisarm(c)
  <2>1. moves
    BY <1>0, <1>9 DEF ArchiveFind, ArchiveDisarm, TypeOK, Loc, LocSound
  <2>. QED BY <1>0, <1>9, <1>a, <2>1 DEF ArchiveFind, ArchiveDisarm, TypeOK
<1>. QED BY <1>1, <1>2, <1>3, <1>4, <1>5, <1>6, <1>7, <1>8, <1>9

\* The transactions that write.
LEMMA WriteStep ==
    ASSUME RaceInv, NEW c \in Callers,
           \/ EnsureCreate(c) \/ ArchiveReset(c)
           \/ CloseWrite(c) \/ PartialWrite(c) \/ OpenWrite(c) \/ VoidWrite(c)
    PROVE  RaceInv'
<1>. DEFINE l == loc[c]
<1>0. /\ TypeOK /\ l \in Loc /\ l.row \in Row /\ l.w \in Wallet
      /\ l.p \in Pos /\ LocSound(l)
      /\ pos[l.p] \in Row /\ RowSound(pos[l.p])
  BY DEF RaceInv, TypeOK, Loc
<1>a. ASSUME Done(c) PROVE /\ loc' \in [Callers -> Loc]
                           /\ \A d \in Callers \ {c} : loc'[d] = loc[d]
                           /\ LocSound(loc'[c])
  BY <1>0, <1>a, DoneType DEF LocSound
<1>1. CASE EnsureCreate(c)
  <2>1. wallet' \in Wallet /\ ledgerPnl' \in Int
    <3>1. CASE wallet.funded
      BY <1>0, <1>1, <3>1 DEF EnsureCreate, TypeOK
    <3>2. CASE ~wallet.funded
      <4>1. /\ wallet' = [NoWallet EXCEPT !.funded = TRUE, !.cash = Opening]
            /\ ledgerPnl' = 0
        BY <1>1, <3>2 DEF EnsureCreate
      <4>2. NoWallet \in Wallet /\ Opening \in Int
        BY NoRowType, AmountsAreNumbers
      <4>3. wallet' \in Wallet
        BY <4>1, <4>2 DEF Wallet
      <4>. QED BY <4>1, <4>3
    <3>. QED BY <3>1, <3>2
  <2>2. UNCHANGED <<pos, orders, day>> /\ armed' \in [Sources -> BOOLEAN] /\ Done(c)
    BY <1>0, <1>1 DEF EnsureCreate, TypeOK
  <2>. QED BY <1>a, <2>1, <2>2, CallerStep
<1>2. CASE ArchiveReset(c)
  <2>1. wallet' \in Wallet /\ ledgerPnl' \in Int /\ armed' \in [Sources -> BOOLEAN]
    <3>1. wallet \in Wallet /\ Opening \in Int
      BY <1>0, AmountsAreNumbers DEF TypeOK
    <3>2. wallet' \in Wallet
      <4>1. wallet' = [wallet EXCEPT !.cash = Opening, !.reserved = 0, !.realized = 0]
        BY <1>2 DEF ArchiveReset
      <4>2. 0 \in Nat /\ 0 \in Int
        OBVIOUS
      <4>. QED BY <3>1, <4>1, <4>2 DEF Wallet
    <3>3. armed' \in [Sources -> BOOLEAN]
      BY <1>0, <1>2 DEF ArchiveReset, TypeOK
    <3>4. ledgerPnl' = 0
      BY <1>2 DEF ArchiveReset
    <3>. QED BY <3>2, <3>3, <3>4
  <2>2. UNCHANGED <<pos, orders, day>> /\ Done(c)
    BY <1>2 DEF ArchiveReset
  <2>. QED BY <1>a, <2>1, <2>2, CallerStep
<1>3. CASE CloseWrite(c)
  <2>1. PICK m \in Moves, mark \in {"compatible", "edge"} :
           /\ Credit(l.w, Held(l.row), m * l.row.qty)
           /\ pos' = [pos EXCEPT ![l.p].status = "closed", ![l.p].qty = 0,
                                 ![l.p].pnl = l.row.pnl + m * l.row.qty,
                                 ![l.p].closedOn = day, ![l.p].mark = mark]
           /\ ledgerPnl' = ledgerPnl + m * l.row.qty
    BY <1>3 DEF CloseWrite
  <2>. DEFINE net == m * l.row.qty
              r == [pos[l.p] EXCEPT !.status = "closed", !.qty = 0, !.pnl = l.row.pnl + net,
                                    !.closedOn = day, !.mark = mark]
  <2>2. net \in Int /\ l.row.pnl \in Int
    BY <1>0, AmountsAreNumbers DEF Row
  <2>3. wallet' \in Wallet
    BY <1>0, <2>1, <2>2, HeldType, CreditType
  <2>. HIDE DEF net
  <2>4. l.row.pnl + net \in Int /\ ledgerPnl' \in Int
    BY <1>0, <2>1, <2>2 DEF TypeOK, net
  <2>5. /\ r \in Row /\ r.status = "closed" /\ r.key = pos[l.p].key
        /\ r.orig = pos[l.p].orig /\ r.t1 = pos[l.p].t1 /\ r.t2 = pos[l.p].t2
    <3>1. l.row.pnl + net \in Int /\ day \in Nat /\ mark \in {"compatible", "edge"}
      BY <1>0, <2>4, AmountsAreNumbers DEF TypeOK, Days
    <3>. QED BY <1>0, <3>1 DEF Row
  <2>6. pos' = [pos EXCEPT ![l.p] = r]
    BY <1>0, <2>1 DEF TypeOK, net
  <2>. HIDE DEF r
  <2>7. pos[l.p].status # "none" /\ RowSound(r)
    BY <1>0, <1>3, <2>5 DEF CloseWrite, LocSound, RowSound
  <2>. QED BY <1>0, <1>3, <2>3, <2>4, <2>5, <2>6, <2>7, RowStep DEF CloseWrite
<1>4. CASE PartialWrite(c)
  <2>1. PICK m \in Moves :
           /\ Credit(l.w, Price * l.sell, m * l.sell)
           /\ pos' = [pos EXCEPT ![l.p].qty = l.row.qty - l.sell,
                                 ![l.p].pnl = l.row.pnl + m * l.sell,
                                 ![l.p].t1 = l.row.t1 \/ l.target = "PARTIAL_T1",
                                 ![l.p].t2 = l.row.t2 \/ l.target = "PARTIAL_T2"]
           /\ ledgerPnl' = ledgerPnl + m * l.sell
    BY <1>4 DEF PartialWrite
  <2>. DEFINE net  == m * l.sell
              left == l.row.qty - l.sell
              t1   == l.row.t1 \/ l.target = "PARTIAL_T1"
              t2   == l.row.t2 \/ l.target = "PARTIAL_T2"
              r == [pos[l.p] EXCEPT !.qty = left, !.pnl = l.row.pnl + net,
                                    !.t1 = t1, !.t2 = t2]
  <2>2. net \in Int /\ l.row.pnl \in Int /\ Price * l.sell \in Nat
    BY <1>0, AmountsAreNumbers DEF Row, Loc
  <2>3. wallet' \in Wallet
    BY <1>0, <2>1, <2>2, CreditType
  <2>4. /\ left \in Nat /\ 0 < left /\ left <= pos[l.p].orig
        /\ pos[l.p].status # "none"
    <3>1. /\ l.sell \in Nat /\ l.row.qty \in Nat /\ l.row.orig \in Nat
          /\ l.sell < l.row.qty /\ l.row.qty <= l.row.orig /\ l.row.orig = pos[l.p].orig
          /\ pos[l.p].status # "none"
      BY <1>0, <1>4 DEF PartialWrite, LocSound, Row, Loc
    <3>. HIDE DEF l
    <3>. QED BY <3>1
  <2>5. t1 \in BOOLEAN /\ t2 \in BOOLEAN /\ (t2 => t1)
    BY <1>0, <1>4 DEF PartialWrite, LocSound, Row
  <2>. HIDE DEF net
  <2>6. l.row.pnl + net \in Int /\ ledgerPnl' \in Int
    BY <1>0, <2>1, <2>2 DEF TypeOK, net
  <2>7. pos' = [pos EXCEPT ![l.p] = r]
    BY <1>0, <2>1 DEF TypeOK, net
  <2>. HIDE DEF left, t1, t2
  <2>8. /\ r \in Row /\ r.status = pos[l.p].status /\ r.key = pos[l.p].key
        /\ r.orig = pos[l.p].orig /\ r.t1 = t1 /\ r.t2 = t2 /\ r.qty = left
    BY <1>0, <2>4, <2>5, <2>6 DEF Row
  <2>. HIDE DEF r
  <2>9. RowSound(r)
    BY <1>0, <2>4, <2>5, <2>8 DEF RowSound
  <2>. QED BY <1>0, <1>4, <2>3, <2>4, <2>6, <2>7, <2>8, <2>9, RowStep DEF PartialWrite
<1>5. CASE VoidWrite(c)
  <2>. DEFINE r == [pos[l.p] EXCEPT !.pnl = 0, !.mark = "void"]
  <2>1. /\ r \in Row /\ r.status = pos[l.p].status /\ r.key = pos[l.p].key
        /\ r.orig = pos[l.p].orig /\ r.t1 = pos[l.p].t1 /\ r.t2 = pos[l.p].t2
        /\ r.qty = pos[l.p].qty
    <3>1. ASSUME NEW old \in Row, NEW pnl \in Int,
                 NEW mark \in {"none", "compatible", "edge", "void"}
          PROVE  LET new == [old EXCEPT !.pnl = pnl, !.mark = mark]
                 IN  /\ new \in Row /\ new.status = old.status /\ new.key = old.key
                     /\ new.orig = old.orig /\ new.t1 = old.t1 /\ new.t2 = old.t2
                     /\ new.qty = old.qty
      BY DEF Row
    <3>2. pos[l.p] \in Row /\ 0 \in Int
      BY <1>0
    <3>. QED BY <3>1, <3>2
  <2>2. pos' = [pos EXCEPT ![l.p] = r]
    BY <1>0, <1>5 DEF VoidWrite, TypeOK
  <2>3. wallet' \in Wallet /\ ledgerPnl' \in Int
    <3>1. l.row.pnl \in Int /\ l.w.cash \in Int /\ l.w.realized \in Int /\ wallet \in Wallet
      BY <1>0 DEF TypeOK, Wallet, Row
    <3>2. /\ wallet' = [wallet EXCEPT !.cash     = l.w.cash - l.row.pnl,
                                      !.realized = l.w.realized - l.row.pnl]
          /\ ledgerPnl' = ledgerPnl - l.row.pnl
      BY <1>5 DEF VoidWrite
    <3>3. l.w.cash - l.row.pnl \in Int /\ l.w.realized - l.row.pnl \in Int
      BY <3>1
    <3>4. wallet' \in Wallet
      <4>. HIDE DEF l
      <4>. QED BY <3>1, <3>2, <3>3 DEF Wallet
    <3>5. ledgerPnl' \in Int
      BY <1>0, <3>1, <3>2 DEF TypeOK
    <3>. QED BY <3>4, <3>5
  <2>. HIDE DEF r
  <2>4. RowSound(r)
    BY <1>0, <2>1 DEF RowSound
  <2>. QED BY <1>0, <1>5, <2>1, <2>2, <2>3, <2>4, RowStep DEF VoidWrite
<1>6. CASE OpenWrite(c)
  <2>. DEFINE key == l.row.key
  <2>1. PICK p \in Pos : pos[p].status = "none" /\ pos' = [pos EXCEPT ![p] = l.row]
    BY <1>6 DEF OpenWrite
  <2>2. /\ key \notin orders /\ orders' = orders \cup {key}
        /\ l.row.status = "open" /\ ~l.row.t2 /\ 0 < l.row.qty /\ l.row.qty <= l.row.orig
    BY <1>0, <1>6 DEF OpenWrite, LocSound
  <2>3. wallet' \in Wallet
    <3>1. Held(l.row) \in Nat
      BY <1>0, HeldType
    <3>2. wallet' = [wallet EXCEPT !.cash     = l.w.cash - Held(l.row),
                                   !.reserved = l.w.reserved + Held(l.row)]
      BY <1>6 DEF OpenWrite
    <3>3. /\ l.w.cash - Held(l.row) \in Int /\ l.w.reserved + Held(l.row) \in Nat
          /\ wallet \in Wallet
      BY <1>0, <3>1 DEF TypeOK, Wallet
    <3>. QED BY <3>2, <3>3 DEF Wallet
  <2>4. TypeOK'
    BY <1>0, <1>6, <1>a, <2>1, <2>2, <2>3 DEF OpenWrite, TypeOK, Row
  <2>5. ASSUME NEW q \in Pos PROVE RowSound(pos[q])'
    <3>1. RowSound(pos[q])
      BY DEF RaceInv
    <3>. QED BY <1>0, <2>1, <2>2, <3>1 DEF TypeOK, RowSound
  <2>6. ASSUME NEW d \in Callers PROVE LocSound(loc[d])'
    <3>1. CASE d = c
      BY <1>0, <1>6, <3>1, DoneType DEF OpenWrite, LocSound
    <3>2. CASE d # c
      <4>1. loc'[d] = loc[d] /\ LocSound(loc[d]) /\ loc[d].p \in Pos
        BY <1>0, <1>6, <1>a, <3>2 DEF OpenWrite, RaceInv, TypeOK, Loc
      <4>2. pos[loc[d].p].status # "none" => pos'[loc[d].p] = pos[loc[d].p]
        BY <1>0, <2>1, <4>1 DEF TypeOK
      <4>3. pos'[loc[d].p].status = "none" => pos[loc[d].p].status = "none"
        BY <1>0, <2>1, <2>2, <4>1 DEF TypeOK
      <4>. QED BY <4>1, <4>2, <4>3 DEF LocSound, Held
    <3>. QED BY <3>1, <3>2
  <2>7. OneRowPerOrder'
    <3> SUFFICES ASSUME NEW q \in (Open \cup Closed)', NEW r \in (Open \cup Closed)', q # r
                 PROVE  pos'[q].key # pos'[r].key
      BY DEF OneRowPerOrder
    <3>1. \A s \in (Open \cup Closed)' :
             /\ s \in Pos
             /\ s # p => s \in Open \cup Closed /\ pos'[s] = pos[s] /\ pos[s].key \in orders
             /\ s = p => pos'[s].key = key
      BY <1>0, <2>1 DEF Open, Closed, TypeOK, RaceInv, RowSound
    <3>2. CASE q # p /\ r # p
      BY <3>1, <3>2 DEF RaceInv, OneRowPerOrder
    <3>3. CASE q = p \/ r = p
      BY <2>2, <3>1, <3>3
    <3>. QED BY <3>2, <3>3
  <2>. QED BY <2>4, <2>5, <2>6, <2>7 DEF RaceInv
<1>. QED BY <1>1, <1>2, <1>3, <1>4, <1>5, <1>6

LEMMA RaceStep == RaceInv /\ [Next]_vars => RaceInv'
<1> SUFFICES ASSUME RaceInv, [Next]_vars
             PROVE  RaceInv'
  OBVIOUS
<1>1. CASE Environment
  <2>1. TypeOK'
    BY <1>1, BooksAreSound, AmountsAreNumbers
       DEF Environment, NextDay, Arm, RaceInv, TypeOK, Days
  <2>2. UNCHANGED <<wallet, pos, orders, ledgerPnl, loc>>
    BY <1>1 DEF Environment, NextDay, Arm
  <2>3. (\A p \in Pos : RowSound(pos[p]))' /\ (\A c \in Callers : LocSound(loc[c]))'
    BY <2>2 DEF RaceInv, RowSound, LocSound, Held
  <2>4. OneRowPerOrder'
    BY <2>2 DEF RaceInv, OneRowPerOrder, Open, Closed
  <2>. QED BY <2>1, <2>3, <2>4 DEF RaceInv
<1>2. ASSUME NEW c \in Callers, Tick(c) \/ Operation(c)
      PROVE  RaceInv'
  BY <1>2, FindStep, WriteStep DEF Operation
<1>3. CASE UNCHANGED vars
  BY <1>3 DEF vars, RaceInv, TypeOK, RowSound, LocSound, Held, OneRowPerOrder, Open, Closed
<1>. QED BY <1>1, <1>2, <1>3 DEF Next

LEMMA RaceInvariant == Spec => []RaceInv
<1>. QED BY RaceInit, RaceStep, PTL DEF Spec

-----------------------------------------------------------------------------
(* Theorems: what holds however the operations overlap. *)

\* Every variable keeps its type, whatever the callers interleave: share
\* counts and the reserve of the wallet never go below zero.
THEOREM TypeCorrect == Spec => []TypeOK
<1>1. RaceInv => TypeOK
  BY DEF RaceInv
<1>. QED BY <1>1, RaceInvariant, PTL

\* T2 is only ever booked on a row whose T1 was booked.
THEOREM TargetsInOrder == Spec => []T2NeedsT1
<1>1. RaceInv => T2NeedsT1
  BY DEF RaceInv, RowSound, T2NeedsT1
<1>. QED BY <1>1, RaceInvariant, PTL

\* No order id ever opens two rows.
THEOREM OrdersAreUnique == Spec => []OneRowPerOrder
<1>1. RaceInv => OneRowPerOrder
  BY DEF RaceInv
<1>. QED BY <1>1, RaceInvariant, PTL

\* An open row always has shares left, and never more than it was opened with.
THEOREM OpenRowsHaveShares == Spec => []OpenHasShares
<1>1. RaceInv => OpenHasShares
  BY DEF RaceInv, RowSound, OpenHasShares, Open
<1>. QED BY <1>1, RaceInvariant, PTL

LEMMA RowsOnlyWritten ==
    ASSUME RaceInv, [Next]_vars
    PROVE  \/ UNCHANGED <<pos, orders>>
           \/ \E c \in Callers : CloseWrite(c) \/ PartialWrite(c) \/ OpenWrite(c) \/ VoidWrite(c)
<1>. DEFINE writes(c) == CloseWrite(c) \/ PartialWrite(c) \/ OpenWrite(c) \/ VoidWrite(c)
<1>1. CASE Environment \/ UNCHANGED vars
  BY <1>1 DEF Environment, NextDay, Arm, vars
<1>2. ASSUME NEW c \in Callers, Tick(c)
      PROVE  UNCHANGED <<pos, orders>>
  BY <1>2 DEF Tick, TickBegin, TickEnd
<1>3. ASSUME NEW c \in Callers, Operation(c), ~writes(c)
      PROVE  UNCHANGED <<pos, orders>>
  <2>1. CASE EnsureFind(c) \/ EnsureCreate(c) \/ Refind(c) \/ Fail(c)
    BY <2>1 DEF EnsureFind, EnsureCreate, Refind, Fail
  <2>2. CASE \E p \in Pos : CloseFind(c, p) \/ VoidFind(c, p)
    BY <2>2 DEF CloseFind, VoidFind
  <2>3. CASE \E p \in Pos, t \in Targets : PartialFind(c, p, t)
    BY <2>3 DEF PartialFind
  <2>4. CASE \E i \in Intraday \cup Swing, q \in Qtys, t \in Tags : OpenFind(c, i, q, t)
    BY <2>4 DEF OpenFind
  <2>5. CASE CloseRead(c) \/ PartialRead(c) \/ OpenRead(c) \/ VoidRead(c)
    BY <2>5 DEF CloseRead, PartialRead, OpenRead, VoidRead, ReadWallet
  <2>6. CASE ArchiveFind(c) \/ ArchiveDisarm(c) \/ ArchiveReset(c)
    BY <2>6 DEF ArchiveFind, ArchiveDisarm, ArchiveReset
  <2>. QED BY <1>3, <2>1, <2>2, <2>3, <2>4, <2>5, <2>6 DEF Operation
<1>. QED BY <1>1, <1>2, <1>3 DEF Next

\* A closed row never opens again.
THEOREM ClosedRowsStayClosed == Spec => ClosedIsFinal
<1>1. ASSUME RaceInv, [Next]_vars, NEW p \in Pos, pos[p].status = "closed"
      PROVE  pos'[p].status = "closed"
  <2>0. pos \in [Pos -> Row]
    BY <1>1 DEF RaceInv, TypeOK
  <2>1. CASE UNCHANGED <<pos, orders>>
    BY <1>1, <2>1
  <2>2. ASSUME NEW c \in Callers,
               CloseWrite(c) \/ PartialWrite(c) \/ OpenWrite(c) \/ VoidWrite(c)
        PROVE  pos'[p].status = "closed"
    <3>1. loc[c].p \in Pos
      BY <1>1 DEF RaceInv, TypeOK, Loc
    <3>2. CASE CloseWrite(c)
      BY <1>1, <2>0, <3>1, <3>2 DEF CloseWrite
    <3>3. CASE PartialWrite(c)
      BY <1>1, <2>0, <3>1, <3>3 DEF PartialWrite
    <3>4. CASE VoidWrite(c)
      BY <1>1, <2>0, <3>1, <3>4 DEF VoidWrite
    <3>5. CASE OpenWrite(c)
      BY <1>1, <2>0, <3>5 DEF OpenWrite
    <3>. QED BY <2>2, <3>2, <3>3, <3>4, <3>5
  <2>. QED BY <1>1, <2>1, <2>2, RowsOnlyWritten
<1>2. RaceInv /\ [Next]_vars
         => [\A p \in Pos : pos[p].status = "closed" => pos'[p].status = "closed"]_vars
  BY <1>1
<1>. QED BY <1>2, RaceInvariant, PTL DEF Spec, ClosedIsFinal

=============================================================================
