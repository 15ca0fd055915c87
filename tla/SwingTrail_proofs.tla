-------------------------- MODULE SwingTrail_proofs --------------------------
(***************************************************************************)
(* Theorems about SwingTrail, for any number of overlapping refreshes and  *)
(* any prices, levels and targets.                                         *)
(***************************************************************************)
EXTENDS SwingTrail, TLAPS

-----------------------------------------------------------------------------
(* Max and Min of the small sets the stops are computed from. *)

LEMMA MaxIsMax ==
    ASSUME NEW S \in SUBSET Int, \E x \in S : \A y \in S : x >= y
    PROVE  Max(S) \in S /\ \A y \in S : Max(S) >= y
BY DEF Max

LEMMA MaxTwo ==
    ASSUME NEW a \in Int, NEW b \in Int
    PROVE  Max({a, b}) \in {a, b} /\ \A y \in {a, b} : Max({a, b}) >= y
<1>1. \E x \in {a, b} : \A y \in {a, b} : x >= y
  BY SMT
<1> QED BY <1>1, MaxIsMax

LEMMA MaxThree ==
    ASSUME NEW a \in Int, NEW b \in Int, NEW c \in Int
    PROVE  Max({a, b, c}) \in {a, b, c} /\ \A y \in {a, b, c} : Max({a, b, c}) >= y
<1>1. \E x \in {a, b, c} : \A y \in {a, b, c} : x >= y
  BY SMT
<1> QED BY <1>1, MaxIsMax

LEMMA MaxFive ==
    ASSUME NEW a \in Int, NEW b \in Int, NEW c \in Int, NEW d \in Int, NEW e \in Int
    PROVE  /\ Max({a, b, c, d, e}) \in {a, b, c, d, e}
           /\ \A y \in {a, b, c, d, e} : Max({a, b, c, d, e}) >= y
<1>1. \E x \in {a, b, c, d, e} : \A y \in {a, b, c, d, e} : x >= y
  <2>1. PICK x \in {a, b, c} : \A y \in {a, b, c} : x >= y
    BY SMT
  <2>2. PICK z \in {d, e} : \A y \in {d, e} : z >= y
    BY SMT
  <2> QED
    BY <2>1, <2>2, SMT
<1> QED BY <1>1, MaxIsMax

LEMMA MinTwo ==
    ASSUME NEW a \in Int, NEW b \in Int
    PROVE  Min({a, b}) \in {a, b} /\ \A y \in {a, b} : y >= Min({a, b})
<1>1. \E x \in {a, b} : \A y \in {a, b} : y >= x
  BY SMT
<1> QED BY <1>1 DEF Min

-----------------------------------------------------------------------------
(* What one refresh computes. *)

LEMMA FloorTypes ==
    ASSUME NEW peak \in Int
    PROVE  CTC(peak) \in Nat /\ Lock(peak) \in Nat
BY DEF CTC, Lock

LEMMA FromHighType ==
    ASSUME NEW high \in Nat, NEW chart, NEW target
    PROVE  FromHigh(high, chart, target) \in Nat
<1> DEFINE pct == TrailFromHigh(chart.regime, high - Entry, target)
<1>1. pct \in {180, 250, 320, 350, 400}
  BY DEF TrailFromHigh
<1>2. FromHigh(high, chart, target) = (high * (10000 - pct)) \div 10000
  BY DEF FromHigh
<1> HIDE DEF pct
<1>3. high * (10000 - pct) \in Nat
  BY <1>1
<1>4. \A x \in Nat : x \div 10000 \in Nat
  OBVIOUS
<1> QED
  BY <1>2, <1>3, <1>4

LEMMA HighWaterType ==
    ASSUME NEW bars \in Nat, NEW quote \in Nat, NEW stored \in Nat
    PROVE  /\ HighWater(bars, quote, stored) \in Nat
           /\ HighWater(bars, quote, stored) >= Entry
<1> DEFINE base == IF bars > 0 THEN bars ELSE stored
<1>1. base \in Nat /\ Entry \in Nat
  BY DEF Entry
<1>2. HighWater(bars, quote, stored) = Max({base, quote, Entry})
  BY DEF HighWater
<1> HIDE DEF base
<1>3. base \in Int /\ quote \in Int /\ Entry \in Int
  BY <1>1
<1>4. /\ Max({base, quote, Entry}) \in {base, quote, Entry}
      /\ \A y \in {base, quote, Entry} : Max({base, quote, Entry}) >= y
  BY <1>3, MaxThree, Zenon
<1> QED
  BY <1>1, <1>2, <1>4

\* computeActiveStop: from a peak of 1% on at least cost-to-cost.
LEMMA ActiveStopFits ==
    ASSUME NEW peak \in Int, NEW chart \in Chart, NEW target \in Int
    PROVE  /\ ActiveStop(peak, chart, target) \in Nat
           /\ ActiveStop(peak, chart, target) >= CTC(peak)
<1> DEFINE floor == Max({chart.hard, CTC(peak), Lock(peak)})
           held  == IF chart.structural < Entry THEN Max({floor, chart.structural}) ELSE floor
<1>1. chart.hard \in Nat /\ chart.structural \in Nat /\ chart.ema9 \in Nat
  BY LevelsAreNats DEF Chart
<1>2. CTC(peak) \in Nat /\ Lock(peak) \in Nat
  BY FloorTypes
<1>3. floor \in Nat /\ floor >= CTC(peak)
  <2>1. chart.hard \in Int /\ CTC(peak) \in Int /\ Lock(peak) \in Int
    BY <1>1, <1>2
  <2>2. /\ floor \in {chart.hard, CTC(peak), Lock(peak)}
        /\ \A y \in {chart.hard, CTC(peak), Lock(peak)} : floor >= y
    BY <2>1, MaxThree, Zenon
  <2> HIDE DEF floor
  <2> QED
    BY <1>1, <1>2, <2>2
<1>4. ActiveStop(peak, chart, target) = IF 2 * peak >= target THEN Max({held, chart.ema9})
                                                              ELSE held
  BY DEF ActiveStop
<1> HIDE DEF floor
<1>5. /\ Max({floor, chart.structural}) \in {floor, chart.structural}
      /\ \A y \in {floor, chart.structural} : Max({floor, chart.structural}) >= y
  <2>1. floor \in Int /\ chart.structural \in Int
    BY <1>1, <1>3
  <2> QED
    BY <2>1, MaxTwo, Zenon
<1>6. held \in Nat /\ held >= CTC(peak)
  BY <1>1, <1>2, <1>3, <1>5
<1> HIDE DEF held
<1>7. /\ Max({held, chart.ema9}) \in {held, chart.ema9}
      /\ \A y \in {held, chart.ema9} : Max({held, chart.ema9}) >= y
  <2>1. held \in Int /\ chart.ema9 \in Int
    BY <1>1, <1>6
  <2> QED
    BY <2>1, MaxTwo, Zenon
<1> QED
  BY <1>1, <1>2, <1>4, <1>6, <1>7

\* computeTrailStop: where the EMA does not trail early a trail exists only where
\* the peak has armed it, and then it is at least cost-to-cost.
LEMMA TrailStopFits ==
    ASSUME NEW high \in Nat, NEW chart \in Chart, NEW target \in Nat, NEW stored \in Nat
    PROVE  /\ TrailStop(high, chart, target, stored) \in Nat
           /\ ~Early(high - Entry, target) /\ TrailStop(high, chart, target, stored) > 0
                => TrailStop(high, chart, target, stored) >= CTC(high - Entry)
<1> DEFINE peak  == high - Entry
           ema9  == IF 2 * peak >= target THEN chart.ema9 ELSE 0
           top   == {FromHigh(high, chart, target), ema9, stored, CTC(peak), Lock(peak)}
           trail == TrailStop(high, chart, target, stored)
<1>1. peak \in Int /\ chart.ema9 \in Nat
  BY LevelsAreNats DEF Entry, Chart
<1>3. trail = IF Armed(peak, target) THEN Max(top)
              ELSE IF ema9 > 0 THEN Max({ema9, stored}) ELSE 0
  BY DEF TrailStop
<1>4. ema9 \in Nat /\ (ema9 > 0 => 2 * peak >= target)
  BY <1>1
<1>5. ~Early(peak, target) /\ ema9 > 0 => Armed(peak, target)
  BY <1>4 DEF Early
<1>6. /\ FromHigh(high, chart, target) \in Nat
      /\ CTC(peak) \in Nat /\ Lock(peak) \in Nat
  BY <1>1, FromHighType, FloorTypes
<1> HIDE DEF peak, ema9
<1>7. Max(top) \in Nat /\ Max(top) >= CTC(peak)
  <2>1. Max(top) \in top /\ \A y \in top : Max(top) >= y
    <3>1. /\ FromHigh(high, chart, target) \in Int /\ ema9 \in Int /\ stored \in Int
          /\ CTC(peak) \in Int /\ Lock(peak) \in Int
      BY <1>4, <1>6
    <3> QED
      BY <3>1, MaxFive, Zenon
  <2> QED
    BY <1>4, <1>6, <2>1
<1>8. Max({ema9, stored}) \in Nat
  <2>1. ema9 \in Int /\ stored \in Int
    BY <1>4
  <2>2. Max({ema9, stored}) \in {ema9, stored}
    BY <2>1, MaxTwo, Zenon
  <2> QED
    BY <1>4, <2>2
<1> HIDE DEF top, trail
<1>9. trail \in Nat /\ (~Early(peak, target) /\ trail > 0 => trail >= CTC(peak))
  BY <1>3, <1>4, <1>5, <1>7, <1>8
<1> QED
  BY <1>9 DEF trail, peak

LEMMA CappedFloorType ==
    ASSUME NEW high \in Nat, NEW chart \in Chart, NEW target \in Nat, NEW stored \in Nat
    PROVE  /\ CappedFloor(high, chart, target, stored) \in Nat
           /\ CappedFloor(high, chart, target, stored) <= FromHigh(high, chart, target)
<1>1. FromHigh(high, chart, target) \in Nat
  BY FromHighType
<1>2. stored \in Int /\ FromHigh(high, chart, target) \in Int
  BY <1>1
<1> DEFINE capped == CappedFloor(high, chart, target, stored)
<1>3. /\ capped \in {stored, FromHigh(high, chart, target)}
      /\ \A y \in {stored, FromHigh(high, chart, target)} : y >= capped
  BY <1>2, MinTwo, Zenon DEF CappedFloor
<1> HIDE DEF capped
<1>4. capped \in Nat /\ capped <= FromHigh(high, chart, target)
  BY <1>1, <1>3
<1> QED
  BY <1>4 DEF capped

\* refreshPosition: what it would store is a price, and from a peak of 1% on
\* at least cost-to-cost.
LEMMA RefreshFits ==
    ASSUME NEW r, r.hwm \in Nat, r.trail \in Nat, r.target \in Nat,
           NEW chart \in Chart, NEW other
    PROVE  LET res == Refresh(r, chart, other)
           IN  /\ res.high \in Nat /\ res.suggested \in Nat
               /\ res.high = HighWater(chart.bars, chart.quote, r.hwm)
               /\ ~Early(res.high - Entry, r.target)
                    => res.suggested >= CTC(res.high - Entry)
<1> DEFINE high   == HighWater(chart.bars, chart.quote, r.hwm)
           peak   == high - Entry
           capped == CappedFloor(high, chart, r.target, r.trail)
           active == ActiveStop(peak, chart, r.target)
           trail  == TrailStop(high, chart, r.target, capped)
           stop   == IF trail > 0 THEN trail ELSE active
<1>1. chart.bars \in Nat /\ chart.quote \in Nat
  BY PricesAreNats DEF Chart
<1>2. high \in Nat /\ peak \in Int
  <2>1. high \in Nat
    BY <1>1, HighWaterType
  <2> HIDE DEF high
  <2> QED
    BY <2>1 DEF Entry
<1>3. Refresh(r, chart, other).high = high
      /\ Refresh(r, chart, other).suggested = Max({stop, capped})
  BY DEF Refresh
<1> HIDE DEF high
<1>4. capped \in Nat
  BY <1>2, CappedFloorType
<1> HIDE DEF capped
<1>5. /\ active \in Nat /\ active >= CTC(peak)
      /\ trail \in Nat
      /\ ~Early(peak, r.target) /\ trail > 0 => trail >= CTC(peak)
  <2>1. r.target \in Int
    OBVIOUS
  <2>2. active \in Nat /\ active >= CTC(peak)
    BY <1>2, <2>1, ActiveStopFits
  <2>3. /\ trail \in Nat
        /\ ~Early(high - Entry, r.target) /\ trail > 0 => trail >= CTC(high - Entry)
    BY <1>2, <1>4, TrailStopFits
  <2> QED
    BY <2>2, <2>3
<1>6. CTC(peak) \in Nat
  BY <1>2, FloorTypes
<1> HIDE DEF active, trail
<1>7. stop \in Nat /\ (~Early(peak, r.target) => stop >= CTC(peak))
  BY <1>5, <1>6
<1> HIDE DEF stop
<1>8. /\ Max({stop, capped}) \in {stop, capped}
      /\ \A y \in {stop, capped} : Max({stop, capped}) >= y
  <2>1. stop \in Int /\ capped \in Int
    BY <1>4, <1>7
  <2> QED
    BY <2>1, MaxTwo, Zenon
<1>9. /\ Max({stop, capped}) \in Nat
      /\ ~Early(peak, r.target) => Max({stop, capped}) >= CTC(peak)
  BY <1>4, <1>6, <1>7, <1>8
<1> HIDE DEF peak
<1> QED
  BY <1>2, <1>3, <1>9 DEF high, peak

-----------------------------------------------------------------------------
(* Types. *)

\* What a refresh carries from one step to the next.
Carried ==
    [pc : {"idle", "T1", "T2", "close"}]
      \cup [pc : {"read"}, row : Row]
      \cup [pc : {"ratchet"}, update : [hwm : Nat, trail : Nat], sound : BOOLEAN]
      \cup [pc : {"update"}, parts : SUBSET Partials, high : Nat, suggested : Nat]
      \cup [pc : {"book"}, what : Partials, row : Row]

TypeInv ==
    /\ price \in Prices /\ traded \in Prices
    /\ barHigh \in {0} \cup Prices /\ barHigh <= traded /\ price <= traded
    /\ row \in Row /\ (row.t2 => row.t1)
    /\ clash \in BOOLEAN
    /\ loc \in [Refreshers -> Carried]
    /\ \A c \in Refreshers : loc[c].pc = "book" =>
          /\ loc[c].row.t2 => loc[c].row.t1
          /\ loc[c].what = "T2" => loc[c].row.t1

LEMMA ChartsAreCharts ==
    ASSUME TypeInv
    PROVE  Charts \subseteq Chart
BY DEF TypeInv, Charts, Chart

\* The shapes of loc by pc.
LEMMA CarriedCases ==
    ASSUME NEW l \in Carried
    PROVE  /\ l.pc = "read" => l = [pc |-> "read", row |-> l.row] /\ l.row \in Row
           /\ l.pc = "ratchet" => l.update.hwm \in Nat /\ l.update.trail \in Nat
           /\ l.pc = "update" => /\ l.parts \in SUBSET Partials
                                 /\ l.high \in Nat /\ l.suggested \in Nat
           /\ l.pc = "book" => l.what \in Partials /\ l.row \in Row
BY DEF Carried

LEMMA DoneTypes ==
    ASSUME TypeInv, NEW c \in Refreshers, Done(c), UNCHANGED <<price, traded, barHigh, clash>>,
           row' \in Row, row'.t2 => row'.t1
    PROVE  TypeInv'
BY DEF TypeInv, Done, Idle, Carried

LEMMA GotoTypes ==
    ASSUME TypeInv, NEW c \in Refreshers, NEW pc \in {"T1", "T2", "close"}, Goto(c, pc),
           UNCHANGED <<price, traded, barHigh, row, clash>>
    PROVE  TypeInv'
BY DEF TypeInv, Goto, Carried

LEMMA CarryTypes ==
    ASSUME TypeInv, NEW c \in Refreshers, NEW next \in Carried, next.pc # "book",
           loc' = [loc EXCEPT ![c] = next], UNCHANGED <<price, traded, barHigh, row, clash>>
    PROVE  TypeInv'
BY DEF TypeInv

\* What a refresh computes of a row, and what the journal would then write.
LEMMA ResultTypes ==
    ASSUME NEW r \in Row, NEW chart \in Chart, NEW other
    PROVE  LET res    == Refresh(r, chart, other)
               update == Ratchet(r, res)
           IN  /\ res.high \in Nat /\ res.suggested \in Nat
               /\ update \in [hwm : Nat, trail : Nat]
               /\ update.hwm = IF res.high # r.hwm THEN res.high ELSE 0
<1>1. r.hwm \in Nat /\ r.trail \in Nat /\ r.target \in Nat
  BY PricesAreNats DEF Row
<1> DEFINE res == Refresh(r, chart, other)
<1>2. res.high \in Nat /\ res.suggested \in Nat
  BY <1>1, RefreshFits
<1> HIDE DEF res
<1>3. /\ Ratchet(r, res) \in [hwm : Nat, trail : Nat]
      /\ Ratchet(r, res).hwm = IF res.high # r.hwm THEN res.high ELSE 0
  BY <1>1, <1>2 DEF Ratchet
<1> QED
  BY <1>2, <1>3 DEF res

\* What a paper refresh that holds takes to its update.
Updating(r, chart, other) ==
    [pc |-> "update", parts |-> r.parts, high |-> Refresh(r, chart, other).high,
     suggested |-> Refresh(r, chart, other).suggested]

LEMMA UpdatingTypes ==
    ASSUME NEW r \in Row, NEW chart \in Chart, NEW other
    PROVE  Updating(r, chart, other) \in Carried /\ Updating(r, chart, other).pc = "update"
<1> DEFINE high == Refresh(r, chart, other).high
           suggested == Refresh(r, chart, other).suggested
<1>1. high \in Nat /\ suggested \in Nat /\ r.parts \in SUBSET Partials
  BY ResultTypes DEF Row
<1>2. Updating(r, chart, other)
        = [pc |-> "update", parts |-> r.parts, high |-> high, suggested |-> suggested]
  BY DEF Updating
<1> HIDE DEF high, suggested
<1> QED
  BY <1>1, <1>2 DEF Carried

\* persistPositionTrailRatchet touches the two marks, and the high-water mark
\* only where the refresh has found another.
LEMMA PersistWrites ==
    ASSUME NEW c \in Refreshers, PersistTrail(c), row \in Row,
           loc[c].update.hwm \in Nat, loc[c].update.trail \in Nat
    PROVE  \E hwm \in Nat, trail \in Nat :
              /\ row' = [row EXCEPT !.hwm = hwm, !.trail = trail]
              /\ row.status # "deleted" =>
                    hwm = IF loc[c].update.hwm > 0 THEN loc[c].update.hwm ELSE row.hwm
<1> DEFINE update == loc[c].update
           hwm    == IF update.hwm > 0 THEN update.hwm ELSE row.hwm
           trail  == IF update.trail > 0 THEN update.trail ELSE row.trail
<1>1. row' = IF row.status = "deleted" THEN row
             ELSE [row EXCEPT !.hwm = hwm, !.trail = trail]
  BY DEF PersistTrail
<1>2. row.hwm \in Nat /\ row.trail \in Nat
  BY DEF Row
<1>3. hwm \in Nat /\ trail \in Nat
  BY <1>2
<1> HIDE DEF hwm, trail
<1>4. CASE row.status # "deleted"
  BY <1>1, <1>3, <1>4 DEF hwm
<1>5. CASE row.status = "deleted"
  <2>1. row' = [row EXCEPT !.hwm = row.hwm, !.trail = row.trail]
    BY <1>1, <1>5 DEF Row
  <2> QED
    BY <1>2, <1>5, <2>1
<1> QED
  BY <1>4, <1>5

LEMMA TradeTypes ==
    ASSUME TypeInv, NEW p \in Prices, Trade(p)
    PROVE  TypeInv' /\ traded' >= traded
<1>1. traded \in Nat /\ p \in Nat /\ (barHigh \in Nat) /\ price' = p
      /\ traded' = Max({traded, p}) /\ UNCHANGED <<barHigh, row, loc, clash>>
  BY PricesAreNats DEF TypeInv, Trade
<1>2. traded \in Int /\ p \in Int
  BY <1>1
<1>3. traded' \in {traded, p} /\ \A y \in {traded, p} : traded' >= y
  BY <1>1, <1>2, MaxTwo, Zenon
<1>4. traded' \in Prices /\ traded' >= p /\ traded' >= traded
  BY <1>3 DEF TypeInv
<1>5. barHigh <= traded'
  BY <1>1, <1>2, <1>3 DEF TypeInv
<1> QED
  BY <1>1, <1>4, <1>5 DEF TypeInv

LEMMA InitTypes ==
    Init => TypeInv
<1> SUFFICES ASSUME Init
             PROVE  TypeInv
  OBVIOUS
<1>1. PICK b \in Books, t \in Targets :
        row = [book |-> b, status |-> "open", target |-> t, hwm |-> Entry,
               trail |-> IF b = "paper" THEN StopLoss ELSE 0,
               t1 |-> FALSE, t2 |-> FALSE, parts |-> {}]
  BY DEF Init
<1>2. row \in Row /\ ~row.t2
  BY <1>1 DEF Row, Entry, StopLoss
<1>3. Idle \in Carried /\ Idle.pc # "book"
  BY DEF Idle, Carried
<1>4. /\ price = Entry /\ traded \in Prices /\ traded >= Entry /\ barHigh = 0
      /\ loc = [c \in Refreshers |-> Idle] /\ clash = FALSE
  BY DEF Init
<1>5. barHigh <= traded /\ price <= traded
  BY <1>4, PricesAreNats DEF Entry
<1> QED
  BY <1>2, <1>3, <1>4, <1>5, EntryTrades DEF TypeInv

LEMMA StepTypes ==
    TypeInv /\ [Next]_vars => TypeInv'
<1> SUFFICES ASSUME TypeInv, [Next]_vars
             PROVE  TypeInv'
  OBVIOUS
<1>1. ASSUME NEW p \in Prices, Trade(p)
      PROVE  TypeInv'
  BY <1>1, TradeTypes
<1>2. CASE BarsArrive
  BY <1>2, PricesAreNats DEF BarsArrive, TypeInv
<1>3. ASSUME NEW c \in Refreshers, Begin(c)
      PROVE  TypeInv'
  BY <1>3 DEF Begin, TypeInv, Carried, Idle
<1>4. ASSUME NEW c \in Refreshers, RefreshJournal(c)
      PROVE  TypeInv'
  <2>1. loc[c].row \in Row
    BY <1>4, CarriedCases DEF RefreshJournal, TypeInv
  <2> DEFINE update(chart) == Ratchet(loc[c].row, Refresh(loc[c].row, chart, FALSE))
             next(chart)   == [pc |-> "ratchet", sound |-> Sound(chart),
                               update |-> update(chart)]
  <2>2. PICK chart \in Charts : loc' = [loc EXCEPT ![c] = next(chart)]
    BY <1>4 DEF RefreshJournal
  <2>3. chart \in Chart /\ Sound(chart) \in BOOLEAN
    BY ChartsAreCharts DEF Sound
  <2>4. UNCHANGED <<price, traded, barHigh, row, clash>>
    BY <1>4 DEF RefreshJournal
  <2>5. update(chart) \in [hwm : Nat, trail : Nat]
    BY <2>1, <2>3, ResultTypes
  <2> HIDE DEF update
  <2>6. next(chart) \in Carried /\ next(chart).pc # "book"
    BY <2>3, <2>5 DEF Carried
  <2> HIDE DEF next
  <2> QED
    BY <2>2, <2>4, <2>6, CarryTypes
<1>5. ASSUME NEW c \in Refreshers, PersistTrail(c)
      PROVE  TypeInv'
  <2>1. /\ Done(c) /\ UNCHANGED <<price, traded, barHigh, clash>>
        /\ loc[c].pc = "ratchet"
    BY <1>5 DEF PersistTrail
  <2>2. loc[c].update.hwm \in Nat /\ loc[c].update.trail \in Nat
    BY <2>1, CarriedCases DEF TypeInv
  <2>3. PICK hwm \in Nat, trail \in Nat : row' = [row EXCEPT !.hwm = hwm, !.trail = trail]
    BY <1>5, <2>2, PersistWrites DEF TypeInv
  <2>4. row' \in Row /\ (row'.t2 => row'.t1)
    BY <2>3 DEF TypeInv, Row
  <2> QED
    BY <2>1, <2>4, DoneTypes
<1>6. ASSUME NEW c \in Refreshers, Manage(c)
      PROVE  TypeInv'
  <2>1. loc[c].row \in Row /\ UNCHANGED <<price, traded, barHigh, row, clash>>
    BY <1>6, CarriedCases DEF Manage, TypeInv
  <2>2. PICK chart \in Charts, other \in BOOLEAN :
          \/ Done(c) \/ Goto(c, "T1") \/ Goto(c, "T2") \/ Goto(c, "close")
          \/ loc' = [loc EXCEPT ![c] = Updating(loc[c].row, chart, other)]
    BY <1>6 DEF Manage, Updating
  <2>3. CASE Done(c)
    BY <2>1, <2>3, DoneTypes DEF TypeInv
  <2>4. CASE Goto(c, "T1") \/ Goto(c, "T2") \/ Goto(c, "close")
    BY <2>1, <2>4, GotoTypes
  <2>5. CASE loc' = [loc EXCEPT ![c] = Updating(loc[c].row, chart, other)]
    <3> DEFINE next == Updating(loc[c].row, chart, other)
    <3>1. next \in Carried /\ next.pc # "book"
      BY <2>1, UpdatingTypes, ChartsAreCharts
    <3> HIDE DEF next
    <3> QED
      BY <2>1, <2>5, <3>1, CarryTypes DEF next
  <2> QED
    BY <2>2, <2>3, <2>4, <2>5
<1>7. ASSUME NEW c \in Refreshers, UpdateStop(c)
      PROVE  TypeInv'
  <2>1. /\ row' = [row EXCEPT !.trail = loc[c].suggested, !.hwm = loc[c].high,
                              !.parts = loc[c].parts]
        /\ Done(c) /\ UNCHANGED <<price, traded, barHigh, clash>> /\ loc[c].pc = "update"
    BY <1>7 DEF UpdateStop
  <2>2. /\ loc[c].high \in Nat /\ loc[c].suggested \in Nat
        /\ loc[c].parts \in SUBSET Partials
    BY <2>1, CarriedCases DEF TypeInv
  <2>3. row' \in Row /\ (row'.t2 => row'.t1)
    BY <2>1, <2>2 DEF TypeInv, Row
  <2> QED
    BY <2>1, <2>3, DoneTypes
<1>8. ASSUME NEW c \in Refreshers, NEW what \in Partials, FindPartial(c, what)
      PROVE  TypeInv'
  <2>1. UNCHANGED <<price, traded, barHigh, row, clash>>
    BY <1>8 DEF FindPartial
  <2>2. CASE Done(c)
    BY <2>1, <2>2, DoneTypes DEF TypeInv
  <2>3. CASE Goto(c, "close")
    BY <2>1, <2>3, GotoTypes
  <2>4. CASE /\ what = "T2" => row.t1
             /\ loc' = [loc EXCEPT ![c] = [pc |-> "book", what |-> what, row |-> row]]
    BY <2>1, <2>4 DEF TypeInv, Carried
  <2> QED
    BY <1>8, <2>2, <2>3, <2>4 DEF FindPartial
<1>9. ASSUME NEW c \in Refreshers, BookPartial(c)
      PROVE  TypeInv'
  <2> DEFINE found == loc[c].row
             what  == loc[c].what
             trail == IF what = "T1" THEN Max({found.trail, Entry}) ELSE found.trail
  <2>1. /\ row' = [row EXCEPT !.t1 = found.t1 \/ what = "T1", !.t2 = found.t2 \/ what = "T2",
                              !.trail = trail, !.hwm = found.hwm,
                              !.parts = found.parts \cup {what}]
        /\ Done(c) /\ UNCHANGED <<price, traded, barHigh, clash>> /\ loc[c].pc = "book"
    BY <1>9 DEF BookPartial
  <2>2. /\ found \in Row /\ what \in Partials
        /\ found.t2 => found.t1
        /\ what = "T2" => found.t1
    BY <2>1, CarriedCases DEF TypeInv
  <2>3. found.trail \in Nat /\ found.hwm \in Nat /\ found.parts \in SUBSET Partials
        /\ found.t1 \in BOOLEAN /\ found.t2 \in BOOLEAN
    BY <2>2 DEF Row
  <2> HIDE DEF found, what
  <2>4. trail \in Nat
    <3>1. found.trail \in Int /\ Entry \in Int
      BY <2>3 DEF Entry
    <3>2. Max({found.trail, Entry}) \in {found.trail, Entry}
      BY <3>1, MaxTwo, Zenon
    <3>3. Entry \in Nat
      BY DEF Entry
    <3> QED
      BY <2>3, <3>2, <3>3
  <2> HIDE DEF trail
  <2>5. row' \in Row /\ (row'.t2 => row'.t1)
    BY <2>1, <2>2, <2>3, <2>4 DEF TypeInv, Row
  <2> QED
    BY <2>1, <2>5, DoneTypes
<1>10. ASSUME NEW c \in Refreshers, CloseRow(c)
       PROVE  TypeInv'
  <2>1. row' \in Row /\ (row'.t2 => row'.t1)
    BY <1>10 DEF CloseRow, TypeInv, Row
  <2> QED
    BY <1>10, <2>1, DoneTypes DEF CloseRow
<1>11. CASE UserCloses \/ UserReopens \/ UserDeletes
  BY <1>11 DEF UserCloses, UserReopens, UserDeletes, TypeInv, Row
<1>12. ASSUME NEW t \in Edits, UserEdits(t)
       PROVE  TypeInv'
  BY <1>12, EditsAreTargets DEF UserEdits, TypeInv, Row
<1>13. CASE UNCHANGED vars
  BY <1>13 DEF vars, TypeInv
<1> QED
  BY <1>1, <1>2, <1>3, <1>4, <1>5, <1>6, <1>7, <1>8, <1>9, <1>10, <1>11, <1>12, <1>13
     DEF Next, Partials

LEMMA TypesAlways == Spec => []TypeInv
BY InitTypes, StepTypes, PTL DEF Spec

\* Every variable keeps its type, and the second target is only booked after
\* the first, whatever refreshes overlap.
THEOREM SwingTypeCorrect == Spec => []TypeOK
<1>1. TypeInv => TypeOK
  BY DEF TypeInv, TypeOK
<1> QED
  BY <1>1, TypesAlways, PTL

-----------------------------------------------------------------------------
(* The paper book's stop and its high-water mark. *)

Fits(hwm, trail, target) ==
    hwm >= Entry + 100 /\ ~Early(hwm - Entry, target) => trail >= CTC(100)

\* Nobody edits the target of a paper row.
FitInv ==
    /\ row.book = "paper" => Fits(row.hwm, row.trail, row.target)
    /\ \A c \in Refreshers :
          /\ loc[c].pc = "ratchet" => row.book = "journal"
          /\ row.book = "paper" =>
                /\ loc[c].pc = "read" => loc[c].row.target = row.target
                /\ loc[c].pc = "update" => Fits(loc[c].high, loc[c].suggested, row.target)
                /\ loc[c].pc = "book" => Fits(loc[c].row.hwm, loc[c].row.trail, row.target)

\* A step after which the refresh carries nothing of these.
LEMMA FitsLetGo ==
    ASSUME FitInv, NEW c \in Refreshers,
           \A d \in Refreshers \ {c} : loc'[d] = loc[d],
           loc'[c].pc \in {"idle", "T1", "T2", "close"},
           row'.book = row.book, row'.target = row.target,
           row.book = "paper" => Fits(row'.hwm, row'.trail, row.target)
    PROVE  FitInv'
BY DEF FitInv, Fits

LEMMA FitsInit == Init => FitInv
BY DEF Init, FitInv, Fits, Idle, Entry

LEMMA FitsStep == TypeInv /\ FitInv /\ [Next]_vars => FitInv'
<1> SUFFICES ASSUME TypeInv, FitInv, [Next]_vars
             PROVE  FitInv'
  OBVIOUS
<1>t. row \in Row /\ (row.book = "paper" => Fits(row.hwm, row.trail, row.target))
  BY DEF TypeInv, FitInv
<1>1. CASE BarsArrive \/ (\E p \in Prices : Trade(p)) \/ UNCHANGED vars
  BY <1>1 DEF BarsArrive, Trade, vars, FitInv, Fits
<1>2. ASSUME NEW c \in Refreshers, Begin(c)
      PROVE  FitInv'
  <2>1. loc' = [loc EXCEPT ![c] = [pc |-> "read", row |-> row]] /\ row' = row
    BY <1>2 DEF Begin
  <2>2. loc'[c].pc = "read" /\ loc'[c].row = row /\ \A d \in Refreshers \ {c} : loc'[d] = loc[d]
    BY <2>1 DEF TypeInv
  <2> QED
    BY <2>1, <2>2 DEF FitInv
<1>3. ASSUME NEW c \in Refreshers, RefreshJournal(c)
      PROVE  FitInv'
  <2>1. /\ row.book = "journal" /\ row' = row
        /\ \A d \in Refreshers \ {c} : loc'[d] = loc[d]
    BY <1>3 DEF RefreshJournal, TypeInv
  <2> QED
    BY <2>1 DEF FitInv
<1>4. ASSUME NEW c \in Refreshers, PersistTrail(c)
      PROVE  FitInv'
  <2>1. row.book = "journal" /\ loc[c].pc = "ratchet" /\ loc' = [loc EXCEPT ![c] = Idle]
    BY <1>4 DEF PersistTrail, Done, FitInv
  <2>2. loc[c].update.hwm \in Nat /\ loc[c].update.trail \in Nat
    BY <2>1, CarriedCases DEF TypeInv
  <2>3. PICK hwm \in Nat, trail \in Nat : row' = [row EXCEPT !.hwm = hwm, !.trail = trail]
    BY <1>t, <1>4, <2>2, PersistWrites
  <2>4. row'.book = row.book /\ row'.target = row.target
    BY <1>t, <2>3 DEF Row
  <2> QED
    BY <2>1, <2>4, FitsLetGo DEF TypeInv, Idle
<1>5. ASSUME NEW c \in Refreshers, Manage(c)
      PROVE  FitInv'
  <2>1. loc[c].row \in Row /\ row' = row
    BY <1>5, CarriedCases DEF Manage, TypeInv
  <2>2. PICK chart \in Charts, other \in BOOLEAN :
          \/ Done(c) \/ Goto(c, "T1") \/ Goto(c, "T2") \/ Goto(c, "close")
          \/ loc' = [loc EXCEPT ![c] = Updating(loc[c].row, chart, other)]
    BY <1>5 DEF Manage, Updating
  <2>3. CASE Done(c)
    BY <1>t, <2>1, <2>3, FitsLetGo DEF TypeInv, Done, Idle
  <2>4. CASE Goto(c, "T1") \/ Goto(c, "T2") \/ Goto(c, "close")
    BY <1>t, <2>1, <2>4, FitsLetGo DEF TypeInv, Goto
  <2>5. CASE loc' = [loc EXCEPT ![c] = Updating(loc[c].row, chart, other)]
    <3> DEFINE read == loc[c].row
               res  == Refresh(read, chart, other)
    <3>1. read.hwm \in Nat /\ read.trail \in Nat /\ read.target \in Nat
      BY <2>1, PricesAreNats DEF Row
    <3>2. chart \in Chart
      BY ChartsAreCharts
    <3>3. /\ res.high \in Nat /\ res.suggested \in Nat
          /\ ~Early(res.high - Entry, read.target) => res.suggested >= CTC(res.high - Entry)
      <4> HIDE DEF read
      <4> QED BY <3>1, <3>2, RefreshFits
    <3>4. /\ loc'[c].pc = "update" /\ loc'[c].high = res.high
          /\ loc'[c].suggested = res.suggested
          /\ \A d \in Refreshers \ {c} : loc'[d] = loc[d]
      BY <2>5 DEF TypeInv, Updating
    <3>5. row.book = "paper" => read.target = row.target
      BY <1>5 DEF Manage, FitInv
    <3> HIDE DEF res, read
    <3>6. Fits(res.high, res.suggested, read.target)
      BY <3>3 DEF Fits, CTC, Entry
    <3> QED
      BY <2>1, <3>4, <3>5, <3>6 DEF FitInv
  <2> QED
    BY <2>2, <2>3, <2>4, <2>5
<1>6. ASSUME NEW c \in Refreshers, UpdateStop(c)
      PROVE  FitInv'
  <2>1. /\ row' = [row EXCEPT !.trail = loc[c].suggested, !.hwm = loc[c].high,
                              !.parts = loc[c].parts]
        /\ loc' = [loc EXCEPT ![c] = Idle]
        /\ row.book = "paper" => Fits(loc[c].high, loc[c].suggested, row.target)
    BY <1>6 DEF UpdateStop, Done, FitInv
  <2>2. /\ row'.book = row.book /\ row'.target = row.target
        /\ row'.hwm = loc[c].high /\ row'.trail = loc[c].suggested
    BY <1>t, <2>1 DEF Row
  <2> QED
    BY <2>1, <2>2, FitsLetGo DEF TypeInv, Idle
<1>7. ASSUME NEW c \in Refreshers, NEW what \in Partials, FindPartial(c, what)
      PROVE  FitInv'
  <2>1. row' = row
    BY <1>7 DEF FindPartial
  <2>2. CASE Done(c)
    BY <1>t, <2>1, <2>2, FitsLetGo DEF TypeInv, Done, Idle
  <2>3. CASE Goto(c, "close")
    BY <1>t, <2>1, <2>3, FitsLetGo DEF TypeInv, Goto
  <2>4. CASE loc' = [loc EXCEPT ![c] = [pc |-> "book", what |-> what, row |-> row]]
    <3>1. /\ loc'[c].pc = "book" /\ loc'[c].row = row
          /\ \A d \in Refreshers \ {c} : loc'[d] = loc[d]
      BY <2>4 DEF TypeInv
    <3> QED
      BY <1>t, <2>1, <3>1 DEF FitInv
  <2> QED
    BY <1>7, <2>2, <2>3, <2>4 DEF FindPartial
<1>8. ASSUME NEW c \in Refreshers, BookPartial(c)
      PROVE  FitInv'
  <2> DEFINE found == loc[c].row
             what  == loc[c].what
             trail == IF what = "T1" THEN Max({found.trail, Entry}) ELSE found.trail
  <2>1. /\ row' = [row EXCEPT !.t1 = found.t1 \/ what = "T1", !.t2 = found.t2 \/ what = "T2",
                              !.trail = trail, !.hwm = found.hwm,
                              !.parts = found.parts \cup {what}]
        /\ loc' = [loc EXCEPT ![c] = Idle]
        /\ found \in Row
        /\ row.book = "paper" => Fits(found.hwm, found.trail, row.target)
    BY <1>8, CarriedCases DEF BookPartial, Done, TypeInv, FitInv
  <2>2. found.trail \in Nat
    BY <2>1 DEF Row
  <2> HIDE DEF found, what
  <2>3. trail >= found.trail
    <3>1. found.trail \in Int /\ Entry \in Int
      BY <2>2 DEF Entry
    <3>2. \A y \in {found.trail, Entry} : Max({found.trail, Entry}) >= y
      BY <3>1, MaxTwo, Zenon
    <3> QED
      BY <2>2, <3>2
  <2>4. trail \in Int
    <3>1. found.trail \in Int /\ Entry \in Int
      BY <2>2 DEF Entry
    <3>2. Max({found.trail, Entry}) \in {found.trail, Entry}
      BY <3>1, MaxTwo, Zenon
    <3> QED
      BY <3>1, <3>2
  <2> HIDE DEF trail
  <2>5. row.book = "paper" => Fits(found.hwm, trail, row.target)
    BY <2>1, <2>2, <2>3, <2>4 DEF Fits, CTC
  <2>6. /\ row'.book = row.book /\ row'.target = row.target
        /\ row'.hwm = found.hwm /\ row'.trail = trail
    BY <1>t, <2>1 DEF Row
  <2> QED
    BY <2>1, <2>5, <2>6, FitsLetGo DEF TypeInv, Idle
<1>9. ASSUME NEW c \in Refreshers, CloseRow(c)
      PROVE  FitInv'
  <2>1. row' = [row EXCEPT !.status = "closed"] /\ loc' = [loc EXCEPT ![c] = Idle]
    BY <1>9 DEF CloseRow, Done
  <2>2. /\ row'.book = row.book /\ row'.target = row.target
        /\ row'.hwm = row.hwm /\ row'.trail = row.trail
    BY <1>t, <2>1 DEF Row
  <2> QED
    BY <1>t, <2>1, <2>2, FitsLetGo DEF TypeInv, Idle
<1>10. CASE UserCloses \/ UserReopens \/ UserDeletes \/ \E t \in Edits : UserEdits(t)
  <2>1. loc' = loc /\ row.book = "journal" /\ row'.book = row.book
    BY <1>t, <1>10 DEF UserCloses, UserReopens, UserDeletes, UserEdits, Row
  <2> QED
    BY <2>1 DEF FitInv
<1> QED
  BY <1>1, <1>2, <1>3, <1>4, <1>5, <1>6, <1>7, <1>8, <1>9, <1>10 DEF Next, Partials

\* The stop the paper book stores fits the high-water mark it stores, through
\* pullbacks, bad ticks and overlapping refreshes, except where a target under
\* 5% lets the EMA trail before the trail is armed.
THEOREM StopsFitPeaks == Spec => []StopFitsPeak
<1>1. FitInv => StopFitsPeak
  BY DEF FitInv, Fits, StopFitsPeak
<1>2. TypeInv /\ FitInv /\ [Next]_vars => FitInv'
  BY FitsStep
<1> QED
  BY <1>1, <1>2, FitsInit, TypesAlways, PTL DEF Spec

-----------------------------------------------------------------------------
(* What holds while refreshes do not overlap. *)

\* What a refresh has read of the row is still there.
Fresh(l) ==
    /\ l.pc \in {"read", "book"} =>
          /\ l.row.hwm = row.hwm /\ l.row.parts = row.parts
          /\ l.row.t1 = row.t1 /\ l.row.t2 = row.t2
    /\ l.pc = "update" => l.parts = row.parts

\* The high-water mark after the write of a sound refresh.
Healing(l) ==
    l.pc = "ratchet" /\ l.sound =>
       (IF l.update.hwm > 0 THEN l.update.hwm ELSE row.hwm) <= traded

Evident(r) == (r.t1 <=> "T1" \in r.parts) /\ (r.t2 <=> "T2" \in r.parts)

SoloInv ==
    /\ ~clash =>
          /\ Evident(row)
          /\ \A c, d \in Refreshers : c # d => loc[c].pc = "idle" \/ loc[d].pc = "idle"
          /\ \A c \in Refreshers : Fresh(loc[c]) /\ Healing(loc[c])
    /\ Entry <= traded

LEMMA IdleIsIdle ==
    ASSUME NEW l \in Carried
    PROVE  (l.pc = "idle") <=> (l = Idle)
BY DEF Carried, Idle

\* A step of a refresh that was under way, and is or is not afterwards.
LEMMA SoloMoves ==
    ASSUME TypeInv, SoloInv, NEW c \in Refreshers, loc[c].pc # "idle",
           \A d \in Refreshers \ {c} : loc'[d] = loc[d],
           UNCHANGED <<price, traded, barHigh, clash>>,
           ~clash => Evident(row') /\ Fresh(loc[c])' /\ Healing(loc[c])'
    PROVE  SoloInv'
<1>1. ASSUME ~clash
      PROVE  /\ \A d \in Refreshers \ {c} : loc'[d].pc = "idle"
             /\ \A d \in Refreshers : Fresh(loc[d])' /\ Healing(loc[d])'
  BY <1>1 DEF SoloInv, Fresh, Healing
<1> QED
  BY <1>1 DEF SoloInv, Evident

LEMMA SoundHigh ==
    ASSUME TypeInv, SoloInv, NEW r, NEW chart \in Charts, Sound(chart), r.hwm \in Nat
    PROVE  HighWater(chart.bars, chart.quote, r.hwm) <= traded
<1>1. chart.bars = barHigh /\ chart.quote \in {price} \cup BadTicks /\ barHigh > 0
      /\ chart.quote \in Prices
  BY DEF Charts, Sound
<1>2. chart.quote = price
  BY <1>1, BadTicksAreBad, PricesAreNats
<1>3. HighWater(chart.bars, chart.quote, r.hwm) = Max({barHigh, price, Entry})
  BY <1>1, <1>2 DEF HighWater
<1>4. barHigh <= traded /\ price <= traded /\ Entry <= traded
  BY DEF TypeInv, SoloInv
<1>5. barHigh \in Int /\ price \in Int /\ Entry \in Int
  BY PricesAreNats DEF TypeInv, Entry
<1>6. Max({barHigh, price, Entry}) \in {barHigh, price, Entry}
  BY <1>5, MaxThree, Zenon
<1> QED
  BY <1>3, <1>4, <1>6

LEMMA SoloInit == Init => SoloInv
<1> SUFFICES ASSUME Init
             PROVE  SoloInv
  OBVIOUS
<1>1. Evident(row)
  BY DEF Init, Evident
<1>2. Entry <= traded
  BY PricesAreNats DEF Init, Entry
<1>3. \A c \in Refreshers : loc[c].pc = "idle"
  BY DEF Init, Idle
<1> QED
  BY <1>1, <1>2, <1>3 DEF SoloInv, Fresh, Healing

LEMMA SoloStep == TypeInv /\ SoloInv /\ [Next]_vars => SoloInv'
<1> SUFFICES ASSUME TypeInv, SoloInv, [Next]_vars
             PROVE  SoloInv'
  OBVIOUS
<1>t. row \in Row /\ loc \in [Refreshers -> Carried]
  BY DEF TypeInv
<1>1. ASSUME NEW p \in Prices, Trade(p)
      PROVE  SoloInv'
  <2>1. traded' >= traded /\ traded' \in Nat /\ traded \in Nat
    BY <1>1, TradeTypes, PricesAreNats DEF TypeInv
  <2>2. \A c \in Refreshers : loc[c].pc = "ratchet" => loc[c].update.hwm \in Nat
    BY CarriedCases DEF TypeInv
  <2>3. UNCHANGED <<row, loc, clash>> /\ row.hwm \in Nat
    BY <1>t, <1>1 DEF Trade, Row
  <2>4. \A c \in Refreshers : Healing(loc[c]) => Healing(loc[c])'
    BY <2>1, <2>2, <2>3 DEF Healing
  <2> QED
    BY <2>1, <2>3, <2>4 DEF SoloInv, Fresh, Evident, Entry
<1>2. CASE BarsArrive \/ UNCHANGED vars
  BY <1>2 DEF BarsArrive, vars, SoloInv, Fresh, Evident, Healing
<1>3. ASSUME NEW c \in Refreshers, Begin(c)
      PROVE  SoloInv'
  <2>1. /\ loc[c] = Idle /\ loc' = [loc EXCEPT ![c] = [pc |-> "read", row |-> row]]
        /\ clash' = (clash \/ \E d \in Refreshers \ {c} : loc[d] # Idle)
        /\ UNCHANGED <<price, traded, barHigh, row>>
    BY <1>3 DEF Begin
  <2>2. \A d \in Refreshers \ {c} : loc'[d] = loc[d]
    BY <2>1
  <2>3. loc'[c].pc = "read" /\ loc'[c].row = row
    BY <1>t, <2>1
  <2>4. ASSUME ~clash'
        PROVE  /\ ~clash /\ \A d \in Refreshers \ {c} : loc'[d].pc = "idle"
               /\ \A d \in Refreshers : Fresh(loc[d])' /\ Healing(loc[d])'
    <3>1. ~clash /\ \A d \in Refreshers \ {c} : loc[d] = Idle
      BY <2>1, <2>4
    <3>2. \A d \in Refreshers \ {c} : loc'[d].pc = "idle"
      BY <2>2, <3>1 DEF Idle
    <3>3. \A d \in Refreshers : Fresh(loc[d])' /\ Healing(loc[d])'
      BY <2>1, <2>3, <3>2 DEF Fresh, Healing
    <3> QED
      BY <3>1, <3>2, <3>3
  <2> QED
    BY <2>1, <2>2, <2>3, <2>4 DEF SoloInv, Evident
<1>4. ASSUME NEW c \in Refreshers, RefreshJournal(c)
      PROVE  SoloInv'
  <2>1. /\ loc[c].pc = "read" /\ UNCHANGED <<price, traded, barHigh, row, clash>>
        /\ loc[c].row \in Row
    BY <1>4, CarriedCases DEF RefreshJournal, TypeInv
  <2> DEFINE res(chart) == Refresh(loc[c].row, chart, FALSE)
  <2>2. PICK chart \in Charts :
          loc' = [loc EXCEPT ![c] = [pc |-> "ratchet", sound |-> Sound(chart),
                                     update |-> Ratchet(loc[c].row, res(chart))]]
    BY <1>4 DEF RefreshJournal
  <2>3. /\ loc[c].row.hwm \in Nat /\ loc[c].row.trail \in Nat /\ loc[c].row.target \in Nat
        /\ chart \in Chart
    BY <2>1, PricesAreNats, ChartsAreCharts DEF Row
  <2>4. res(chart).high \in Nat
        /\ res(chart).high = HighWater(chart.bars, chart.quote, loc[c].row.hwm)
    BY <2>3, RefreshFits
  <2>5. Sound(chart) => res(chart).high <= traded
    BY <2>3, <2>4, SoundHigh
  <2>6. Ratchet(loc[c].row, res(chart)).hwm
          = IF res(chart).high # loc[c].row.hwm THEN res(chart).high ELSE 0
    BY <2>1, <2>3, ResultTypes
  <2> HIDE DEF res
  <2>7. /\ loc'[c].pc = "ratchet" /\ loc'[c].sound = Sound(chart)
        /\ loc'[c].update.hwm = IF res(chart).high # loc[c].row.hwm THEN res(chart).high ELSE 0
        /\ \A d \in Refreshers \ {c} : loc'[d] = loc[d]
    BY <1>t, <2>2, <2>6
  <2>8. ~clash => Evident(row') /\ Fresh(loc[c])' /\ loc[c].row.hwm = row.hwm
    BY <2>1, <2>7 DEF SoloInv, Fresh, Evident, Healing
  <2>9. HighWater(chart.bars, chart.quote, loc[c].row.hwm) > 0
    <3> DEFINE high == HighWater(chart.bars, chart.quote, loc[c].row.hwm)
    <3>1. chart.bars \in Nat /\ chart.quote \in Nat
      BY <2>3, PricesAreNats DEF Chart
    <3>2. high \in Nat /\ high >= Entry
      BY <2>3, <3>1, HighWaterType
    <3> HIDE DEF high
    <3>3. high > 0
      BY <3>2 DEF Entry
    <3> QED
      BY <3>3 DEF high
  <2>10. ~clash => Healing(loc[c])'
    BY <2>1, <2>4, <2>5, <2>7, <2>8, <2>9 DEF Healing
  <2> QED
    BY <2>1, <2>7, <2>8, <2>10, SoloMoves
<1>5. ASSUME NEW c \in Refreshers, PersistTrail(c)
      PROVE  SoloInv'
  <2>1. /\ loc' = [loc EXCEPT ![c] = Idle]
        /\ UNCHANGED <<price, traded, barHigh, clash>> /\ loc[c].pc = "ratchet"
    BY <1>5 DEF PersistTrail, Done
  <2>2. row'.t1 = row.t1 /\ row'.t2 = row.t2 /\ row'.parts = row.parts
    <3>1. loc[c].update.hwm \in Nat /\ loc[c].update.trail \in Nat
      BY <1>t, <2>1, CarriedCases
    <3>2. PICK hwm \in Nat, trail \in Nat : row' = [row EXCEPT !.hwm = hwm, !.trail = trail]
      BY <1>t, <1>5, <3>1, PersistWrites
    <3> QED
      BY <1>t, <3>2 DEF Row
  <2>3. loc'[c].pc = "idle" /\ \A d \in Refreshers \ {c} : loc'[d] = loc[d]
    BY <1>t, <2>1 DEF Idle
  <2>4. ~clash => Evident(row') /\ Fresh(loc[c])' /\ Healing(loc[c])'
    BY <2>2, <2>3 DEF SoloInv, Fresh, Evident, Healing
  <2> QED
    BY <2>1, <2>3, <2>4, SoloMoves
<1>6. ASSUME NEW c \in Refreshers, Manage(c)
      PROVE  SoloInv'
  <2>1. /\ loc[c].pc = "read" /\ UNCHANGED <<price, traded, barHigh, row, clash>>
    BY <1>6 DEF Manage
  <2>2. PICK chart \in Charts, other \in BOOLEAN :
          \/ Done(c) \/ Goto(c, "T1") \/ Goto(c, "T2") \/ Goto(c, "close")
          \/ loc' = [loc EXCEPT ![c] = Updating(loc[c].row, chart, other)]
    BY <1>6 DEF Manage, Updating
  <2>3. /\ \A d \in Refreshers \ {c} : loc'[d] = loc[d]
        /\ \/ loc'[c].pc \in {"idle", "T1", "T2", "close"}
           \/ loc'[c].pc = "update" /\ loc'[c].parts = loc[c].row.parts
    BY <1>t, <2>2 DEF Done, Goto, Updating, Idle
  <2>4. ~clash => Evident(row') /\ Fresh(loc[c])' /\ Healing(loc[c])'
    BY <2>1, <2>3 DEF SoloInv, Fresh, Evident, Healing
  <2> QED
    BY <2>1, <2>3, <2>4, SoloMoves
<1>7. ASSUME NEW c \in Refreshers, UpdateStop(c)
      PROVE  SoloInv'
  <2>1. /\ row' = [row EXCEPT !.trail = loc[c].suggested, !.hwm = loc[c].high,
                              !.parts = loc[c].parts]
        /\ loc' = [loc EXCEPT ![c] = Idle]
        /\ UNCHANGED <<price, traded, barHigh, clash>> /\ loc[c].pc = "update"
    BY <1>7 DEF UpdateStop, Done
  <2>2. row'.t1 = row.t1 /\ row'.t2 = row.t2 /\ row'.parts = loc[c].parts
    BY <1>t, <2>1 DEF Row
  <2>3. loc'[c].pc = "idle" /\ \A d \in Refreshers \ {c} : loc'[d] = loc[d]
    BY <1>t, <2>1 DEF Idle
  <2>4. ~clash => Evident(row') /\ Fresh(loc[c])' /\ Healing(loc[c])'
    BY <2>1, <2>2, <2>3 DEF SoloInv, Fresh, Evident, Healing
  <2> QED
    BY <2>1, <2>3, <2>4, SoloMoves
<1>8. ASSUME NEW c \in Refreshers, NEW what \in Partials, FindPartial(c, what)
      PROVE  SoloInv'
  <2>1. loc[c].pc = what /\ UNCHANGED <<price, traded, barHigh, row, clash>>
    BY <1>8 DEF FindPartial
  <2>2. /\ \A d \in Refreshers \ {c} : loc'[d] = loc[d]
        /\ \/ loc'[c].pc \in {"idle", "close"}
           \/ loc'[c].pc = "book" /\ loc'[c].row = row
    BY <1>t, <1>8 DEF FindPartial, Done, Goto, Idle
  <2>3. ~clash => Evident(row') /\ Fresh(loc[c])' /\ Healing(loc[c])'
    BY <2>1, <2>2 DEF SoloInv, Fresh, Evident, Healing
  <2> QED
    BY <2>1, <2>2, <2>3, SoloMoves DEF Partials
<1>9. ASSUME NEW c \in Refreshers, BookPartial(c)
      PROVE  SoloInv'
  <2> DEFINE found == loc[c].row
             what  == loc[c].what
             trail == IF what = "T1" THEN Max({found.trail, Entry}) ELSE found.trail
  <2>1. /\ row' = [row EXCEPT !.t1 = found.t1 \/ what = "T1", !.t2 = found.t2 \/ what = "T2",
                              !.trail = trail, !.hwm = found.hwm,
                              !.parts = found.parts \cup {what}]
        /\ loc' = [loc EXCEPT ![c] = Idle]
        /\ UNCHANGED <<price, traded, barHigh, clash>> /\ loc[c].pc = "book"
    BY <1>9 DEF BookPartial, Done
  <2>2. what \in {"T1", "T2"}
    BY <1>t, <2>1, CarriedCases DEF Partials
  <2>3. ~clash => Evident(found)
    BY <2>1 DEF SoloInv, Fresh, Evident, Healing
  <2> HIDE DEF found, what, trail
  <2>4. /\ row'.t1 = (found.t1 \/ what = "T1") /\ row'.t2 = (found.t2 \/ what = "T2")
        /\ row'.parts = found.parts \cup {what}
    BY <1>t, <2>1 DEF Row
  <2>5. loc'[c].pc = "idle" /\ \A d \in Refreshers \ {c} : loc'[d] = loc[d]
    BY <1>t, <2>1 DEF Idle
  <2>6. ~clash => Evident(row') /\ Fresh(loc[c])' /\ Healing(loc[c])'
    BY <2>2, <2>3, <2>4, <2>5 DEF Fresh, Evident, Healing
  <2> QED
    BY <2>1, <2>5, <2>6, SoloMoves
<1>10. ASSUME NEW c \in Refreshers, CloseRow(c)
       PROVE  SoloInv'
  <2>1. /\ row' = [row EXCEPT !.status = "closed"] /\ loc' = [loc EXCEPT ![c] = Idle]
        /\ UNCHANGED <<price, traded, barHigh, clash>> /\ loc[c].pc = "close"
    BY <1>10 DEF CloseRow, Done
  <2>2. row'.t1 = row.t1 /\ row'.t2 = row.t2 /\ row'.parts = row.parts
    BY <1>t, <2>1 DEF Row
  <2>3. loc'[c].pc = "idle" /\ \A d \in Refreshers \ {c} : loc'[d] = loc[d]
    BY <1>t, <2>1 DEF Idle
  <2>4. ~clash => Evident(row') /\ Fresh(loc[c])' /\ Healing(loc[c])'
    BY <2>2, <2>3 DEF SoloInv, Fresh, Evident, Healing
  <2> QED
    BY <2>1, <2>3, <2>4, SoloMoves
<1>11. CASE UserCloses \/ UserReopens \/ UserDeletes \/ \E t \in Edits : UserEdits(t)
  <2>1. /\ UNCHANGED <<price, traded, barHigh, loc, clash>>
        /\ row'.t1 = row.t1 /\ row'.t2 = row.t2 /\ row'.parts = row.parts
        /\ row'.hwm = row.hwm
    BY <1>t, <1>11 DEF UserCloses, UserReopens, UserDeletes, UserEdits, Row
  <2> QED
    BY <2>1 DEF SoloInv, Fresh, Evident, Healing
<1> QED
  BY <1>1, <1>2, <1>3, <1>4, <1>5, <1>6, <1>7, <1>8, <1>9, <1>10, <1>11 DEF Next, Partials

LEMMA SoloAlways == Spec => [](TypeInv /\ SoloInv)
BY InitTypes, StepTypes, SoloInit, SoloStep, PTL DEF Spec

\* While refreshes do not overlap the evidence names every partial booked.
THEOREM EvidenceIsKept == Spec => []EvidenceKeepsPartials
<1>1. SoloInv => EvidenceKeepsPartials
  BY DEF SoloInv, Evident, EvidenceKeepsPartials
<1> QED
  BY <1>1, SoloAlways, PTL

\* While refreshes do not overlap, one that saw bars and a real quote leaves a
\* high-water mark no higher than what traded from the entry day's open on.
THEOREM HighWaterIsHealed == Spec => HighWaterHeals
<1> DEFINE Heals(c) == /\ loc[c].pc = "ratchet" /\ loc'[c] = Idle /\ ~clash
                       /\ loc[c].sound /\ row.status # "deleted"
                       => row'.hwm <= traded
<1>1. ASSUME TypeInv, SoloInv, [Next]_vars, NEW c \in Refreshers
      PROVE  Heals(c)
  <2> SUFFICES ASSUME loc[c].pc = "ratchet", loc'[c] = Idle, ~clash, loc[c].sound,
                      row.status # "deleted"
               PROVE  row'.hwm <= traded
    OBVIOUS
  <2>1. loc'[c] # loc[c]
    BY DEF Idle
  <2>2. \A d \in Refreshers \ {c} : loc[d].pc = "idle"
    BY <1>1 DEF SoloInv
  <2>3. PersistTrail(c)
    <3>1. CASE \/ \E p \in Prices : Trade(p)
               \/ BarsArrive \/ UserCloses \/ UserReopens \/ UserDeletes \/ UNCHANGED vars
               \/ \E t \in Edits : UserEdits(t)
      BY <2>1, <3>1 DEF Trade, BarsArrive, UserCloses, UserReopens, UserDeletes, UserEdits, vars
    <3>2. ASSUME NEW d \in Refreshers, Begin(d)
          PROVE  FALSE
      BY <2>1, <3>2 DEF Begin, Idle
    <3>3. ASSUME NEW d \in Refreshers,
                 \/ RefreshJournal(d) \/ Manage(d) \/ UpdateStop(d) \/ BookPartial(d)
                 \/ CloseRow(d) \/ FindPartial(d, "T1") \/ FindPartial(d, "T2")
          PROVE  FALSE
      BY <2>2, <3>3 DEF RefreshJournal, Manage, UpdateStop, BookPartial, CloseRow, FindPartial
    <3>4. ASSUME NEW d \in Refreshers, PersistTrail(d)
          PROVE  d = c
      BY <2>2, <3>4 DEF PersistTrail
    <3> QED
      BY <1>1, <3>1, <3>2, <3>3, <3>4 DEF Next
  <2>4. row \in Row /\ loc[c].update.hwm \in Nat /\ loc[c].update.trail \in Nat
    BY <1>1, CarriedCases DEF TypeInv
  <2>5. row'.hwm = IF loc[c].update.hwm > 0 THEN loc[c].update.hwm ELSE row.hwm
    BY <2>3, <2>4, PersistWrites DEF Row
  <2>6. Healing(loc[c])
    BY <1>1 DEF SoloInv
  <2> QED
    BY <2>5, <2>6 DEF Healing
<1>2. TypeInv /\ SoloInv /\ [Next]_vars => [\A c \in Refreshers : Heals(c)]_vars
  BY <1>1
<1>3. HighWaterHeals <=> [][\A c \in Refreshers : Heals(c)]_vars
  BY DEF HighWaterHeals
<1> HIDE DEF Heals
<1> QED
  BY <1>2, <1>3, SoloAlways, PTL DEF Spec

-----------------------------------------------------------------------------
(* The verdict owes nothing to what is stored, but where the EMA trails early. *)

\* A stored floor under what the high-water mark justifies moves the trail only
\* where the EMA trails early, and then up to that floor at most.
LEMMA TrailForgets ==
    ASSUME NEW high \in Nat, NEW chart \in Chart, NEW target \in Nat,
           NEW floor \in Nat, floor <= FromHigh(high, chart, target)
    PROVE  LET trail == TrailStop(high, chart, target, floor)
               bare  == TrailStop(high, chart, target, 0)
           IN  /\ trail \in Nat /\ bare \in Nat /\ bare <= trail
               /\ trail > 0 => \/ trail = bare
                               \/ /\ Early(high - Entry, target) /\ chart.ema9 > 0
                                  /\ bare > 0 /\ trail = floor
<1> DEFINE peak == high - Entry
           ema9 == IF 2 * peak >= target THEN chart.ema9 ELSE 0
           from == FromHigh(high, chart, target)
           Top(f) == Max({from, ema9, f, CTC(peak), Lock(peak)})
           Ema(f) == Max({ema9, f})
           Trail(f) == TrailStop(high, chart, target, f)
<1>1. peak \in Int /\ chart.ema9 \in Nat
  BY LevelsAreNats DEF Entry, Chart
<1>2. \A f : Trail(f) = IF Armed(peak, target) THEN Top(f)
                        ELSE IF ema9 > 0 THEN Ema(f) ELSE 0
  BY DEF TrailStop
<1>3. ema9 \in Nat /\ (ema9 > 0 => 2 * peak >= target /\ chart.ema9 > 0)
  BY <1>1
<1>4. from \in Nat /\ CTC(peak) \in Nat /\ Lock(peak) \in Nat /\ floor <= from
  BY <1>1, FromHighType, FloorTypes
<1>5. ema9 > 0 /\ ~Armed(peak, target) => Early(peak, target)
  BY <1>3 DEF Early
<1> HIDE DEF peak, ema9, from
<1>6. Top(floor) = Top(0) /\ Top(0) \in Nat
  <2>1. /\ Top(floor) \in {from, ema9, floor, CTC(peak), Lock(peak)}
        /\ \A y \in {from, ema9, floor, CTC(peak), Lock(peak)} : Top(floor) >= y
    <3>1. /\ from \in Int /\ ema9 \in Int /\ floor \in Int
          /\ CTC(peak) \in Int /\ Lock(peak) \in Int
      BY <1>3, <1>4
    <3> QED
      BY <3>1, MaxFive, Zenon
  <2>2. /\ Top(0) \in {from, ema9, 0, CTC(peak), Lock(peak)}
        /\ \A y \in {from, ema9, 0, CTC(peak), Lock(peak)} : Top(0) >= y
    <3>1. /\ from \in Int /\ ema9 \in Int /\ 0 \in Int
          /\ CTC(peak) \in Int /\ Lock(peak) \in Int
      BY <1>3, <1>4
    <3> QED
      BY <3>1, MaxFive, Zenon
  <2> HIDE DEF Top
  <2>3. Top(floor) \in Nat /\ Top(0) \in Nat
    BY <1>3, <1>4, <2>1, <2>2
  <2>4. Top(floor) <= Top(0)
    BY <1>4, <2>1, <2>2, <2>3
  <2>5. Top(0) <= Top(floor)
    BY <1>4, <2>1, <2>2, <2>3
  <2> QED
    BY <2>3, <2>4, <2>5
<1>7. /\ Ema(floor) \in {ema9, floor} /\ Ema(floor) >= ema9 /\ Ema(floor) >= floor
      /\ Ema(0) = ema9
  <2>1. ema9 \in Int /\ floor \in Int /\ 0 \in Int
    BY <1>3
  <2>2. /\ Ema(floor) \in {ema9, floor} /\ \A y \in {ema9, floor} : Ema(floor) >= y
    BY <2>1, MaxTwo, Zenon
  <2>3. /\ Ema(0) \in {ema9, 0} /\ \A y \in {ema9, 0} : Ema(0) >= y
    BY <2>1, MaxTwo, Zenon
  <2> QED
    BY <1>3, <2>2, <2>3
<1> HIDE DEF Top, Ema
<1>8. /\ Trail(floor) \in Nat /\ Trail(0) \in Nat /\ Trail(0) <= Trail(floor)
      /\ Trail(floor) > 0 => \/ Trail(floor) = Trail(0)
                             \/ /\ Early(peak, target) /\ chart.ema9 > 0
                                /\ Trail(0) > 0 /\ Trail(floor) = floor
  <2> HIDE DEF Trail
  <2>1. CASE Armed(peak, target)
    BY <1>2, <1>6, <2>1
  <2>2. CASE ~Armed(peak, target) /\ ema9 > 0
    BY <1>2, <1>3, <1>5, <1>7, <2>2
  <2>3. CASE ~Armed(peak, target) /\ ~(ema9 > 0)
    BY <1>2, <2>3
  <2> QED
    BY <2>1, <2>2, <2>3
<1> QED
  BY <1>8 DEF peak

LEMMA RefreshForgets ==
    ASSUME NEW r \in Row, NEW chart \in Chart, chart.bars > 0
    PROVE  LET past == [r EXCEPT !.hwm = Entry, !.trail = 0]
               high == HighWater(chart.bars, chart.quote, Entry)
               then == Refresh(past, chart, FALSE).exit
           IN  /\ then => Refresh(r, chart, FALSE).exit
               /\ Refresh(r, chart, FALSE).exit =>
                     \/ then
                     \/ /\ Early(high - Entry, r.target) /\ chart.ema9 > 0
                        /\ chart.quote <= FromHigh(high, chart, r.target)
<1> DEFINE past == [r EXCEPT !.hwm = Entry, !.trail = 0]
           high == HighWater(chart.bars, chart.quote, Entry)
           floor(stored) == CappedFloor(high, chart, r.target, stored)
           Trail(stored) == TrailStop(high, chart, r.target, floor(stored))
           Other == \/ chart.quote <= ActiveStop(high - Entry, chart, r.target)
                    \/ chart.quote >= Entry + r.target
           Hit(stored) == Trail(stored) > 0 /\ chart.quote <= Trail(stored)
<1>1. past.target = r.target /\ past.hwm = Entry /\ past.trail = 0
      /\ r.hwm \in Nat /\ r.trail \in Nat /\ r.target \in Nat
  BY PricesAreNats DEF Row
<1>2. chart.bars \in Nat /\ chart.quote \in Nat
  BY PricesAreNats DEF Chart
<1>3. high \in Nat
  <2>1. Entry \in Nat
    BY DEF Entry
  <2> QED
    BY <1>2, <2>1, HighWaterType
<1>4. HighWater(chart.bars, chart.quote, r.hwm) = high
  BY DEF HighWater
<1>5. Refresh(r, chart, FALSE).exit = (Other \/ Hit(r.trail))
  <2> HIDE DEF high
  <2> QED
    BY <1>4 DEF Refresh
<1>6. Refresh(past, chart, FALSE).exit = (Other \/ Hit(0))
  <2> HIDE DEF past
  <2> QED
    BY <1>1 DEF Refresh
<1> HIDE DEF high, Other
<1>7. /\ floor(r.trail) \in Nat /\ floor(r.trail) <= FromHigh(high, chart, r.target)
      /\ floor(0) \in Nat /\ floor(0) <= FromHigh(high, chart, r.target)
      /\ FromHigh(high, chart, r.target) \in Nat
  BY <1>1, <1>3, CappedFloorType, FromHighType
<1>8. floor(0) = 0
  <2>1. 0 \in Int /\ FromHigh(high, chart, r.target) \in Int
    BY <1>7
  <2>2. /\ floor(0) \in {0, FromHigh(high, chart, r.target)}
        /\ \A y \in {0, FromHigh(high, chart, r.target)} : y >= floor(0)
    BY <2>1, MinTwo, Zenon DEF CappedFloor
  <2> HIDE DEF floor
  <2> QED
    BY <1>7, <2>2
<1> HIDE DEF floor
<1>9. /\ Trail(r.trail) \in Nat /\ Trail(0) \in Nat /\ Trail(0) <= Trail(r.trail)
      /\ Trail(r.trail) > 0 =>
            \/ Trail(r.trail) = Trail(0)
            \/ /\ Early(high - Entry, r.target) /\ chart.ema9 > 0
               /\ Trail(0) > 0 /\ Trail(r.trail) = floor(r.trail)
  BY <1>1, <1>3, <1>7, <1>8, TrailForgets
<1> HIDE DEF Trail
<1>10. Hit(0) => Hit(r.trail)
  BY <1>2, <1>9
<1>11. Hit(r.trail) => \/ Hit(0)
                        \/ /\ Early(high - Entry, r.target) /\ chart.ema9 > 0
                           /\ chart.quote <= FromHigh(high, chart, r.target)
  <2> DEFINE trail == Trail(r.trail)
             from  == FromHigh(high, chart, r.target)
             low   == floor(r.trail)
  <2> SUFFICES ASSUME Hit(r.trail), ~Hit(0)
               PROVE  /\ Early(high - Entry, r.target) /\ chart.ema9 > 0
                      /\ chart.quote <= from
    OBVIOUS
  <2>1. trail > 0 /\ chart.quote <= trail /\ trail # Trail(0)
    BY Zenon
  <2>2. /\ Early(high - Entry, r.target) /\ chart.ema9 > 0
        /\ trail = low
    BY <1>9, <2>1
  <2>3. low \in Nat /\ from \in Nat /\ low <= from
    BY <1>7
  <2> HIDE DEF trail, from, low
  <2> QED
    BY <1>2, <2>1, <2>2, <2>3
<1> HIDE DEF Hit, past
<1>12. /\ Refresh(past, chart, FALSE).exit => Refresh(r, chart, FALSE).exit
       /\ Refresh(r, chart, FALSE).exit =>
             \/ Refresh(past, chart, FALSE).exit
             \/ /\ Early(high - Entry, r.target) /\ chart.ema9 > 0
                /\ chart.quote <= FromHigh(high, chart, r.target)
  BY <1>5, <1>6, <1>10, <1>11, Zenon
<1> QED
  BY <1>12, Zenon DEF past, high

\* With bars at hand, and for every target, the exit verdict on a real price is
\* the one a row without any stored mark would get; where the EMA trails early
\* a stored floor may also force it, under the trail the high-water mark justifies.
THEOREM VerdictsForget == Spec => []VerdictForgets
<1>1. TypeInv => VerdictForgets
  <2> SUFFICES ASSUME TypeInv, barHigh > 0, NEW chart \in Charts, chart.quote = price
               PROVE  LET past == [row EXCEPT !.hwm = Entry, !.trail = 0]
                          high == HighWater(barHigh, price, Entry)
                          then == Refresh(past, chart, FALSE).exit
                      IN  /\ then => Refresh(row, chart, FALSE).exit
                          /\ Refresh(row, chart, FALSE).exit =>
                                \/ then
                                \/ /\ Early(high - Entry, row.target) /\ chart.ema9 > 0
                                   /\ price <= FromHigh(high, chart, row.target)
    BY DEF VerdictForgets
  <2>1. row \in Row
    BY DEF TypeInv
  <2>2. chart \in Chart /\ chart.bars = barHigh /\ chart.bars > 0
    BY ChartsAreCharts DEF Charts
  <2> QED
    BY <2>1, <2>2, RefreshForgets
<1> QED
  BY <1>1, TypesAlways, PTL
=============================================================================
