----------------------------- MODULE SwingTrail -----------------------------
(***************************************************************************)
(* The live refresh of one open swing position: the high-water mark, the   *)
(* stops of the exit rules X1 and X6 computed from it (refreshPosition,    *)
(* evaluateExit), and the two books that store what a refresh computed.    *)
(* The journal keeps a trail that its writer only raises                   *)
(* (refreshOpenPositions); the paper book overwrites its effective stop    *)
(* and books the targets on the way (manageSwingPaperPositions).           *)
(*                                                                         *)
(* Every API page with live positions and the worker run a refresh: each   *)
(* reads the row, then the chart and a quote, then writes by id.  Prices   *)
(* are integers, the entry is Entry, and percentages are in hundredths.    *)
(* The quote may be a bad tick, above every price that traded.             *)
(***************************************************************************)
EXTENDS Integers, FiniteSets, FiniteSetsExt

CONSTANTS
    Refreshers,    \* refreshes that may overlap
    Books,         \* subset of {"journal", "paper"}: where the row lives
    Prices,        \* prices that trade
    BadTicks,      \* quotes that never traded
    Ema9Trails,    \* levels ema9TrailLevel may yield, 0 for none
    HardStops,     \* stops the live chart's plan may yield
    Structurals,   \* dynamic stops of the live chart, 0 for none
    Regimes,       \* subset of {"normal", "bear", "high_vol"}
    Targets,       \* profit targets, in hundredths of a percent over entry
    Edits          \* those of them a user may change a target to

Entry    == 10000
StopLoss == 9725                   \* the plan's stop when the row was opened
T1       == 10275
T2       == 10550

ASSUME BooksAreBooks  == Books \subseteq {"journal", "paper"}
ASSUME EntryTrades    == Entry \in Prices
ASSUME PricesAreNats  == Prices \cup BadTicks \cup Targets \subseteq Nat \ {0}
ASSUME EditsAreTargets == Edits \subseteq Targets
ASSUME LevelsAreNats  == Ema9Trails \cup Structurals \cup HardStops \subseteq Nat
ASSUME BadTicksAreBad == \A b \in BadTicks, p \in Prices : b > p

VARIABLES
    price,     \* last price that traded
    traded,    \* highest price since the entry day's open
    barHigh,   \* highest daily bar on or after the entry day, 0 while none
    row,       \* the swing_positions or paper_positions row
    loc,       \* what each refresh is doing
    clash      \* two refreshes have overlapped

vars == <<price, traded, barHigh, row, loc, clash>>

Partials == {"T1", "T2"}

-----------------------------------------------------------------------------
(* The stops, computed afresh by every refresh. *)

CTC(peak)  == IF peak >= 100 THEN 10035 ELSE 0      \* cost-to-cost
Lock(peak) == IF peak >= 300 THEN 10150 ELSE 0      \* profit lock

\* trailFromHighPct: wider once the peak has reached 75% of the target.
TrailFromHigh(regime, peak, target) ==
    LET runner == 4 * peak >= 3 * target
    IN  CASE regime = "high_vol" -> IF runner THEN 400 ELSE 320
          [] regime = "bear"     -> IF runner THEN 250 ELSE 180
          [] OTHER               -> IF runner THEN 350 ELSE 250

FromHigh(high, chart, target) ==
    (high * (10000 - TrailFromHigh(chart.regime, high - Entry, target))) \div 10000

\* Mutant: break-even and profit lock wait for half of the target.
ActiveStop_HalfTarget(peak, chart, target) ==
    IF 2 * peak >= target
    THEN Max({chart.hard, CTC(peak), Lock(peak), chart.ema9}) ELSE chart.hard

\* computeActiveStop: what X1 compares the price with.
ActiveStop(peak, chart, target) ==
    LET floor == Max({chart.hard, CTC(peak), Lock(peak)})
        held  == IF chart.structural < Entry THEN Max({floor, chart.structural})
                                             ELSE floor
    IN  IF 2 * peak >= target THEN Max({held, chart.ema9}) ELSE held

\* Peaks that arm the trail, and those at which the EMA trails before: half of
\* a target under 5% is reached first.
Armed(peak, target) == peak >= Max({250, (2 * target) \div 5})
Early(peak, target) == ~Armed(peak, target) /\ 2 * peak >= target

\* computeTrailStop: what X6 compares the price with, 0 for no trail.
TrailStop(high, chart, target, stored) ==
    LET peak == high - Entry
        ema9 == IF 2 * peak >= target THEN chart.ema9 ELSE 0
    IN  IF Armed(peak, target)
        THEN Max({FromHigh(high, chart, target), ema9, stored, CTC(peak), Lock(peak)})
        ELSE IF ema9 > 0 THEN Max({ema9, stored}) ELSE 0

\* highWaterSinceEntry: bars overrule the mark that was stored.
HighWater(bars, quote, stored) ==
    Max({IF bars > 0 THEN bars ELSE stored, quote, Entry})

\* Mutant: the stored trail is the floor, as it was before the bad-tick fix.
CappedFloor_Stored(high, chart, target, stored) == stored

\* The stored trail, capped at what the high-water mark justifies.
CappedFloor(high, chart, target, stored) ==
    Min({stored, FromHigh(high, chart, target)})

\* refreshPosition.  other: some rule but X1, X2 and X6 asks for the exit.
Refresh(r, chart, other) ==
    LET high   == HighWater(chart.bars, chart.quote, r.hwm)
        peak   == high - Entry
        capped == CappedFloor(high, chart, r.target, r.trail)
        active == ActiveStop(peak, chart, r.target)
        trail  == TrailStop(high, chart, r.target, capped)
        x1     == chart.quote <= active
        x2     == chart.quote >= Entry + r.target
        x6     == trail > 0 /\ chart.quote <= trail
        stop   == IF trail > 0 THEN trail ELSE active
    IN  [high |-> high, x6 |-> x6, exit |-> x1 \/ x2 \/ x6 \/ other,
         suggested |-> Max({stop, capped})]

-----------------------------------------------------------------------------
(* The market. *)

Chart == [quote : Prices \cup BadTicks, bars : {0} \cup Prices, ema9 : Ema9Trails,
          hard : HardStops, structural : Structurals, regime : Regimes]

Row == [book : Books, status : {"open", "closed", "deleted"}, target : Targets,
        hwm : Nat, trail : Nat, t1 : BOOLEAN, t2 : BOOLEAN, parts : SUBSET Partials]

\* What the rest of the market may add to the last price: a quote that is the
\* price or a bad tick, and indicators nobody controls.
Charts == [quote : {price} \cup BadTicks, bars : {barHigh}, ema9 : Ema9Trails,
           hard : HardStops, structural : Structurals, regime : Regimes]

Idle == [pc |-> "idle"]

TypeOK ==
    /\ price \in Prices /\ traded \in Prices
    /\ barHigh \in {0} \cup Prices /\ barHigh <= traded
    /\ row \in Row /\ (row.t2 => row.t1)
    /\ clash \in BOOLEAN

\* The entry day may have seen a higher price before the entry.
Init ==
    /\ price = Entry /\ traded \in {p \in Prices : p >= Entry} /\ barHigh = 0
    /\ \E b \in Books, t \in Targets :
          row = [book |-> b, status |-> "open", target |-> t, hwm |-> Entry,
                 trail |-> IF b = "paper" THEN StopLoss ELSE 0,
                 t1 |-> FALSE, t2 |-> FALSE, parts |-> {}]
    /\ loc = [c \in Refreshers |-> Idle]
    /\ clash = FALSE

\* Bars are there and the quote is a price.
Sound(chart) == chart.bars > 0 /\ chart.quote \in Prices

Trade(p) ==
    /\ price' = p /\ traded' = Max({traded, p})
    /\ UNCHANGED <<barHigh, row, loc, clash>>

\* The daily bars from the entry day's on catch up with what traded.
BarsArrive ==
    /\ barHigh < traded /\ barHigh' = traded
    /\ UNCHANGED <<price, traded, row, loc, clash>>

-----------------------------------------------------------------------------
(* A refresh reads the open rows, then awaits the chart and the quote. *)

Begin(c) ==
    /\ loc[c] = Idle /\ row.status = "open"
    /\ loc' = [loc EXCEPT ![c] = [pc |-> "read", row |-> row]]
    /\ clash' = (clash \/ \E d \in Refreshers \ {c} : loc[d] # Idle)
    /\ UNCHANGED <<price, traded, barHigh, row>>

Goto(c, pc) == loc' = [loc EXCEPT ![c] = [pc |-> pc]]

Done(c) == loc' = [loc EXCEPT ![c] = Idle]

\* Mutant: the high-water mark is raised only.
Ratchet_UpOnly(read, res) ==
    [hwm   |-> IF res.high > read.hwm THEN res.high ELSE 0,
     trail |-> IF res.suggested > read.trail THEN res.suggested ELSE 0]

\* trailRatchetFields judges by the row as it was read; 0 for a field that the
\* update leaves alone.
Ratchet(read, res) ==
    [hwm   |-> IF res.high # read.hwm THEN res.high ELSE 0,
     trail |-> IF res.suggested > read.trail THEN res.suggested ELSE 0]

\* refreshOpenPositions: journal rows are refreshed and never closed here.
RefreshJournal(c) ==
    /\ loc[c].pc = "read" /\ row.book = "journal"
    /\ \E chart \in Charts :
          loc' = [loc EXCEPT ![c] =
             [pc |-> "ratchet", sound |-> Sound(chart),
              update |-> Ratchet(loc[c].row, Refresh(loc[c].row, chart, FALSE))]]
    /\ UNCHANGED <<price, traded, barHigh, row, clash>>

\* persistPositionTrailRatchet writes by id, open or not; where the row is gone
\* the update throws, and the refresh ends with it.
PersistTrail(c) ==
    /\ loc[c].pc = "ratchet"
    /\ LET update == loc[c].update
       IN  row' = IF row.status = "deleted" THEN row
                  ELSE [row EXCEPT !.hwm   = IF update.hwm > 0 THEN update.hwm ELSE @,
                                   !.trail = IF update.trail > 0 THEN update.trail ELSE @]
    /\ Done(c) /\ UNCHANGED <<price, traded, barHigh, clash>>

\* manageSwingPaperPositions: an incompatible mark is skipped, a target is
\* booked, an exit closes, and only then is the row updated.
Compatible(quote) == quote \in 8000..12000

Manage(c) ==
    /\ loc[c].pc = "read" /\ row.book = "paper"
    /\ \E chart \in Charts, other \in BOOLEAN :
          LET read == loc[c].row
              res  == Refresh(read, chart, other)
              hitT1 == ~read.t1 /\ chart.quote >= T1
              hitT2 == read.t1 /\ ~read.t2 /\ chart.quote >= T2
          IN  CASE ~Compatible(chart.quote) -> Done(c)
                [] Compatible(chart.quote) /\ hitT1 -> Goto(c, "T1")
                [] Compatible(chart.quote) /\ hitT2 -> Goto(c, "T2")
                [] Compatible(chart.quote) /\ ~hitT1 /\ ~hitT2 ->
                     IF res.exit THEN Goto(c, "close")
                     ELSE loc' = [loc EXCEPT ![c] =
                            [pc |-> "update", parts |-> read.parts,
                             high |-> res.high, suggested |-> res.suggested]]
    /\ UNCHANGED <<price, traded, barHigh, row, clash>>

\* Mutant: the evidence is written afresh.
UpdateStop_NewEvidence(c) ==
    /\ loc[c].pc = "update"
    /\ row' = [row EXCEPT !.trail = loc[c].suggested,
                          !.hwm   = loc[c].high,
                          !.parts = {}]
    /\ Done(c) /\ UNCHANGED <<price, traded, barHigh, clash>>

\* The update writes the stop as computed, and the evidence as it was read
\* with the new high-water mark.
UpdateStop(c) ==
    /\ loc[c].pc = "update"
    /\ row' = [row EXCEPT !.trail = loc[c].suggested,
                          !.hwm   = loc[c].high,
                          !.parts = loc[c].parts]
    /\ Done(c) /\ UNCHANGED <<price, traded, barHigh, clash>>

\* bookPaperPartial finds the row again; a partial that would sell all that
\* is left, or nothing (how many shares is PaperWallet's subject), is not one.
FindPartial(c, what) ==
    /\ loc[c].pc = what
    /\ IF \/ row.status = "closed"
          \/ what = "T1" /\ row.t1
          \/ what = "T2" /\ (row.t2 \/ ~row.t1)
       THEN Done(c)
       ELSE \/ Done(c)
            \/ Goto(c, "close")
            \/ loc' = [loc EXCEPT ![c] = [pc |-> "book", what |-> what, row |-> row]]
    /\ UNCHANGED <<price, traded, barHigh, row, clash>>

BookPartial(c) ==
    /\ loc[c].pc = "book"
    /\ LET found == loc[c].row
           what  == loc[c].what
       IN  row' = [row EXCEPT
              !.t1    = found.t1 \/ what = "T1",
              !.t2    = found.t2 \/ what = "T2",
              !.trail = IF what = "T1" THEN Max({found.trail, Entry}) ELSE found.trail,
              !.hwm   = found.hwm,
              !.parts = found.parts \cup {what}]
    /\ Done(c) /\ UNCHANGED <<price, traded, barHigh, clash>>

CloseRow(c) ==
    /\ loc[c].pc = "close"
    /\ row' = [row EXCEPT !.status = "closed"]
    /\ Done(c) /\ UNCHANGED <<price, traded, barHigh, clash>>

-----------------------------------------------------------------------------
(* The user's own changes to a journal row. *)

\* closeSwingPosition, reopenSwingPosition: the marks survive an undone close.
UserCloses ==
    /\ row.book = "journal" /\ row.status = "open"
    /\ row' = [row EXCEPT !.status = "closed"]
    /\ UNCHANGED <<price, traded, barHigh, loc, clash>>

UserReopens ==
    /\ row.book = "journal" /\ row.status = "closed"
    /\ row' = [row EXCEPT !.status = "open"]
    /\ UNCHANGED <<price, traded, barHigh, loc, clash>>

\* deleteSwingPosition, of an open row or of a closed one.
UserDeletes ==
    /\ row.book = "journal" /\ row.status # "deleted"
    /\ row' = [row EXCEPT !.status = "deleted"]
    /\ UNCHANGED <<price, traded, barHigh, loc, clash>>

\* updateSwingPosition with another target.
UserEdits(t) ==
    /\ row.book = "journal" /\ row.status # "deleted" /\ row.target # t
    /\ row' = [row EXCEPT !.target = t]
    /\ UNCHANGED <<price, traded, barHigh, loc, clash>>

Next ==
    \/ \E p \in Prices \ {price} : Trade(p)
    \/ BarsArrive
    \/ \E c \in Refreshers :
          \/ Begin(c)
          \/ RefreshJournal(c) \/ PersistTrail(c)
          \/ Manage(c) \/ UpdateStop(c)
          \/ FindPartial(c, "T1") \/ FindPartial(c, "T2")
          \/ BookPartial(c) \/ CloseRow(c)
    \/ UserCloses \/ UserReopens \/ UserDeletes
    \/ \E t \in Edits : UserEdits(t)

Spec == Init /\ [][Next]_vars

-----------------------------------------------------------------------------
(* Properties. *)

\* With bars at hand the verdict on a real price owes nothing to what earlier
\* refreshes have stored.  So a bad tick is forgotten: no stop ratcheted from a
\* quote that never traded forces an exit (CappedFloor, HighWater).  And so is a
\* genuine trail: where the chart of today justifies less, the stored floor does
\* not hold (the documents' "floor, only moves up" is the column, not the exit).
\* Only where the EMA trails early may a stored floor force an exit, and then
\* under the trail that the high-water mark justifies.
VerdictForgets ==
    LET forgetful == [row EXCEPT !.hwm = Entry, !.trail = 0]
    IN  barHigh > 0 =>
          \A chart \in {ch \in Charts : ch.quote = price} :
             LET high == HighWater(barHigh, price, Entry)
                 then == Refresh(forgetful, chart, FALSE).exit
                 now  == Refresh(row, chart, FALSE).exit
             IN  /\ then => now
                 /\ now =>
                       \/ then
                       \/ /\ Early(high - Entry, row.target) /\ chart.ema9 > 0
                          /\ price <= FromHigh(high, chart, row.target)

\* The stop the paper book stores belongs to the high-water mark it stores:
\* from a peak of 1% on it is never under cost-to-cost, through pullbacks,
\* overlapping ticks and partials written from an older row, unless the EMA
\* trails early.
StopFitsPeak ==
    row.book = "paper" /\ row.hwm >= Entry + 100 /\ ~Early(row.hwm - Entry, row.target)
        => row.trail >= CTC(100)

\* While refreshes do not overlap, the evidence names every partial booked:
\* the entry fees still to be charged at the close are counted from it.
EvidenceKeepsPartials ==
    row.book = "paper" /\ ~clash =>
        /\ row.t1 <=> "T1" \in row.parts
        /\ row.t2 <=> "T2" \in row.parts

\* A journal refresh that saw bars and a real quote, with no other beside it,
\* leaves a high-water mark no higher than what traded from the entry day's open
\* on, however wrong the one before was.
HighWaterHeals ==
    [][\A c \in Refreshers :
          /\ loc[c].pc = "ratchet" /\ loc'[c] = Idle /\ ~clash
          /\ loc[c].sound /\ row.status # "deleted"
          => row'.hwm <= traded]_vars
=============================================================================
